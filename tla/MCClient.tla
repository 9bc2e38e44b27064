-------------------------------- MODULE MCClient -------------------------------
(* The web client: the session of a tab, its data views, the bell and   *)
(* the portfolio's scenario.  Each behaviour moves one of them, for they    *)
(* meet only in the page shown.                                             *)
EXTENDS ClientSession, Views, TLC

VARIABLE part       \* the component that moves

mcVars == <<clientVars, viewVars, bellVars, scenarioVars, part>>

Init ==
    /\ part \in {"session", "view", "bell", "scenario"}
    /\ ClientInit /\ ViewInit /\ BellInit /\ ScenarioInit
    /\ part # "session" => csrfDisabled = (CHOOSE c \in CsrfModes : TRUE) /\ \A p \in Persons : ~onboarded[p]
    /\ part # "view" => view = CHOOSE v \in PageKinds : TRUE

Next ==
    /\ \/ part = "session" /\ ClientNext /\ UNCHANGED <<viewVars, bellVars, scenarioVars>>
       \/ part = "view" /\ ViewNext /\ UNCHANGED <<clientVars, bellVars, scenarioVars>>
       \/ part = "bell" /\ BellNext /\ UNCHANGED <<clientVars, viewVars, scenarioVars>>
       \/ part = "scenario" /\ ScenarioNext /\ UNCHANGED <<clientVars, viewVars, bellVars>>
    /\ UNCHANGED part

(* The timer polls on, and not every poll fails.                            *)
Fairness ==
    \A i \in Polls :
        /\ WF_mcVars(part = "bell" /\ FetchNotifications(i) /\ UNCHANGED <<clientVars, viewVars, scenarioVars, part>>)
        /\ SF_mcVars(part = "bell" /\ GetUnreadNotifications(i) /\ UNCHANGED <<clientVars, viewVars, scenarioVars, part>>)
        /\ SF_mcVars(part = "bell" /\ PollArrives(i) /\ UNCHANGED <<clientVars, viewVars, scenarioVars, part>>)

Spec == Init /\ [][Next]_mcVars /\ Fairness

(* The parts of the client keep their types.                                *)
ClientsTypeOK == ClientTypeOK /\ ViewTypeOK /\ BellTypeOK /\ ScenarioTypeOK

(* Whatever answers come late, twice or out of order, the client shows the  *)
(* user of its cookie, the selection made, what was saved once, a badge     *)
(* that promises no more than there is and the scenario of the controls     *)
(* (AuthContext.tsx, the pages, the bell).                                  *)
ShownIsTrue ==
    /\ ClientsTypeOK /\ UserIsCookie /\ ClockIsConfirmed /\ SettledShowsSelection
    /\ PlanShownIsSelected /\ SavedIsShownOnce /\ BadgeNeverOvercounts
    /\ ShownIsTheScenario

(* The bell catches up again and again although polls overlap and fail,     *)
(* reads nothing the user did not click, and a loading page lands where its *)
(* user may be.                                                             *)
ClientCatchesUp ==
    /\ BellKeepsUp /\ OnlyClickedIsRead /\ LoadLandsAtHome

================================================================================
