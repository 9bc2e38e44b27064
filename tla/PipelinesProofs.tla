---------------------------- MODULE PipelinesProofs ----------------------------
(* Proofs about the ways text takes into the knowledge base.  Each component *)
(* has an inductive invariant of its own; the composed specification moves   *)
(* one of them in a step and leaves the others alone.                        *)
EXTENDS MCPipelines, WellFoundedInduction, FiniteSetTheorems, SequenceTheorems, TLAPS

--------------------------------------------------------------------------------
(* State machines.                                                          *)

(* What a transition in progress has read is legal.                         *)
MovesAreLegal ==
    \A m \in Movers :
        \/ mover[m] = Idle
        \/ /\ mover[m].item \in Items
           /\ \/ /\ mover[m].at = "update" /\ mover[m].from # NoItem
                 /\ <<mover[m].from, mover[m].to>> \in Legal(kind[mover[m].item])
              \/ /\ mover[m].at = "log" /\ kind[mover[m].item] # "autolearn"
                 /\ \/ <<mover[m].from, mover[m].to>> \in Legal(kind[mover[m].item])
                    \/ mover[m].from = NoItem /\ mover[m].to = First(kind[mover[m].item])
              \/ mover[m].at \in {"read_chain", "chain"} /\ kind[mover[m].item] = "annotation"

(* An item without an overlap has one mover at most, and what that one has  *)
(* read is still so.                                                        *)
OneMover ==
    \A m \in Movers : mover[m].item \in Items \ overlapped =>
        /\ \A o \in Movers : mover[o].item = mover[m].item => o = m
        /\ mover[m].at = "update" => state[mover[m].item] = mover[m].from
        /\ mover[m].at = "chain" => mover[m].prev = Len(chain[mover[m].item])

(* The log of an item ends where its row is, but for the one row that a     *)
(* mover is about to append.                                                *)
Ends(i, s) == log[i] # <<>> /\ log[i][Len(log[i])][2] = s
LogFollowsState ==
    \A i \in Items \ (overlapped \cup halved) : kind[i] # "autolearn" =>
        \/ /\ \A m \in Movers : mover[m].item # i \/ mover[m].at # "log"
           /\ IF state[i] = NoItem THEN log[i] = <<>> ELSE Ends(i, state[i])
        \/ \E m \in Movers :
              /\ mover[m].item = i /\ mover[m].at = "log" /\ state[i] = mover[m].to
              /\ IF mover[m].from = NoItem THEN log[i] = <<>> /\ mover[m].to = First(kind[i])
                 ELSE Ends(i, mover[m].from)

LogIsLinked ==
    \A i \in Items \ (overlapped \cup halved) : log[i] # <<>> =>
        /\ log[i][1] = <<NoItem, First(kind[i])>>
        /\ \A n \in 2 .. Len(log[i]) : log[i][n][1] = log[i][n - 1][2]

MachineInv ==
    /\ MachineTypeOK /\ MovesAreLegal /\ OneMover /\ LogFollowsState /\ LogIsLinked /\ ChainIsUnbroken

(* The tables only name states of their machines, and NULL is none.         *)
LEMMA TableFacts ==
    ASSUME NEW k \in Kinds
    PROVE  /\ First(k) \in StatesOf(k) /\ StatesOf(k) \subseteq States /\ NoItem \notin StatesOf(k)
           /\ \A a, b : <<a, b>> \in Legal(k) => b \in StatesOf(k) /\ a \notin Final(k)
BY MachineAssumption DEF StatesOf, States, Final

(* Idle is a transition.                                                    *)
LEMMA MovingFacts ==
    /\ Idle \in Transition /\ Idle.at = "idle" /\ Idle.item = NoItem /\ NoItem \notin Items
    /\ \A at, i, a, b :
          /\ Moving(at, i, a, b).at = at /\ Moving(at, i, a, b).item = i
          /\ Moving(at, i, a, b).from = a /\ Moving(at, i, a, b).to = b
    /\ \A at \in {"update", "log"}, i \in Items, a, b \in States \cup {NoItem} :
          Moving(at, i, a, b) \in Transition
BY MachineAssumption DEF Idle, Moving, Transition

(* The machines start in their invariant.                                   *)
LEMMA MachineStarts == MachineInit => MachineInv
<1> SUFFICES ASSUME MachineInit PROVE MachineInv
  OBVIOUS
<1>1. MachineTypeOK
  BY MovingFacts, MachineAssumption DEF MachineInit, MachineTypeOK
<1>2. MovesAreLegal /\ OneMover
  BY MovingFacts DEF MachineInit, MovesAreLegal, OneMover
<1>3. LogFollowsState /\ LogIsLinked /\ ChainIsUnbroken
  BY MovingFacts DEF MachineInit, LogFollowsState, LogIsLinked, ChainIsUnbroken
<1> QED
  BY <1>1, <1>2, <1>3 DEF MachineInv

(* Only m moves, and what it does next is given by r.                       *)
Turns(m, r) ==
    /\ mover'[m] = r /\ r \in Transition
    /\ \A o \in Movers \ {m} : mover'[o] = mover[o]

(* A row written or read: what a step on item i does to its mover.          *)
LEMMA MoverSteps ==
    ASSUME MachineInv, NEW m \in Movers, NEW i \in Items, NEW to \in StatesOf(kind[i])
    PROVE  /\ InitState(m, i) => Turns(m, IF kind[i] = "autolearn" THEN Idle
                                          ELSE Moving("log", i, NoItem, First(kind[i])))
           /\ ReadState(m, i, to) => Turns(m, Moving("update", i, state[i], to))
<1>0. /\ kind[i] \in Kinds /\ mover \in [Movers -> Transition] /\ state[i] \in States \cup {NoItem}
  BY DEF MachineInv, MachineTypeOK
<1>1. to \in States /\ First(kind[i]) \in States
  BY <1>0, TableFacts
<1>2. ASSUME InitState(m, i)
      PROVE  Turns(m, IF kind[i] = "autolearn" THEN Idle ELSE Moving("log", i, NoItem, First(kind[i])))
  <2>1. (IF kind[i] = "autolearn" THEN Idle ELSE Moving("log", i, NoItem, First(kind[i]))) \in Transition
    BY <1>1, MovingFacts
  <2> QED
    BY <1>0, <1>2, <2>1 DEF InitState, Start, Turns
<1>3. ASSUME ReadState(m, i, to) PROVE Turns(m, Moving("update", i, state[i], to))
  <2>1. Moving("update", i, state[i], to) \in Transition
    BY <1>0, <1>1, MovingFacts
  <2> QED
    BY <1>0, <1>3, <2>1 DEF ReadState, Start, Turns
<1> QED
  BY <1>2, <1>3

(* The same transition, one statement further.                              *)
Further(m, at, prev) ==
    [at |-> at, item |-> mover[m].item, from |-> mover[m].from, to |-> mover[m].to, prev |-> prev]

(* The steps of a transition that has begun.                                *)
LEMMA MoverGoesOn ==
    ASSUME MachineInv, NEW m \in Movers
    PROVE  /\ UpdateState(m) =>
                Turns(m, IF kind[mover[m].item] = "autolearn" THEN Idle ELSE Further(m, "log", mover[m].prev))
           /\ AppendTransition(m) =>
                Turns(m, IF kind[mover[m].item] = "annotation" THEN Further(m, "read_chain", mover[m].prev)
                         ELSE Idle)
           /\ ReadChain(m) => Turns(m, Further(m, "chain", Len(chain[mover[m].item])))
           /\ AppendChain(m) \/ Halt(m) => Turns(m, Idle)
<1>0. mover \in [Movers -> Transition] /\ mover[m] \in Transition /\ Idle \in Transition
  BY MovingFacts DEF MachineInv, MachineTypeOK
<1>1. \A at \in {"idle", "update", "log", "read_chain", "chain"}, p \in Nat : Further(m, at, p) \in Transition
  BY <1>0 DEF Further, Transition
<1>2. mover[m].prev \in Nat
  BY <1>0 DEF Transition
<1>3. ASSUME UpdateState(m)
      PROVE  Turns(m, IF kind[mover[m].item] = "autolearn" THEN Idle ELSE Further(m, "log", mover[m].prev))
  <2>1. [mover[m] EXCEPT !.at = "log"] = Further(m, "log", mover[m].prev)
    BY <1>0 DEF Further, Transition
  <2>2. Further(m, "log", mover[m].prev) \in Transition
    BY <1>1, <1>2
  <2> QED
    BY <1>0, <1>3, <2>1, <2>2 DEF UpdateState, Turns
<1>4. ASSUME AppendTransition(m)
      PROVE  Turns(m, IF kind[mover[m].item] = "annotation" THEN Further(m, "read_chain", mover[m].prev)
                      ELSE Idle)
  <2>1. [mover[m] EXCEPT !.at = "read_chain"] = Further(m, "read_chain", mover[m].prev)
    BY <1>0 DEF Further, Transition
  <2>2. Further(m, "read_chain", mover[m].prev) \in Transition
    BY <1>1, <1>2
  <2> QED
    BY <1>0, <1>4, <2>1, <2>2 DEF AppendTransition, Turns
<1>5. ASSUME ReadChain(m) PROVE Turns(m, Further(m, "chain", Len(chain[mover[m].item])))
  <2>1. mover[m].item \in Items
    BY <1>5, MovingFacts DEF ReadChain, MachineInv, MovesAreLegal
  <2>2. Len(chain[mover[m].item]) \in Nat
    BY <2>1, LenProperties DEF MachineInv, MachineTypeOK
  <2>3. Further(m, "chain", Len(chain[mover[m].item])) \in Transition
    BY <1>1, <2>2
  <2>4. mover' = [mover EXCEPT ![m].at = "chain", ![m].prev = Len(chain[mover[m].item])]
    BY <1>5 DEF ReadChain
  <2>5. mover'[m] = Further(m, "chain", Len(chain[mover[m].item]))
    BY <1>0, <2>4 DEF Further, Transition
  <2> QED
    BY <1>0, <2>3, <2>4, <2>5 DEF Turns
<1>6. ASSUME AppendChain(m) \/ Halt(m) PROVE Turns(m, Idle)
  BY <1>0, <1>6 DEF AppendChain, Halt, Turns
<1> QED
  BY <1>3, <1>4, <1>5, <1>6

(* The first row of an item.                                                *)
LEMMA InitStep ==
    ASSUME MachineInv, NEW m \in Movers, NEW i \in Items, InitState(m, i)
    PROVE  MachineInv'
<1>0. /\ kind \in [Items -> Kinds] /\ kind[i] \in Kinds /\ kind' = kind /\ log' = log /\ chain' = chain
      /\ state \in [Items -> States \cup {NoItem}] /\ mover \in [Movers -> Transition]
      /\ state[i] = NoItem /\ state' = [state EXCEPT ![i] = First(kind[i])] /\ halved' = halved
      /\ mover[m] = Idle /\ moves' = moves + 1 /\ moves < MaxMoves /\ halts' = halts
      /\ overlapped' = IF \E o \in Movers : mover[o].item = i THEN overlapped \cup {i} ELSE overlapped
  BY DEF MachineInv, MachineTypeOK, InitState, Start
<1>1. Turns(m, IF kind[i] = "autolearn" THEN Idle ELSE Moving("log", i, NoItem, First(kind[i])))
  <2>1. First(kind[i]) \in StatesOf(kind[i])
    BY <1>0, TableFacts
  <2> QED
    BY <2>1, MoverSteps
<1>2. /\ First(kind[i]) \in StatesOf(kind[i]) /\ First(kind[i]) \in States /\ First(kind[i]) # NoItem
  BY <1>0, TableFacts
<1>3. MachineTypeOK'
  <2>1. mover' \in [Movers -> Transition]
    BY <1>0, <1>1 DEF InitState, Start, Turns
  <2>2. state' \in [Items -> States \cup {NoItem}]
    BY <1>0, <1>2
  <2>3. \A j \in Items : state'[j] \in StatesOf(kind[j]) \cup {NoItem}
    BY <1>0, <1>2 DEF MachineInv, MachineTypeOK
  <2>4. moves' \in 0 .. MaxMoves
    BY <1>0, MachineAssumption DEF MachineInv, MachineTypeOK
  <2>5. overlapped' \subseteq Items
    BY <1>0 DEF MachineInv, MachineTypeOK
  <2> QED
    BY <1>0, <2>1, <2>2, <2>3, <2>4, <2>5 DEF MachineInv, MachineTypeOK
<1>4. MovesAreLegal'
  BY <1>0, <1>1, MovingFacts DEF MachineInv, MovesAreLegal, Turns
<1>5. OneMover'
  <2>1. \A o \in Movers : mover[o].item = i => i \in overlapped'
    BY <1>0
  <2> SUFFICES ASSUME NEW n \in Movers, mover'[n].item \in Items \ overlapped'
               PROVE  /\ \A o \in Movers : mover'[o].item = mover'[n].item => o = n
                      /\ mover'[n].at = "update" => state'[mover'[n].item] = mover'[n].from
                      /\ mover'[n].at = "chain" => mover'[n].prev = Len(chain'[mover'[n].item])
    BY DEF OneMover
  <2>2. CASE n = m
    BY <1>0, <1>1, <2>1, <2>2, MovingFacts DEF Turns
  <2>3. CASE n # m
    <3>1. mover'[n] = mover[n] /\ mover[n].item # i /\ mover[n].item \in Items \ overlapped
      BY <1>0, <1>1, <2>1, <2>3 DEF Turns
    <3> QED
      BY <1>0, <1>1, <3>1, MovingFacts DEF MachineInv, OneMover, Turns
  <2> QED
    BY <2>2, <2>3
<1>6. LogFollowsState'
  <2> SUFFICES ASSUME NEW j \in Items, j \notin overlapped' \cup halved', kind'[j] # "autolearn"
               PROVE  \/ /\ \A n \in Movers : mover'[n].item # j \/ mover'[n].at # "log"
                         /\ IF state'[j] = NoItem THEN log'[j] = <<>> ELSE Ends(j, state[j])'
                      \/ \E n \in Movers :
                            /\ mover'[n].item = j /\ mover'[n].at = "log" /\ state'[j] = mover'[n].to
                            /\ IF mover'[n].from = NoItem THEN log'[j] = <<>> /\ mover'[n].to = First(kind'[j])
                               ELSE Ends(j, mover[n].from)'
    BY DEF LogFollowsState
  <2>0. j \notin overlapped \cup halved
    BY <1>0
  <2>1. CASE j = i
    <3>1. mover'[m] = Moving("log", i, NoItem, First(kind[i])) /\ state'[i] = First(kind[i])
      BY <1>0, <1>1, <2>1 DEF Turns
    <3>2. \A n \in Movers : mover[n].item # i
      BY <1>0, <2>1
    <3>3. log[i] = <<>>
      BY <1>0, <2>0, <2>1, <3>2 DEF MachineInv, LogFollowsState
    <3> QED
      BY <1>0, <2>1, <3>1, <3>3, MovingFacts
  <2>2. CASE j # i
    <3>1. \A n \in Movers : mover'[n].item = j => mover'[n] = mover[n]
      BY <1>0, <1>1, <2>2, MovingFacts DEF Turns
    <3>2. \A n \in Movers : mover[n].item = j => mover'[n] = mover[n]
      BY <1>0, <1>1, <2>2, MovingFacts DEF Turns
    <3>3. state'[j] = state[j] /\ log'[j] = log[j] /\ kind'[j] = kind[j]
      BY <1>0, <2>2
    <3> QED
      BY <2>0, <3>1, <3>2, <3>3 DEF MachineInv, LogFollowsState, Ends
  <2> QED
    BY <2>1, <2>2
<1>7. LogIsLinked' /\ ChainIsUnbroken'
  BY <1>0 DEF MachineInv, LogIsLinked, ChainIsUnbroken
<1> QED
  BY <1>3, <1>4, <1>5, <1>6, <1>7 DEF MachineInv

(* The SELECT and the check of a transition.                                *)
LEMMA ReadStep ==
    ASSUME MachineInv, NEW m \in Movers, NEW i \in Items, NEW to \in StatesOf(kind[i]), ReadState(m, i, to)
    PROVE  MachineInv'
<1>0. /\ kind' = kind /\ log' = log /\ chain' = chain /\ state' = state /\ halved' = halved
      /\ state[i] # NoItem /\ <<state[i], to>> \in Legal(kind[i]) /\ mover \in [Movers -> Transition]
      /\ mover[m] = Idle /\ moves' = moves + 1 /\ moves < MaxMoves /\ halts' = halts
      /\ overlapped' = IF \E o \in Movers : mover[o].item = i THEN overlapped \cup {i} ELSE overlapped
  BY DEF MachineInv, MachineTypeOK, ReadState, Start
<1>1. Turns(m, Moving("update", i, state[i], to))
  BY MoverSteps
<1>3. MachineTypeOK'
  <2>1. mover' \in [Movers -> Transition]
    BY <1>0, <1>1 DEF ReadState, Start, Turns
  <2>4. moves' \in 0 .. MaxMoves
    BY <1>0, MachineAssumption DEF MachineInv, MachineTypeOK
  <2>5. overlapped' \subseteq Items
    BY <1>0 DEF MachineInv, MachineTypeOK
  <2> QED
    BY <1>0, <2>1, <2>4, <2>5 DEF MachineInv, MachineTypeOK
<1>4. MovesAreLegal'
  BY <1>0, <1>1, MovingFacts DEF MachineInv, MovesAreLegal, Turns
<1>5. OneMover'
  <2>1. \A o \in Movers : mover[o].item = i => i \in overlapped'
    BY <1>0
  <2> SUFFICES ASSUME NEW n \in Movers, mover'[n].item \in Items \ overlapped'
               PROVE  /\ \A o \in Movers : mover'[o].item = mover'[n].item => o = n
                      /\ mover'[n].at = "update" => state'[mover'[n].item] = mover'[n].from
                      /\ mover'[n].at = "chain" => mover'[n].prev = Len(chain'[mover'[n].item])
    BY DEF OneMover
  <2>2. CASE n = m
    BY <1>0, <1>1, <2>1, <2>2, MovingFacts DEF Turns
  <2>3. CASE n # m
    <3>1. mover'[n] = mover[n] /\ mover[n].item \in Items \ overlapped
      BY <1>0, <1>1, <2>3 DEF Turns
    <3>2. mover[n].item # i
      BY <2>1, <3>1
    <3> QED
      BY <1>0, <1>1, <3>1, <3>2, MovingFacts DEF MachineInv, OneMover, Turns
  <2> QED
    BY <2>2, <2>3
<1>6. LogFollowsState'
  <2>1. \A n \in Movers : mover[n].at = "log" \/ mover'[n].at = "log" => mover'[n] = mover[n]
    BY <1>0, <1>1, MovingFacts DEF Turns
  <2>2. overlapped \subseteq overlapped'
    BY <1>0
  <2> QED
    BY <1>0, <2>1, <2>2 DEF MachineInv, LogFollowsState, Ends
<1>7. LogIsLinked' /\ ChainIsUnbroken'
  BY <1>0 DEF MachineInv, LogIsLinked, ChainIsUnbroken
<1> QED
  BY <1>3, <1>4, <1>5, <1>6, <1>7 DEF MachineInv

(* The UPDATE of a transition.                                              *)
LEMMA UpdateStep ==
    ASSUME MachineInv, NEW m \in Movers, UpdateState(m)
    PROVE  /\ MachineInv'
           /\ \A i \in Items \ overlapped : state[i] \in Final(kind[i]) => state'[i] = state[i]
<1> DEFINE i == mover[m].item
<1>0. /\ kind' = kind /\ log' = log /\ chain' = chain /\ halved' = halved /\ overlapped' = overlapped
      /\ moves' = moves /\ halts' = halts /\ mover[m].at = "update" /\ mover \in [Movers -> Transition]
      /\ state' = [state EXCEPT ![i] = mover[m].to] /\ state \in [Items -> States \cup {NoItem}]
      /\ kind \in [Items -> Kinds]
  BY DEF MachineInv, MachineTypeOK, UpdateState
<1>1. /\ i \in Items /\ <<mover[m].from, mover[m].to>> \in Legal(kind[i]) /\ kind[i] \in Kinds
      /\ mover[m].from # NoItem
  BY <1>0, MovingFacts DEF MachineInv, MovesAreLegal
<1>2. /\ mover[m].to \in StatesOf(kind[i]) /\ mover[m].to \in States /\ mover[m].to # NoItem
      /\ mover[m].from \notin Final(kind[i])
  BY <1>1, TableFacts
<1>3. Turns(m, IF kind[i] = "autolearn" THEN Idle ELSE Further(m, "log", mover[m].prev))
  BY MoverGoesOn
<1>4. i \notin overlapped => state[i] = mover[m].from /\ \A o \in Movers : mover[o].item = i => o = m
  BY <1>0, <1>1 DEF MachineInv, OneMover
<1> HIDE DEF i
<1>5. MachineTypeOK'
  <2>1. mover' \in [Movers -> Transition]
    BY <1>0, <1>3 DEF UpdateState, Turns
  <2>2. state' \in [Items -> States \cup {NoItem}]
    BY <1>0, <1>2
  <2>3. \A j \in Items : state'[j] \in StatesOf(kind[j]) \cup {NoItem}
    BY <1>0, <1>2 DEF MachineInv, MachineTypeOK
  <2> QED
    BY <1>0, <2>1, <2>2, <2>3 DEF MachineInv, MachineTypeOK
<1>6. MovesAreLegal'
  <2>1. kind[i] # "autolearn" =>
           /\ mover'[m].item = i /\ mover'[m].at = "log"
           /\ mover'[m].from = mover[m].from /\ mover'[m].to = mover[m].to
    BY <1>3 DEF Turns, Further, i
  <2> QED
    BY <1>0, <1>1, <1>3, <2>1 DEF MachineInv, MovesAreLegal, Turns
<1>7. OneMover'
  <2>1. mover'[m].at \in {"idle", "log"} /\ mover'[m].item \in {NoItem, i}
    BY <1>3, MovingFacts DEF Turns, Further, i
  <2> SUFFICES ASSUME NEW n \in Movers, mover'[n].item \in Items \ overlapped'
               PROVE  /\ \A o \in Movers : mover'[o].item = mover'[n].item => o = n
                      /\ mover'[n].at = "update" => state'[mover'[n].item] = mover'[n].from
                      /\ mover'[n].at = "chain" => mover'[n].prev = Len(chain'[mover'[n].item])
    BY DEF OneMover
  <2>2. CASE n = m
    BY <1>0, <1>3, <1>4, <2>1, <2>2, MovingFacts DEF Turns
  <2>3. CASE n # m
    <3>1. mover'[n] = mover[n] /\ mover[n].item \in Items \ overlapped
      BY <1>0, <1>3, <2>3 DEF Turns
    <3>2. mover[n].item # i
      BY <1>4, <2>3, <3>1
    <3> QED
      BY <1>0, <1>3, <2>1, <3>1, <3>2, MovingFacts DEF MachineInv, OneMover, Turns
  <2> QED
    BY <2>2, <2>3
<1>8. LogFollowsState'
  <2> SUFFICES ASSUME NEW j \in Items, j \notin overlapped \cup halved, kind[j] # "autolearn"
               PROVE  \/ /\ \A n \in Movers : mover'[n].item # j \/ mover'[n].at # "log"
                         /\ IF state'[j] = NoItem THEN log[j] = <<>> ELSE Ends(j, state[j])'
                      \/ \E n \in Movers :
                            /\ mover'[n].item = j /\ mover'[n].at = "log" /\ state'[j] = mover'[n].to
                            /\ IF mover'[n].from = NoItem THEN log[j] = <<>> /\ mover'[n].to = First(kind[j])
                               ELSE Ends(j, mover[n].from)'
    BY <1>0 DEF LogFollowsState
  <2>1. CASE j = i
    <3>1. /\ mover'[m].item = i /\ mover'[m].at = "log"
          /\ mover'[m].from = mover[m].from /\ mover'[m].to = mover[m].to
      BY <1>3, <2>1 DEF Turns, Further, i
    <3>2. \A n \in Movers : mover[n].item # i \/ mover[n].at # "log"
      BY <1>0, <1>4, <2>1
    <3>3. state[i] = mover[m].from /\ state[i] # NoItem
      BY <1>1, <1>4, <2>1
    <3>4. Ends(i, mover[m].from)
      BY <2>1, <3>2, <3>3 DEF MachineInv, LogFollowsState
    <3> QED
      BY <1>0, <2>1, <3>1, <3>3, <3>4 DEF Ends
  <2>2. CASE j # i
    <3>1. \A n \in Movers : mover'[n].item = j \/ mover[n].item = j => mover'[n] = mover[n]
      BY <1>0, <1>1, <1>3, <2>2, MovingFacts DEF Turns, Further, i
    <3>3. state'[j] = state[j] /\ log'[j] = log[j]
      BY <1>0, <2>2
    <3> QED
      BY <3>1, <3>3 DEF MachineInv, LogFollowsState, Ends
  <2> QED
    BY <2>1, <2>2
<1>9. LogIsLinked' /\ ChainIsUnbroken'
  BY <1>0 DEF MachineInv, LogIsLinked, ChainIsUnbroken
<1>10. \A j \in Items \ overlapped : state[j] \in Final(kind[j]) => state'[j] = state[j]
  BY <1>0, <1>2, <1>4
<1> QED
  BY <1>5, <1>6, <1>7, <1>8, <1>9, <1>10 DEF MachineInv

(* The INSERT of the log row.                                               *)
LEMMA AppendStep ==
    ASSUME MachineInv, NEW m \in Movers, AppendTransition(m)
    PROVE  MachineInv'
<1> DEFINE i == mover[m].item
           e == <<mover[m].from, mover[m].to>>
<1>0. /\ kind' = kind /\ state' = state /\ chain' = chain /\ halved' = halved /\ overlapped' = overlapped
      /\ moves' = moves /\ halts' = halts /\ mover[m].at = "log" /\ mover \in [Movers -> Transition]
      /\ log' = [log EXCEPT ![i] = Append(log[i], e)]
      /\ log \in [Items -> Seq((States \cup {NoItem}) \X States)] /\ kind \in [Items -> Kinds]
  BY DEF MachineInv, MachineTypeOK, AppendTransition
<1>1. /\ i \in Items /\ kind[i] # "autolearn" /\ kind[i] \in Kinds
      /\ e \in Legal(kind[i]) \/ (mover[m].from = NoItem /\ mover[m].to = First(kind[i]))
  BY <1>0, MovingFacts DEF MachineInv, MovesAreLegal
<1>2. mover[m].to \in States /\ mover[m].from \in States \cup {NoItem}
  <2>1. mover[m].to \in StatesOf(kind[i])
    BY <1>1, TableFacts
  <2>2. mover[m] \in Transition
    BY <1>0
  <2> QED
    BY <1>1, <2>1, <2>2, TableFacts DEF Transition
<1>3. Turns(m, IF kind[i] = "annotation" THEN Further(m, "read_chain", mover[m].prev) ELSE Idle)
  BY MoverGoesOn
<1>4. /\ e \in (States \cup {NoItem}) \X States /\ log[i] \in Seq((States \cup {NoItem}) \X States)
      /\ e[1] = mover[m].from /\ e[2] = mover[m].to
  BY <1>0, <1>1, <1>2
<1>5. i \notin overlapped => \A o \in Movers : mover[o].item = i => o = m
  BY <1>0, <1>1 DEF MachineInv, OneMover
<1>6. i \notin overlapped \cup halved =>
        /\ state[i] = mover[m].to
        /\ IF mover[m].from = NoItem THEN log[i] = <<>> /\ mover[m].to = First(kind[i])
           ELSE Ends(i, mover[m].from)
  <2> SUFFICES ASSUME i \notin overlapped \cup halved
               PROVE  /\ state[i] = mover[m].to
                      /\ IF mover[m].from = NoItem THEN log[i] = <<>> /\ mover[m].to = First(kind[i])
                         ELSE Ends(i, mover[m].from)
    OBVIOUS
  <2>1. ~(\A n \in Movers : mover[n].item # i \/ mover[n].at # "log")
    BY <1>0
  <2> HIDE DEF i
  <2>2. PICK n \in Movers :
           /\ mover[n].item = i /\ mover[n].at = "log" /\ state[i] = mover[n].to
           /\ IF mover[n].from = NoItem THEN log[i] = <<>> /\ mover[n].to = First(kind[i])
              ELSE Ends(i, mover[n].from)
    BY <1>1, <2>1 DEF MachineInv, LogFollowsState
  <2>3. n = m
    BY <1>5, <2>2
  <2> QED
    BY <2>2, <2>3
<1>7. mover'[m].at \in {"idle", "read_chain"} /\ mover'[m].item \in {NoItem, i}
  BY <1>3, MovingFacts DEF Turns, Further
<1> HIDE DEF i, e
<1>8. /\ log'[i] = Append(log[i], e) /\ \A j \in Items \ {i} : log'[j] = log[j]
      /\ Append(log[i], e) \in Seq((States \cup {NoItem}) \X States)
      /\ Len(log'[i]) = Len(log[i]) + 1 /\ Len(log[i]) \in Nat /\ log'[i] # <<>>
      /\ \A n \in 1 .. Len(log[i]) : log'[i][n] = log[i][n]
      /\ log'[i][Len(log[i]) + 1] = e
  <2>1. log'[i] = Append(log[i], e) /\ \A j \in Items \ {i} : log'[j] = log[j]
    BY <1>0, <1>1
  <2> QED
    BY <1>4, <2>1, AppendProperties, LenProperties
<1>9. MachineTypeOK'
  <2>1. mover' \in [Movers -> Transition]
    BY <1>0, <1>3 DEF AppendTransition, Turns
  <2>2. log' \in [Items -> Seq((States \cup {NoItem}) \X States)]
    BY <1>0, <1>8
  <2>3. \A j \in Items :
           /\ \A n \in 1 .. Len(log'[j]) : log'[j][n] \in Legal(kind[j]) \cup {<<NoItem, First(kind[j])>>}
           /\ kind[j] = "autolearn" => log'[j] = <<>>
    <3> SUFFICES ASSUME NEW j \in Items
                 PROVE  /\ \A n \in 1 .. Len(log'[j]) :
                              log'[j][n] \in Legal(kind[j]) \cup {<<NoItem, First(kind[j])>>}
                        /\ kind[j] = "autolearn" => log'[j] = <<>>
      OBVIOUS
    <3>1. CASE j # i
      BY <1>8, <3>1 DEF MachineInv, MachineTypeOK
    <3>2. CASE j = i
      <4>1. e \in Legal(kind[i]) \cup {<<NoItem, First(kind[i])>>}
        BY <1>1 DEF e
      <4>2. \A n \in 1 .. Len(log'[i]) : n \in 1 .. Len(log[i]) \/ n = Len(log[i]) + 1
        BY <1>8
      <4>3. \A n \in 1 .. Len(log[i]) : log[i][n] \in Legal(kind[i]) \cup {<<NoItem, First(kind[i])>>}
        BY <1>1 DEF MachineInv, MachineTypeOK
      <4> QED
        BY <1>1, <1>8, <3>2, <4>1, <4>2, <4>3
    <3> QED
      BY <3>1, <3>2
  <2> QED
    BY <1>0, <2>1, <2>2, <2>3 DEF MachineInv, MachineTypeOK
<1>10. MovesAreLegal'
  <2>1. kind[i] = "annotation" => mover'[m].item = i /\ mover'[m].at = "read_chain"
    BY <1>3 DEF Turns, Further, i
  <2> QED
    BY <1>0, <1>1, <1>3, <2>1 DEF MachineInv, MovesAreLegal, Turns
<1>11. OneMover'
  <2> SUFFICES ASSUME NEW n \in Movers, mover'[n].item \in Items \ overlapped'
               PROVE  /\ \A o \in Movers : mover'[o].item = mover'[n].item => o = n
                      /\ mover'[n].at = "update" => state'[mover'[n].item] = mover'[n].from
                      /\ mover'[n].at = "chain" => mover'[n].prev = Len(chain'[mover'[n].item])
    BY DEF OneMover
  <2>2. CASE n = m
    BY <1>0, <1>3, <1>5, <1>7, <2>2, MovingFacts DEF Turns
  <2>3. CASE n # m
    <3>1. mover'[n] = mover[n] /\ mover[n].item \in Items \ overlapped
      BY <1>0, <1>3, <2>3 DEF Turns
    <3>2. mover[n].item # i
      BY <1>5, <2>3, <3>1
    <3>3. mover'[m].item # mover[n].item
      BY <1>7, <3>1, <3>2, MovingFacts
    <3>4. /\ \A o \in Movers : mover[o].item = mover[n].item => o = n
          /\ mover[n].at = "update" => state[mover[n].item] = mover[n].from
          /\ mover[n].at = "chain" => mover[n].prev = Len(chain[mover[n].item])
      BY <3>1 DEF MachineInv, OneMover
    <3>5. \A o \in Movers : mover'[o].item = mover[n].item => o = n
      BY <1>3, <3>3, <3>4 DEF Turns
    <3> QED
      BY <1>0, <3>1, <3>4, <3>5
  <2> QED
    BY <2>2, <2>3
<1>12. LogFollowsState'
  <2> SUFFICES ASSUME NEW j \in Items, j \notin overlapped \cup halved, kind[j] # "autolearn"
               PROVE  \/ /\ \A n \in Movers : mover'[n].item # j \/ mover'[n].at # "log"
                         /\ IF state[j] = NoItem THEN log'[j] = <<>> ELSE Ends(j, state[j])'
                      \/ \E n \in Movers :
                            /\ mover'[n].item = j /\ mover'[n].at = "log" /\ state[j] = mover'[n].to
                            /\ IF mover'[n].from = NoItem THEN log'[j] = <<>> /\ mover'[n].to = First(kind[j])
                               ELSE Ends(j, mover[n].from)'
    BY <1>0 DEF LogFollowsState
  <2>1. CASE j = i
    <3>1. \A n \in Movers : mover'[n].item # i \/ mover'[n].at # "log"
      BY <1>3, <1>5, <1>7, <2>1 DEF Turns
    <3>2. log'[i] # <<>> /\ log'[i][Len(log'[i])][2] = state[i]
      <4>1. state[i] = e[2]
        BY <1>4, <1>6, <2>1
      <4>2. log'[i][Len(log'[i])] = e
        BY <1>8
      <4> QED
        BY <1>8, <4>1, <4>2
    <3>3. state[i] # NoItem
      <4>1. NoItem \notin States
        BY MachineAssumption
      <4> QED
        BY <1>2, <1>6, <2>1, <4>1
    <3> QED
      BY <1>0, <2>1, <3>1, <3>2, <3>3 DEF Ends
  <2>2. CASE j # i
    <3>1. \A n \in Movers : mover'[n].item = j \/ mover[n].item = j => mover'[n] = mover[n]
      BY <1>0, <1>1, <1>3, <1>7, <2>2, MovingFacts DEF Turns, i
    <3>3. state'[j] = state[j] /\ log'[j] = log[j]
      BY <1>0, <1>8, <2>2
    <3> QED
      BY <3>1, <3>3 DEF MachineInv, LogFollowsState, Ends
  <2> QED
    BY <2>1, <2>2
<1>13. LogIsLinked'
  <2> SUFFICES ASSUME NEW j \in Items, j \notin overlapped \cup halved, log'[j] # <<>>
               PROVE  /\ log'[j][1] = <<NoItem, First(kind[j])>>
                      /\ \A n \in 2 .. Len(log'[j]) : log'[j][n][1] = log'[j][n - 1][2]
    BY <1>0 DEF LogIsLinked
  <2>1. CASE j # i
    BY <1>8, <2>1 DEF MachineInv, LogIsLinked
  <2>2. CASE j = i /\ log[i] = <<>>
    <3>1. e = <<NoItem, First(kind[i])>> /\ Len(log[i]) = 0
      BY <1>6, <2>2 DEF Ends, e
    <3> QED
      BY <1>8, <2>2, <3>1
  <2>3. CASE j = i /\ log[i] # <<>>
    <3>1. log[i][Len(log[i])][2] = e[1] /\ Len(log[i]) >= 1
      BY <1>4, <1>6, <1>8, <2>3 DEF Ends
    <3>2. /\ log[i][1] = <<NoItem, First(kind[i])>>
          /\ \A n \in 2 .. Len(log[i]) : log[i][n][1] = log[i][n - 1][2]
      BY <1>1, <2>3 DEF MachineInv, LogIsLinked
    <3>3. \A n \in 2 .. Len(log'[i]) : n \in 2 .. Len(log[i]) \/ n = Len(log[i]) + 1
      BY <1>8
    <3>4. log'[i][1] = <<NoItem, First(kind[i])>>
      BY <1>8, <3>1, <3>2
    <3>5. \A n \in 2 .. Len(log[i]) : log'[i][n][1] = log'[i][n - 1][2]
      BY <1>8, <3>2
    <3>6. log'[i][Len(log[i]) + 1][1] = log'[i][(Len(log[i]) + 1) - 1][2]
      <4>1. (Len(log[i]) + 1) - 1 = Len(log[i]) /\ Len(log[i]) \in 1 .. Len(log[i])
        BY <1>8, <3>1
      <4> QED
        BY <1>8, <3>1, <4>1
    <3> QED
      BY <2>3, <3>3, <3>4, <3>5, <3>6
  <2> QED
    BY <2>1, <2>2, <2>3
<1>14. ChainIsUnbroken'
  BY <1>0 DEF MachineInv, ChainIsUnbroken
<1> QED
  BY <1>9, <1>10, <1>11, <1>12, <1>13, <1>14 DEF MachineInv

(* A step that leaves rows and log alone, and whose mover keeps its item or *)
(* goes idle.                                                               *)
LEMMA QuietStep ==
    ASSUME MachineInv, NEW m \in Movers, mover[m].at # "log", mover'[m].at \notin {"update", "log"},
           mover'[m].item \in {NoItem, mover[m].item}, NEW r, Turns(m, r),
           kind' = kind /\ state' = state /\ log' = log /\ overlapped' = overlapped,
           halved \subseteq halved'
    PROVE  /\ LogFollowsState' /\ LogIsLinked'
           /\ \A n \in Movers : mover'[n].item \in Items \ overlapped =>
                 \A o \in Movers : mover'[o].item = mover'[n].item => o = n
<1>1. \A n \in Movers : mover[n].at = "log" \/ mover'[n].at = "log" => mover'[n] = mover[n]
  BY DEF Turns
<1>2. LogFollowsState'
  BY <1>1 DEF MachineInv, LogFollowsState, Ends
<1>3. LogIsLinked'
  BY DEF MachineInv, LogIsLinked
<1>4. \A n \in Movers : mover'[n].item \in {NoItem, mover[n].item}
  BY DEF Turns
<1>5. ASSUME NEW n \in Movers, NEW o \in Movers, mover'[n].item \in Items \ overlapped,
             mover'[o].item = mover'[n].item
      PROVE  o = n
  <2>1. mover[n].item = mover'[n].item /\ mover[o].item = mover'[n].item
    BY <1>4, <1>5, MovingFacts
  <2> QED
    BY <1>5, <2>1 DEF MachineInv, OneMover
<1> QED
  BY <1>2, <1>3, <1>5

(* Reading the last audit event of an annotation.                           *)
LEMMA ReadChainStep ==
    ASSUME MachineInv, NEW m \in Movers, ReadChain(m)
    PROVE  MachineInv'
<1> DEFINE i == mover[m].item
<1>0. /\ kind' = kind /\ state' = state /\ log' = log /\ chain' = chain /\ halved' = halved
      /\ overlapped' = overlapped /\ moves' = moves /\ halts' = halts
      /\ mover[m].at = "read_chain" /\ mover \in [Movers -> Transition]
  BY DEF MachineInv, MachineTypeOK, ReadChain
<1>1. i \in Items /\ kind[i] = "annotation"
  BY <1>0, MovingFacts DEF MachineInv, MovesAreLegal
<1>2. Turns(m, Further(m, "chain", Len(chain[i])))
  BY MoverGoesOn
<1>3. mover'[m].at = "chain" /\ mover'[m].item = i /\ mover'[m].prev = Len(chain[i])
  BY <1>2 DEF Turns, Further
<1> HIDE DEF i
<1>4. /\ LogFollowsState' /\ LogIsLinked'
      /\ \A n \in Movers : mover'[n].item \in Items \ overlapped =>
            \A o \in Movers : mover'[o].item = mover'[n].item => o = n
  <2>1. mover'[m].item \in {NoItem, mover[m].item} /\ mover'[m].at \notin {"update", "log"}
    BY <1>3 DEF i
  <2> QED
    BY <1>0, <1>2, <2>1, QuietStep
<1>5. MachineTypeOK'
  <2>1. mover' \in [Movers -> Transition]
    <3>1. DOMAIN mover' = DOMAIN mover /\ mover' = [n \in DOMAIN mover |-> mover'[n]]
      BY DEF ReadChain
    <3> QED
      BY <1>0, <1>2, <3>1 DEF Turns
  <2> QED
    BY <1>0, <2>1 DEF MachineInv, MachineTypeOK
<1>6. MovesAreLegal'
  BY <1>0, <1>1, <1>2, <1>3 DEF MachineInv, MovesAreLegal, Turns
<1>7. OneMover'
  BY <1>0, <1>2, <1>3, <1>4 DEF MachineInv, OneMover, Turns
<1>8. ChainIsUnbroken'
  BY <1>0 DEF MachineInv, ChainIsUnbroken
<1> QED
  BY <1>4, <1>5, <1>6, <1>7, <1>8 DEF MachineInv

(* The INSERT of the audit event.                                           *)
LEMMA AppendChainStep ==
    ASSUME MachineInv, NEW m \in Movers, AppendChain(m)
    PROVE  MachineInv'
<1> DEFINE i == mover[m].item
           p == mover[m].prev
<1>0. /\ kind' = kind /\ state' = state /\ log' = log /\ halved' = halved
      /\ overlapped' = overlapped /\ moves' = moves /\ halts' = halts
      /\ mover[m].at = "chain" /\ mover \in [Movers -> Transition] /\ mover' = [mover EXCEPT ![m] = Idle]
      /\ chain \in [Items -> Seq(Nat)] /\ chain' = [chain EXCEPT ![i] = Append(chain[i], p)]
  BY DEF MachineInv, MachineTypeOK, AppendChain
<1>1. i \in Items /\ kind[i] = "annotation" /\ p \in Nat
  <2>1. mover[m] \in Transition
    BY <1>0
  <2> QED
    BY <1>0, <2>1, MovingFacts DEF MachineInv, MovesAreLegal, Transition
<1>2. Turns(m, Idle)
  BY MoverGoesOn
<1>3. mover'[m] = Idle
  BY <1>0
<1>4. i \notin overlapped => p = Len(chain[i]) /\ \A o \in Movers : mover[o].item = i => o = m
  BY <1>0, <1>1 DEF MachineInv, OneMover
<1>5. /\ LogFollowsState' /\ LogIsLinked'
      /\ \A n \in Movers : mover'[n].item \in Items \ overlapped =>
            \A o \in Movers : mover'[o].item = mover'[n].item => o = n
  <2>1. mover'[m].item \in {NoItem, mover[m].item} /\ mover'[m].at \notin {"update", "log"}
    BY <1>3, MovingFacts
  <2> QED
    BY <1>0, <1>2, <2>1, QuietStep
<1> HIDE DEF i, p
<1>6. /\ chain'[i] = Append(chain[i], p) /\ \A j \in Items \ {i} : chain'[j] = chain[j]
      /\ Append(chain[i], p) \in Seq(Nat) /\ Len(chain'[i]) = Len(chain[i]) + 1 /\ Len(chain[i]) \in Nat
      /\ \A n \in 1 .. Len(chain[i]) : chain'[i][n] = chain[i][n]
      /\ chain'[i][Len(chain[i]) + 1] = p
  <2>1. chain'[i] = Append(chain[i], p) /\ \A j \in Items \ {i} : chain'[j] = chain[j]
    BY <1>0, <1>1
  <2>2. chain[i] \in Seq(Nat)
    BY <1>0, <1>1
  <2> QED
    BY <1>1, <2>1, <2>2, AppendProperties, LenProperties
<1>7. MachineTypeOK'
  <2>1. mover' \in [Movers -> Transition]
    BY <1>0, MovingFacts
  <2>2. chain' \in [Items -> Seq(Nat)]
    BY <1>0, <1>6
  <2>3. \A j \in Items : kind[j] # "annotation" => chain'[j] = <<>>
    BY <1>1, <1>6 DEF MachineInv, MachineTypeOK
  <2> QED
    BY <1>0, <2>1, <2>2, <2>3 DEF MachineInv, MachineTypeOK
<1>8. MovesAreLegal'
  BY <1>0, <1>2 DEF MachineInv, MovesAreLegal, Turns
<1>9. OneMover'
  <2> SUFFICES ASSUME NEW n \in Movers, mover'[n].item \in Items \ overlapped
               PROVE  /\ mover'[n].at = "update" => state[mover'[n].item] = mover'[n].from
                      /\ mover'[n].at = "chain" => mover'[n].prev = Len(chain'[mover'[n].item])
    BY <1>0, <1>5 DEF OneMover
  <2>1. n # m /\ mover'[n] = mover[n]
    BY <1>2, MovingFacts DEF Turns
  <2>2. mover[n].item # i
    BY <1>4, <2>1
  <2> QED
    BY <1>6, <2>1, <2>2 DEF MachineInv, OneMover
<1>10. ChainIsUnbroken'
  <2> SUFFICES ASSUME NEW j \in Items, j \notin overlapped, NEW n \in 1 .. Len(chain'[j])
               PROVE  chain'[j][n] = n - 1
    BY <1>0 DEF ChainIsUnbroken
  <2>1. CASE j # i
    BY <1>6, <2>1 DEF MachineInv, ChainIsUnbroken
  <2>2. CASE j = i
    <3>1. n \in 1 .. Len(chain[i]) \/ n = Len(chain[i]) + 1
      BY <1>6, <2>2
    <3>2. \A k \in 1 .. Len(chain[i]) : chain[i][k] = k - 1
      BY <1>1, <2>2 DEF MachineInv, ChainIsUnbroken
    <3>3. CASE n \in 1 .. Len(chain[i])
      BY <1>6, <2>2, <3>2, <3>3
    <3>4. CASE n = Len(chain[i]) + 1
      <4>1. chain'[i][n] = p /\ p = Len(chain[i])
        BY <1>4, <1>6, <2>2, <3>4
      <4> QED
        BY <1>6, <2>2, <3>4, <4>1
    <3> QED
      BY <3>1, <3>3, <3>4
  <2> QED
    BY <2>1, <2>2
<1> QED
  BY <1>5, <1>7, <1>8, <1>9, <1>10 DEF MachineInv

(* A process stops between two statements.                                  *)
LEMMA HaltStep ==
    ASSUME MachineInv, NEW m \in Movers, Halt(m)
    PROVE  MachineInv'
<1>0. /\ kind' = kind /\ state' = state /\ log' = log /\ chain' = chain
      /\ halved' = halved \cup {mover[m].item}
      /\ overlapped' = overlapped /\ moves' = moves /\ halts' = halts + 1 /\ halts < MaxHalts
      /\ mover \in [Movers -> Transition] /\ mover' = [mover EXCEPT ![m] = Idle] /\ mover[m] # Idle
  BY DEF MachineInv, MachineTypeOK, Halt
<1>1. mover[m].item \in Items
  BY <1>0 DEF MachineInv, MovesAreLegal
<1>2. Turns(m, Idle)
  BY MoverGoesOn
<1>3. MachineTypeOK'
  <2>1. mover' \in [Movers -> Transition]
    BY <1>0, MovingFacts
  <2>2. halts' \in 0 .. MaxHalts
    BY <1>0, MachineAssumption DEF MachineInv, MachineTypeOK
  <2> QED
    BY <1>0, <1>1, <2>1, <2>2 DEF MachineInv, MachineTypeOK
<1>4. MovesAreLegal'
  BY <1>0, <1>2 DEF MachineInv, MovesAreLegal, Turns
<1>5. OneMover'
  <2> SUFFICES ASSUME NEW n \in Movers, mover'[n].item \in Items \ overlapped
               PROVE  /\ \A o \in Movers : mover'[o].item = mover'[n].item => o = n
                      /\ mover'[n].at = "update" => state[mover'[n].item] = mover'[n].from
                      /\ mover'[n].at = "chain" => mover'[n].prev = Len(chain[mover'[n].item])
    BY <1>0 DEF OneMover
  <2>1. mover'[n] = mover[n] /\ mover'[m].item \notin Items
    BY <1>2, MovingFacts DEF Turns
  <2>2. /\ \A o \in Movers : mover[o].item = mover[n].item => o = n
        /\ mover[n].at = "update" => state[mover[n].item] = mover[n].from
        /\ mover[n].at = "chain" => mover[n].prev = Len(chain[mover[n].item])
    BY <2>1 DEF MachineInv, OneMover
  <2> QED
    BY <1>2, <2>1, <2>2 DEF Turns
<1>6. LogFollowsState'
  <2> SUFFICES ASSUME NEW j \in Items, j \notin overlapped \cup halved, j # mover[m].item, kind[j] # "autolearn"
               PROVE  \/ /\ \A n \in Movers : mover'[n].item # j \/ mover'[n].at # "log"
                         /\ IF state[j] = NoItem THEN log[j] = <<>> ELSE Ends(j, state[j])'
                      \/ \E n \in Movers :
                            /\ mover'[n].item = j /\ mover'[n].at = "log" /\ state[j] = mover'[n].to
                            /\ IF mover'[n].from = NoItem THEN log[j] = <<>> /\ mover'[n].to = First(kind[j])
                               ELSE Ends(j, mover[n].from)'
    BY <1>0 DEF LogFollowsState
  <2>1. \A n \in Movers : mover'[n].item = j \/ mover[n].item = j => mover'[n] = mover[n]
    BY <1>2, MovingFacts DEF Turns
  <2> QED
    BY <1>0, <2>1 DEF MachineInv, LogFollowsState, Ends
<1>7. LogIsLinked' /\ ChainIsUnbroken'
  BY <1>0 DEF MachineInv, LogIsLinked, ChainIsUnbroken
<1> QED
  BY <1>3, <1>4, <1>5, <1>6, <1>7 DEF MachineInv

(* Every step of the machines keeps their invariant and their final states. *)
LEMMA MachineSteps ==
    ASSUME MachineInv, [MachineNext]_machineVars
    PROVE  /\ MachineInv'
           /\ \A i \in Items \ overlapped : state[i] \in Final(kind[i]) => state'[i] = state[i]
<1>1. CASE UNCHANGED machineVars
  <2>1. /\ kind' = kind /\ state' = state /\ log' = log /\ chain' = chain /\ mover' = mover
        /\ moves' = moves /\ halts' = halts /\ overlapped' = overlapped /\ halved' = halved
    BY <1>1 DEF machineVars
  <2>2. MachineTypeOK' /\ MovesAreLegal' /\ OneMover'
    BY <2>1 DEF MachineInv, MachineTypeOK, MovesAreLegal, OneMover
  <2>3. LogFollowsState' /\ LogIsLinked' /\ ChainIsUnbroken'
    BY <2>1 DEF MachineInv, LogFollowsState, Ends, LogIsLinked, ChainIsUnbroken
  <2> QED
    BY <2>1, <2>2, <2>3 DEF MachineInv
<1>2. ASSUME NEW m \in Movers, NEW i \in Items, InitState(m, i)
      PROVE  /\ MachineInv'
             /\ \A j \in Items \ overlapped : state[j] \in Final(kind[j]) => state'[j] = state[j]
  <2>1. NoItem \notin Final(kind[i]) /\ state[i] = NoItem /\ state' = [state EXCEPT ![i] = First(kind[i])]
        /\ state \in [Items -> States \cup {NoItem}]
    <3>1. kind[i] \in Kinds
      BY DEF MachineInv, MachineTypeOK
    <3> QED
      BY <1>2, <3>1, TableFacts DEF Final, InitState, MachineInv, MachineTypeOK
  <2> QED
    BY <1>2, <2>1, InitStep
<1>3. ASSUME NEW m \in Movers, NEW i \in Items, NEW to \in StatesOf(kind[i]), ReadState(m, i, to)
      PROVE  MachineInv' /\ state' = state
  BY <1>3, ReadStep DEF ReadState
<1>4. ASSUME NEW m \in Movers, AppendTransition(m) \/ ReadChain(m) \/ AppendChain(m) \/ Halt(m)
      PROVE  MachineInv' /\ state' = state
  BY <1>4, AppendStep, ReadChainStep, AppendChainStep, HaltStep
     DEF AppendTransition, ReadChain, AppendChain, Halt
<1>5. CASE MachineNext
  BY <1>2, <1>3, <1>4, <1>5, UpdateStep
     DEF MachineNext, InitRecordingState, InitAnnotationState, InitEmailState, CreateJob,
         TransitionRecording, TransitionAnnotation, TransitionEmail, AdvanceAutolearnState
<1> QED
  BY <1>1, <1>5

(* The invariant gives what the runs check of the machines.                 *)
LEMMA MachineHolds == MachineInv => MachineTypeOK /\ LogIsThePath /\ ChainIsUnbroken
<1> SUFFICES ASSUME MachineInv PROVE LogIsThePath
  BY DEF MachineInv
<1> SUFFICES ASSUME NEW i \in Items \ (overlapped \cup halved), log[i] # <<>>,
                    \A m \in Movers : mover[m].item # i \/ mover[m].at # "log"
             PROVE  state[i] = log[i][Len(log[i])][2]
  BY DEF MachineInv, LogIsThePath, LogIsLinked
<1>1. kind[i] # "autolearn"
  BY DEF MachineInv, MachineTypeOK
<1> QED
  BY <1>1 DEF MachineInv, LogFollowsState, Ends

--------------------------------------------------------------------------------
(* The mailbox and the ingestion routes.                                    *)

(* A batch has every older message of the mailbox it was taken from.        *)
BatchIsPrefix ==
    \A w \in Windows : \A u \in fetch[w].box, v \in fetch[w].landed : u <= v => u \in fetch[w].landed

MailTypeOK ==
    /\ nextUid \in 1 .. MaxUid + 1 /\ box \subseteq 1 .. nextUid - 1 /\ window \in Windows
    /\ fetch \in [Windows -> Fetch]
    /\ \A w \in Windows :
          /\ Cardinality(fetch[w].landed) <= Batch
          /\ fetch[w].status = "completed" => fetch[w].highest \in 0 .. MaxUid

(* A task that may still be tried has not used up its attempts.             *)
TriesAreLeft ==
    \A w \in Windows : fetch[w].status \in {"none", "pending", "landed"} => fetch[w].tries < Attempts

MailInv == MailTypeOK /\ BatchIsPrefix /\ TriesAreLeft /\ CheckpointSkipsNothing

(* A request that is about to store has audited, one about to enqueue has   *)
(* stored.                                                                  *)
UploadInv ==
    /\ upload \in [Uploads -> {"none", "audit", "store", "enqueue", "created", "error"}]
    /\ StoredIsAudited
    /\ \A q \in Uploads \ Direct :
          /\ upload[q] = "store" => q \in audited
          /\ upload[q] = "enqueue" => q \in stored

(* A nonempty set of naturals has a least element: the order is well-        *)
(* founded.                                                                  *)
LEMMA Least ==
    ASSUME NEW T \in SUBSET Nat, T # {}
    PROVE  \E x \in T : \A y \in T : x <= y
<1> DEFINE R == {ss \in Nat \X Nat : ss[1] < ss[2]}
<1>1. IsWellFoundedOn(R, Nat)
  <2>1. R = OpToRel(<, Nat)
    BY DEF OpToRel
  <2> QED
    BY <2>1, NatLessThanWellFounded
<1>2. \A x, y \in Nat : y < x => <<y, x>> \in R
  OBVIOUS
<1> HIDE DEF R
<1>3. PICK x \in T : \A y \in T : ~ (<<y, x>> \in R)
  BY <1>1, WFMin
<1>4. \A y \in T : x <= y
  <2>1. SUFFICES ASSUME NEW y \in T PROVE ~(y < x)
    OBVIOUS
  <2> QED
    BY <1>2, <1>3
<1> QED
  BY <1>4

(* A nonempty set of UIDs has a greatest one.                                *)
LEMMA Greatest ==
    ASSUME NEW n \in Nat, NEW S \in SUBSET (0 .. n), S # {}
    PROVE  Max(S) \in S /\ \A y \in S : y <= Max(S)
<1>1. {n - s : s \in S} \in SUBSET Nat /\ {n - s : s \in S} # {}
  <2>1. PICK s \in S : TRUE
    OBVIOUS
  <2>2. \A t \in S : n - t \in Nat
    OBVIOUS
  <2> QED
    BY <2>1, <2>2
<1>2. PICK x \in {n - s : s \in S} : \A y \in {n - s : s \in S} : x <= y
  BY <1>1, Least
<1>3. PICK m \in S : x = n - m
  BY <1>2
<1>4. \A y \in S : m >= y
  BY <1>2, <1>3
<1> QED
  BY <1>3, <1>4 DEF Max

(* The oldest messages of a mailbox: as many as a batch has, and none is    *)
(* skipped.                                                                 *)
LEMMA OldestFacts ==
    ASSUME NEW S \in SUBSET Uids
    PROVE  /\ Oldest(S) \subseteq S /\ Cardinality(Oldest(S)) <= Batch
           /\ \A u \in S, v \in Oldest(S) : u <= v => u \in Oldest(S)
<1>0. MaxUid \in Nat /\ Batch \in Nat \ {0} /\ S \subseteq Nat
  BY IntakeAssumption DEF Uids
<1>1. IsFiniteSet(S)
  <2>1. IsFiniteSet(Uids)
    BY <1>0, FS_Interval DEF Uids
  <2> QED
    BY <2>1, FS_Subset
<1>2. Oldest(S) \subseteq S
  BY DEF Oldest
<1>3. ASSUME NEW u \in S, NEW v \in Oldest(S), u <= v PROVE u \in Oldest(S)
  <2> DEFINE A == {x \in S : x <= u}
             B == {x \in S : x <= v}
  <2>1. A \subseteq B /\ B \subseteq S
    <3>1. u \in Nat /\ v \in Nat /\ \A x \in S : x \in Nat
      BY <1>0, <1>2
    <3>2. \A x \in S : x <= u => x <= v
      BY <1>3, <3>1
    <3> QED
      BY <3>2
  <2>2. IsFiniteSet(B)
    BY <1>1, <2>1, FS_Subset
  <2>3. IsFiniteSet(A) /\ Cardinality(A) <= Cardinality(B)
    BY <2>1, <2>2, FS_Subset
  <2>4. Cardinality(A) \in Nat /\ Cardinality(B) \in Nat
    BY <2>2, <2>3, FS_CardinalityType
  <2>5. Cardinality(B) <= Batch
    BY DEF Oldest
  <2>6. Cardinality(A) <= Batch
    <3> HIDE DEF A, B
    <3> QED
      BY <1>0, <2>3, <2>4, <2>5
  <2> QED
    BY <2>6 DEF Oldest
<1>4. Cardinality(Oldest(S)) <= Batch
  <2>1. CASE Oldest(S) = {}
    BY <1>0, <2>1, FS_EmptySet
  <2>2. CASE Oldest(S) # {}
    <3>1. Oldest(S) \in SUBSET (0 .. MaxUid)
      <4>1. \A x \in Uids : x \in 0 .. MaxUid
        BY <1>0 DEF Uids
      <4> QED
        BY <1>2, <4>1
    <3>2. PICK v \in Oldest(S) : \A u \in Oldest(S) : u <= v
      BY <1>0, <2>2, <3>1, Greatest
    <3> DEFINE B == {x \in S : x <= v}
    <3>3. Oldest(S) \subseteq B /\ Cardinality(B) <= Batch /\ B \subseteq S
      BY <1>2, <3>2 DEF Oldest
    <3>4. IsFiniteSet(B)
      BY <1>1, <3>3, FS_Subset
    <3>5. IsFiniteSet(Oldest(S)) /\ Cardinality(Oldest(S)) <= Cardinality(B)
      BY <3>3, <3>4, FS_Subset
    <3>6. Cardinality(Oldest(S)) \in Nat /\ Cardinality(B) \in Nat
      BY <3>4, <3>5, FS_CardinalityType
    <3> HIDE DEF B
    <3> QED
      BY <1>0, <3>3, <3>5, <3>6
  <2> QED
    BY <2>1, <2>2
<1> QED
  BY <1>2, <1>3, <1>4

(* The invariant of the mailbox and its tasks is inductive.                 *)
LEMMA MailSteps ==
    /\ IntakeInit => MailInv
    /\ MailInv /\ [MailNext]_mailVars => MailInv'
<1>1. ASSUME IntakeInit PROVE MailInv
  <2>1. NoTask \in Fetch /\ NoTask.landed = {} /\ NoTask.box = {} /\ NoTask.status = "none"
    BY IntakeAssumption DEF NoTask, Fetch, Kept
  <2>2. Cardinality({}) = 0
    BY FS_EmptySet
  <2>3. 1 \in 1 .. MaxUid + 1 /\ 1 \in Windows /\ 0 <= Batch
    BY IntakeAssumption DEF Windows
  <2>4. MailTypeOK
    BY <1>1, <2>1, <2>2, <2>3 DEF IntakeInit, MailTypeOK
  <2>5. TriesAreLeft
    BY <1>1, IntakeAssumption DEF IntakeInit, TriesAreLeft, NoTask
  <2> QED
    BY <1>1, <2>1, <2>4, <2>5 DEF IntakeInit, MailInv, BatchIsPrefix, CheckpointSkipsNothing
<1>2. ASSUME MailInv, UNCHANGED mailVars PROVE MailInv'
  BY <1>2 DEF MailInv, MailTypeOK, BatchIsPrefix, TriesAreLeft, CheckpointSkipsNothing, mailVars
<1>3. ASSUME MailInv, MailNext PROVE MailInv'
  <2>0. /\ MailTypeOK /\ BatchIsPrefix /\ TriesAreLeft /\ CheckpointSkipsNothing /\ fetch \in [Windows -> Fetch]
        /\ MaxUid \in Nat /\ Batch \in Nat \ {0} /\ MaxWindow \in Nat \ {0} /\ Attempts \in Nat \ {0}
    BY <1>3, IntakeAssumption DEF MailInv, MailTypeOK
  <2>1. ASSUME fetch' = fetch, Deliver \/ NextWindow \/ \E u \in Uids : Expunge(u)
        PROVE  MailInv'
    <3>0. nextUid \in 1 .. MaxUid + 1 /\ (\A u \in box : u \in 1 .. nextUid - 1) /\ window \in Windows
      BY <2>0 DEF MailTypeOK
    <3>1. nextUid' \in 1 .. MaxUid + 1 /\ (\A u \in box' : u \in 1 .. nextUid' - 1) /\ window' \in Windows
      <4>1. CASE Deliver
        <5>1. nextUid <= MaxUid /\ box' = box \cup {nextUid} /\ nextUid' = nextUid + 1 /\ window' = window
          BY <4>1 DEF Deliver
        <5> QED
          BY <2>0, <3>0, <5>1
      <4>2. CASE NextWindow
        BY <2>0, <3>0, <4>2 DEF NextWindow, Windows
      <4>3. CASE \E u \in Uids : Expunge(u)
        BY <3>0, <4>3 DEF Expunge
      <4> QED
        BY <2>1, <4>1, <4>2, <4>3
    <3> QED
      BY <2>0, <2>1, <3>1 DEF MailInv, MailTypeOK, BatchIsPrefix, TriesAreLeft, CheckpointSkipsNothing
  <2>2. ASSUME NEW w \in Windows, UNCHANGED <<nextUid, box, window>>, NEW r \in Fetch,
               fetch' = [fetch EXCEPT ![w] = r],
               Cardinality(r.landed) <= Batch,
               r.status = "completed" => r.highest \in 0 .. MaxUid,
               r.status \in {"none", "pending", "landed"} => r.tries < Attempts,
               \A u \in r.box, v \in r.landed : u <= v => u \in r.landed,
               r.status = "completed" =>
                  {u \in r.box : u > r.since /\ u <= r.highest} \subseteq r.fetched \cup r.failed
        PROVE  MailInv'
    <3>1. fetch'[w] = r /\ \A x \in Windows \ {w} : fetch'[x] = fetch[x]
      BY <2>0, <2>2
    <3>2. fetch' \in [Windows -> Fetch]
      BY <2>0, <2>2
    <3>3. MailTypeOK'
      BY <2>0, <2>2, <3>1, <3>2 DEF MailTypeOK
    <3> QED
      BY <2>0, <2>2, <3>1, <3>3 DEF MailInv, BatchIsPrefix, TriesAreLeft, CheckpointSkipsNothing
  <2>3. ASSUME NEW w \in Windows
        PROVE  /\ fetch[w] \in Fetch /\ Cardinality(fetch[w].landed) <= Batch
               /\ fetch[w].since = 0 /\ (fetch[w].status \in {"none", "pending", "landed"} => fetch[w].tries < Attempts)
               /\ \A u \in fetch[w].box, v \in fetch[w].landed : u <= v => u \in fetch[w].landed
    BY <2>0 DEF MailTypeOK, BatchIsPrefix, TriesAreLeft, Fetch
  <2>4. ASSUME Dispatch PROVE MailInv'
    <3>1. window \in Windows
      BY <2>0 DEF MailTypeOK
    <3> DEFINE r == [fetch[window] EXCEPT !.status = "pending"]
    <3>2. /\ r \in Fetch /\ r.status = "pending" /\ r.landed = fetch[window].landed
          /\ r.box = fetch[window].box /\ r.tries < Attempts
      BY <2>3, <2>4, <3>1 DEF Fetch, Kept, Dispatch
    <3>3. fetch' = [fetch EXCEPT ![window] = r]
      BY <2>4 DEF Dispatch
    <3>4. UNCHANGED <<nextUid, box, window>>
      BY <2>4 DEF Dispatch
    <3> HIDE DEF r
    <3> QED
      BY <2>2, <2>3, <3>1, <3>2, <3>3, <3>4
  <2>5. ASSUME NEW w \in Windows, Land(w) PROVE MailInv'
    <3> DEFINE S == Newer(box, fetch[w].since)
               r == [fetch[w] EXCEPT !.status = "landed", !.box = box, !.landed = Oldest(S)]
    <3>1. box \in SUBSET Uids /\ S \in SUBSET Uids /\ S = box
      <4>1. \A u \in box : u \in Nat /\ u > 0 /\ u \in Uids
        BY <2>0 DEF MailTypeOK, Uids
      <4> QED
        BY <2>3, <4>1 DEF Newer
    <3>2. /\ Oldest(S) \subseteq S /\ Cardinality(Oldest(S)) <= Batch
          /\ \A u \in S, v \in Oldest(S) : u <= v => u \in Oldest(S)
      BY <3>1, OldestFacts
    <3>3. /\ fetch' = [fetch EXCEPT ![w] = r] /\ UNCHANGED <<nextUid, box, window>>
          /\ fetch[w].status = "pending"
      BY <2>5 DEF Land
    <3>4. /\ r.status = "landed" /\ r.box = box /\ r.landed = Oldest(S) /\ r \in Fetch
          /\ r.tries = fetch[w].tries
      <4> HIDE DEF S
      <4> QED
        BY <2>3, <3>1, <3>2 DEF Fetch, Kept
    <3> HIDE DEF r, S
    <3> QED
      BY <2>2, <2>3, <3>1, <3>2, <3>3, <3>4
  <2>6. ASSUME NEW w \in Windows, LandFails(w) PROVE MailInv'
    <3> DEFINE r == [fetch[w] EXCEPT !.status = "failed"]
    <3>1. fetch' = [fetch EXCEPT ![w] = r] /\ UNCHANGED <<nextUid, box, window>>
      BY <2>6 DEF LandFails
    <3>2. r \in Fetch /\ r.status = "failed" /\ r.landed = fetch[w].landed /\ r.box = fetch[w].box
      BY <2>3 DEF Fetch, Kept
    <3> HIDE DEF r
    <3> QED
      BY <2>2, <2>3, <3>1, <3>2
  <2>7. ASSUME NEW w \in Windows, LandRefused(w) PROVE MailInv'
    <3> DEFINE r == [fetch[w] EXCEPT !.status = "completed", !.highest = 0]
    <3>1. fetch' = [fetch EXCEPT ![w] = r] /\ UNCHANGED <<nextUid, box, window>>
      BY <2>3, <2>7 DEF LandRefused
    <3>2. /\ r \in Fetch /\ r.status = "completed" /\ r.landed = fetch[w].landed /\ r.box = fetch[w].box
          /\ r.highest = 0 /\ r.since = 0
      <4>1. 0 \in 0 .. MaxUid
        BY <2>0
      <4> QED
        BY <2>3, <4>1 DEF Fetch, Kept
    <3>3. \A u \in r.box : u \in Nat
      BY <2>3, <3>2 DEF Fetch, Uids
    <3> HIDE DEF r
    <3>4. {u \in r.box : u > r.since /\ u <= r.highest} = {}
      BY <3>2, <3>3
    <3>5. r.highest \in 0 .. MaxUid
      BY <2>0, <3>2
    <3> QED
      BY <2>2, <2>3, <3>1, <3>2, <3>4, <3>5
  <2>8. ASSUME NEW w \in Windows, Classify(w) PROVE MailInv'
    <3> DEFINE l == fetch[w].landed
               h == IF l = {} THEN 0 ELSE Max(l)
               r == [fetch[w] EXCEPT !.status = "completed", !.fetched = l \ Broken, !.failed = l \cap Broken,
                                     !.highest = h]
    <3>1. fetch' = [fetch EXCEPT ![w] = r] /\ UNCHANGED <<nextUid, box, window>>
      BY <2>8 DEF Classify
    <3>2. l \in SUBSET (0 .. MaxUid) /\ l \in SUBSET Uids
      BY <2>0, <2>3 DEF Fetch, Uids
    <3>3. h \in 0 .. MaxUid /\ (l # {} => h \in l)
      <4>1. CASE l = {}
        BY <2>0, <4>1
      <4>2. CASE l # {}
        <5> HIDE DEF l
        <5>1. Max(l) \in l
          BY <2>0, <3>2, <4>2, Greatest
        <5> QED
          BY <3>2, <4>2, <5>1
      <4> QED
        BY <4>1, <4>2
    <3>4. /\ r \in Fetch /\ r.status = "completed" /\ r.landed = l /\ r.box = fetch[w].box
          /\ r.highest = h /\ r.since = 0 /\ r.fetched = l \ Broken /\ r.failed = l \cap Broken
      <4> HIDE DEF h
      <4> QED
        BY <2>0, <2>3, <3>2, <3>3 DEF Fetch, Kept
    <3>5. (\A u \in fetch[w].box : u \in Nat) /\ (l = {} => h = 0)
      BY <2>3 DEF Fetch, Uids
    <3> HIDE DEF r, h, l
    <3>6. {u \in r.box : u > r.since /\ u <= r.highest} \subseteq l
      <4>1. CASE l = {}
        BY <3>4, <3>5, <4>1
      <4>2. CASE l # {}
        BY <2>3, <3>3, <3>4, <4>2 DEF l
      <4> QED
        BY <4>1, <4>2
    <3>7. l \subseteq r.fetched \cup r.failed
      BY <3>4
    <3> QED
      BY <2>2, <2>3, <3>1, <3>3, <3>4, <3>6, <3>7 DEF l
  <2>9. ASSUME NEW w \in Windows, ClaimLapses(w) PROVE MailInv'
    <3> DEFINE t == fetch[w].tries + 1
               s == IF t = Attempts THEN "dead" ELSE "pending"
               r == [fetch[w] EXCEPT !.tries = t, !.status = s]
    <3>1. fetch[w].status \in {"pending", "landed"} /\ fetch' = [fetch EXCEPT ![w] = r] /\ UNCHANGED <<nextUid, box, window>>
      BY <2>9 DEF ClaimLapses
    <3>2. t \in 0 .. Attempts /\ (t # Attempts => t < Attempts)
      <4>1. fetch[w].tries \in 0 .. Attempts /\ fetch[w].tries < Attempts
        BY <2>3, <3>1 DEF Fetch
      <4> QED
        BY <2>0, <4>1
    <3>3. /\ r \in Fetch /\ r.status \in {"dead", "pending"} /\ r.landed = fetch[w].landed
          /\ r.box = fetch[w].box /\ (r.status = "pending" => r.tries < Attempts)
      BY <2>3, <3>1, <3>2 DEF Fetch, Kept
    <3> HIDE DEF r
    <3> QED
      BY <2>2, <2>3, <3>1, <3>3
  <2> QED
    BY <1>3, <2>1, <2>4, <2>5, <2>6, <2>7, <2>8, <2>9 DEF MailNext, Deliver, NextWindow, Expunge, Uids
<1> QED
  BY <1>1, <1>2, <1>3

(* The invariant of the ingestion routes is inductive.                      *)
LEMMA UploadSteps ==
    /\ IntakeInit => UploadInv
    /\ UploadInv /\ [UploadNext]_uploadVars => UploadInv'
<1>1. ASSUME IntakeInit PROVE UploadInv
  BY <1>1 DEF IntakeInit, UploadInv, StoredIsAudited
<1>2. ASSUME UploadInv, UNCHANGED uploadVars PROVE UploadInv'
  BY <1>2 DEF UploadInv, StoredIsAudited, uploadVars
<1>3. ASSUME UploadInv, NEW q \in Uploads,
             Receive(q) \/ Audit(q) \/ Store(q) \/ EnqueueLearning(q) \/ SubmitTranscript(q) \/ UploadFails(q)
      PROVE  UploadInv'
  <2>1. CASE Receive(q)
    BY <1>3, <2>1 DEF UploadInv, StoredIsAudited, Receive, Step
  <2>2. CASE Audit(q)
    BY <1>3, <2>2 DEF UploadInv, StoredIsAudited, Audit, Step
  <2>3. CASE Store(q)
    BY <1>3, <2>3 DEF UploadInv, StoredIsAudited, Store, Step
  <2>4. CASE EnqueueLearning(q)
    BY <1>3, <2>4 DEF UploadInv, StoredIsAudited, EnqueueLearning, Step
  <2>5. CASE SubmitTranscript(q)
    BY <1>3, <2>5 DEF UploadInv, StoredIsAudited, SubmitTranscript, Step
  <2>6. CASE UploadFails(q)
    BY <1>3, <2>6 DEF UploadInv, StoredIsAudited, UploadFails, Step
  <2> QED
    BY <1>3, <2>1, <2>2, <2>3, <2>4, <2>5, <2>6
<1> QED
  BY <1>1, <1>2, <1>3 DEF UploadNext

--------------------------------------------------------------------------------
(* The autolearn run.                                                       *)

RunStages ==
    /\ groundTruth \in {"none", "ok", "failed"} /\ wiki \in {"none", "ok", "failed"}
    /\ child \in {"none", "running", "wrote", "exited", "crashed"} /\ signal \in {"none", "term", "kill"}
    /\ run \in {"writing", "staged", "spawned", "returned"} => groundTruth = "ok" /\ wiki = "ok"
    /\ run \in {"fetching", "writing", "staged", "spawned"} => "dir" \in files
    /\ run \in {"idle", "fetching", "writing", "staged"} =>
          child = "none" /\ answer = Never /\ files \cap {"input", "output"} = {}
    /\ files \cap {"truth", "wiki", "input"} # {} => groundTruth = "ok" /\ wiki = "ok"

ChildStages ==
    /\ signal # "none" => answer = "timeout"
    /\ answer = "exit0" => child = "exited"
    /\ answer = "exit1" => child = "crashed"
    /\ run = "returned" => answer = "exit0"
    /\ run \in {"returned", "threw"} /\ child # "none" => answer # Never
    /\ child \in {"none", "running"} => "output" \notin files

RunHalf ==
    /\ run \in {"idle", "fetching", "writing", "staged", "spawned", "returned", "threw"}
    /\ files \subseteq {"dir", "truth", "wiki", "input", "output"}
    /\ files \cap {"truth", "wiki"} # {} => "dir" \in files
    /\ answer \in {Never, "exit0", "exit1", "timeout"}

RunInv == RunHalf /\ RunStages /\ ChildStages /\ CliFilesAreRemoved

(* A check that found too few dismissals finds no more of those later.      *)
Counted == {d \in Dismissals \ late : dismissed[d] # Never /\ today - dismissed[d] <= Window}
EscalationInv ==
    /\ today \in 0 .. MaxToday /\ dismissed \in [Dismissals -> 0 .. MaxToday \cup {Never}]
    /\ seen \in {Never, TRUE, FALSE} /\ draft \in {Never, TRUE, FALSE}
    /\ seen = FALSE => Cardinality(Counted) < Threshold

(* The invariant of the run is inductive.                                   *)
LEMMA RunSteps ==
    /\ RunInit => RunInv
    /\ RunInv /\ [RunNext]_runVars => RunInv'
<1> USE DEF RunInv, RunHalf, RunStages, ChildStages, CliFilesAreRemoved
<1>1. ASSUME RunInit PROVE RunInv
  BY <1>1, RunAssumption DEF RunInit
<1>2. ASSUME RunInv, UNCHANGED runVars PROVE RunInv'
  BY <1>2 DEF runVars
<1>3. ASSUME RunInv, RunNext PROVE RunInv'
  <2>1. CASE CreateStagingDir
    BY <1>3, <2>1, RunAssumption DEF CreateStagingDir
  <2>2. CASE WriteStagingFile
    BY <1>3, <2>2, RunAssumption DEF WriteStagingFile
  <2>3. CASE WriteFails
    BY <1>3, <2>3, RunAssumption DEF WriteFails
  <2>4. CASE CleanupStagingDir
    BY <1>3, <2>4, RunAssumption DEF CleanupStagingDir
  <2>5. CASE InvokeCli
    BY <1>3, <2>5, RunAssumption DEF InvokeCli
  <2>6. CASE ChildWrites
    BY <1>3, <2>6, RunAssumption DEF ChildWrites
  <2>7. CASE TimeoutFires
    BY <1>3, <2>7, RunAssumption DEF TimeoutFires
  <2>8. CASE GraceEnds
    BY <1>3, <2>8, RunAssumption DEF GraceEnds
  <2>9. CASE Settle
    BY <1>3, <2>9, RunAssumption DEF Settle
  <2>10. ASSUME NEW r \in {"ok", "failed"}, FetchGroundTruth(r) PROVE RunInv'
    BY <1>3, <2>10, RunAssumption DEF FetchGroundTruth
  <2>11. ASSUME NEW r \in {"ok", "failed"}, FetchWikiMarkdown(r) PROVE RunInv'
    BY <1>3, <2>11, RunAssumption DEF FetchWikiMarkdown
  <2>12. ASSUME NEW ok \in BOOLEAN, ChildEnds(ok) PROVE RunInv'
    BY <1>3, <2>12, RunAssumption DEF ChildEnds
  <2> QED
    BY <1>3, <2>1, <2>2, <2>3, <2>4, <2>5, <2>6, <2>7, <2>8, <2>9, <2>10, <2>11, <2>12 DEF RunNext
<1> QED
  BY <1>1, <1>2, <1>3

(* What was counted only becomes less.                                      *)
LEMMA CountFalls ==
    ASSUME NEW A \in SUBSET Dismissals, NEW B \in SUBSET A
    PROVE  /\ Cardinality(B) \in Nat /\ Cardinality(A) \in Nat /\ Cardinality(B) <= Cardinality(A)
<1>1. IsFiniteSet(A)
  BY RunAssumption, FS_Subset
<1>2. IsFiniteSet(B) /\ Cardinality(B) <= Cardinality(A)
  BY <1>1, FS_Subset
<1> QED
  BY <1>1, <1>2, FS_CardinalityType

(* The invariant of the escalation is inductive, and a draft that needs no  *)
(* approval is only created below the threshold.                            *)
LEMMA EscalationSteps ==
    /\ RunInit => EscalationInv
    /\ EscalationInv /\ [EscalationNext]_dismissVars =>
          /\ EscalationInv'
          /\ draft' = FALSE => draft = FALSE \/ Cardinality(Counted) < Threshold
<1>0. /\ Never \notin Nat /\ Never # TRUE /\ Never # FALSE /\ MaxToday \in Nat /\ Window \in Nat
      /\ Threshold \in Nat \ {0}
  BY RunAssumption
<1>1. ASSUME RunInit PROVE EscalationInv
  <2>1. today \in 0 .. MaxToday /\ dismissed \in [Dismissals -> 0 .. MaxToday \cup {Never}]
    BY <1>0, <1>1 DEF RunInit
  <2>2. seen = Never /\ draft = Never
    BY <1>1 DEF RunInit
  <2> QED
    BY <1>0, <2>1, <2>2 DEF EscalationInv
<1> SUFFICES ASSUME EscalationInv, [EscalationNext]_dismissVars
             PROVE  /\ EscalationInv'
                    /\ draft' = FALSE => draft = FALSE \/ Cardinality(Counted) < Threshold
  BY <1>1
<1>2. /\ today \in 0 .. MaxToday /\ dismissed \in [Dismissals -> 0 .. MaxToday \cup {Never}]
      /\ seen \in {Never, TRUE, FALSE} /\ draft \in {Never, TRUE, FALSE}
      /\ seen = FALSE => Cardinality(Counted) < Threshold
  BY DEF EscalationInv
<1>3. ASSUME today' \in 0 .. MaxToday, dismissed' \in [Dismissals -> 0 .. MaxToday \cup {Never}],
             seen' = seen, draft' = draft, seen = FALSE => Counted' \in SUBSET Counted
      PROVE  /\ EscalationInv'
             /\ draft' = FALSE => draft = FALSE \/ Cardinality(Counted) < Threshold
  <2>1. seen = FALSE => Cardinality(Counted') < Threshold
    <3> SUFFICES ASSUME seen = FALSE PROVE Cardinality(Counted') < Threshold
      OBVIOUS
    <3>1. Counted \in SUBSET Dismissals
      BY DEF Counted
    <3>2. /\ Cardinality(Counted') \in Nat /\ Cardinality(Counted) \in Nat
          /\ Cardinality(Counted') <= Cardinality(Counted)
      BY <1>3, <3>1, CountFalls
    <3> QED
      BY <1>0, <1>2, <3>2
  <2>2. seen' \in {Never, TRUE, FALSE} /\ draft' \in {Never, TRUE, FALSE}
    BY <1>2, <1>3, Zenon
  <2>3. seen' = FALSE => Cardinality(Counted') < Threshold
    BY <1>3, <2>1, Zenon
  <2>4. draft' = FALSE => draft = FALSE
    BY <1>3, Zenon
  <2> QED
    BY <1>3, <2>2, <2>3, <2>4, Zenon DEF EscalationInv
<1>4. CASE UNCHANGED dismissVars
  <2>1. today' = today /\ dismissed' = dismissed /\ seen' = seen /\ draft' = draft /\ late' = late
    BY <1>4, Zenon DEF dismissVars
  <2>2. Counted' = Counted
    BY <2>1 DEF Counted
  <2> QED
    BY <1>2, <1>3, <2>1, <2>2, Zenon
<1>5. CASE PassDay
  <2>1. today' = today + 1 /\ today < MaxToday /\ dismissed' = dismissed /\ late' = late
    BY <1>5 DEF PassDay
  <2>2. seen' = seen /\ draft' = draft
    BY <1>5, Zenon DEF PassDay
  <2>3. Counted' \in SUBSET Counted
    <3>1. \A d \in Dismissals : dismissed[d] # Never => dismissed[d] \in Nat
      BY <1>2
    <3>2. \A d \in Nat : today' - d <= Window => today - d <= Window
      BY <1>0, <1>2, <2>1
    <3> QED
      BY <2>1, <3>1, <3>2 DEF Counted
  <2>4. today' \in 0 .. MaxToday /\ dismissed' \in [Dismissals -> 0 .. MaxToday \cup {Never}]
    BY <1>0, <1>2, <2>1
  <2> QED
    BY <1>3, <2>2, <2>3, <2>4, Zenon
<1>6. ASSUME NEW d \in Dismissals, RecordDismissal(d)
      PROVE  /\ EscalationInv'
             /\ draft' = FALSE => draft = FALSE \/ Cardinality(Counted) < Threshold
  <2>1. dismissed' = [dismissed EXCEPT ![d] = today] /\ today' = today
    BY <1>6 DEF RecordDismissal
  <2>2. seen' = seen /\ draft' = draft
    BY <1>6, Zenon DEF RecordDismissal
  <2>3. seen = FALSE => late' = late \cup {d}
    BY <1>0, <1>6, Zenon DEF RecordDismissal
  <2>4. seen = FALSE => Counted' \in SUBSET Counted
    BY <1>2, <2>1, <2>3 DEF Counted
  <2>5. today' \in 0 .. MaxToday /\ dismissed' \in [Dismissals -> 0 .. MaxToday \cup {Never}]
    BY <1>0, <1>2, <2>1
  <2> QED
    BY <1>3, <2>2, <2>4, <2>5, Zenon
<1>7. CASE RequiresEscalation
  <2>1. today' = today /\ dismissed' = dismissed /\ late' = late
    BY <1>7 DEF RequiresEscalation
  <2>2. draft' = draft /\ seen' = (DismissalsInWindow >= Threshold)
    BY <1>7, Zenon DEF RequiresEscalation
  <2>3. Counted' = Counted
    BY <2>1 DEF Counted
  <2> DEFINE A == {d \in Dismissals : dismissed[d] # Never /\ dismissed[d] + Window >= today}
  <2>4. Counted \in SUBSET A /\ A \in SUBSET Dismissals
    <3>1. \A d \in Dismissals : dismissed[d] # Never => dismissed[d] \in Nat
      BY <1>2
    <3>2. \A d \in Nat : today - d <= Window => d + Window >= today
      BY <1>0, <1>2
    <3> QED
      BY <3>1, <3>2 DEF Counted
  <2>5. Cardinality(A) \in Nat /\ Cardinality(Counted) \in Nat /\ Cardinality(Counted) <= Cardinality(A)
    <3> HIDE DEF A
    <3> QED
      BY <2>4, CountFalls
  <2>6. DismissalsInWindow = Cardinality(A)
    BY DEF DismissalsInWindow
  <2> HIDE DEF A
  <2>7. ~(DismissalsInWindow >= Threshold) => Cardinality(Counted') < Threshold
    BY <1>0, <2>3, <2>5, <2>6
  <2>8. seen' \in {Never, TRUE, FALSE} /\ draft' \in {Never, TRUE, FALSE}
    <3>1. (DismissalsInWindow >= Threshold) \in BOOLEAN
      OBVIOUS
    <3>2. \A x \in BOOLEAN : x \in {Never, TRUE, FALSE}
      BY Zenon
    <3>3. seen' \in {Never, TRUE, FALSE}
      BY <2>2, <3>1, <3>2, Zenon
    <3>4. draft' \in {Never, TRUE, FALSE}
      BY <1>2, <2>2, Zenon
    <3> QED
      BY <3>3, <3>4, Zenon
  <2>9. seen' = FALSE => Cardinality(Counted') < Threshold
    BY <2>2, <2>7, Zenon
  <2>10. draft' = FALSE => draft = FALSE
    BY <2>2, Zenon
  <2>11. today' \in 0 .. MaxToday /\ dismissed' \in [Dismissals -> 0 .. MaxToday \cup {Never}]
    BY <1>2, <2>1
  <2> QED
    BY <2>8, <2>9, <2>10, <2>11, Zenon DEF EscalationInv
<1>8. CASE CreateAutolearnJob
  <2>1. today' = today /\ dismissed' = dismissed /\ late' = late
    BY <1>8 DEF CreateAutolearnJob
  <2>2. seen' = seen /\ draft' = seen
    BY <1>8, Zenon DEF CreateAutolearnJob
  <2>3. Counted' = Counted
    BY <2>1 DEF Counted
  <2>4. today' \in 0 .. MaxToday /\ dismissed' \in [Dismissals -> 0 .. MaxToday \cup {Never}]
    BY <1>2, <2>1
  <2>5. seen' = FALSE => Cardinality(Counted') < Threshold
    BY <1>2, <2>2, <2>3, Zenon
  <2> QED
    BY <1>2, <2>2, <2>4, <2>5, Zenon DEF EscalationInv
<1> QED
  BY <1>4, <1>5, <1>6, <1>7, <1>8, Zenon DEF EscalationNext

--------------------------------------------------------------------------------
(* The recorder.                                                            *)

(* A stream nobody has lost is the current one, its recorder runs or has a  *)
(* stop event waiting, and none runs once the recording is over; only the   *)
(* stream of a start that failed may lie open beside.                       *)
StreamsAreHeld ==
    /\ open \ orphans \subseteq {cur} /\ (~mounted => open \subseteq orphans)
    /\ cur # 0 => rec = cur \/ cur \in broken
    /\ cur \in open => cur \in active \cup queued \cup broken
    /\ phase \notin Recording => cur \notin active \/ cur \in broken
    /\ phase = "idle" => (cur = 0 \/ cur \in broken) /\ timer = FALSE /\ snapshot = NoBlob

(* A recording that was begun once collects the audio of its recorder.      *)
AudioIsCollected ==
    ~crossed =>
        /\ asking = 0 \/ (asking = 1 /\ phase = "idle" /\ chunks = {} /\ blob = NoBlob)
        /\ chunks \subseteq {rec} /\ (blob = NoBlob \/ blob = {rec})

(* A snapshot that would be restored has what was heard.                    *)
SnapshotIsWhole ==
    /\ phase # "idle" => asking <= 1
    /\ snapshot # NoBlob /\ ~hidden /\ phase \in Recording => asking = 0
    /\ snapshot # NoBlob =>
          \/ heard \subseteq ToSet(snapshot)
          \/ asking = 0 /\ (phase \in Recording => ~hidden)

RecorderInv ==
    /\ RecorderTypeOK /\ granted + asking <= MaxStreams
    /\ StreamsAreHeld /\ AudioIsCollected /\ SnapshotIsWhole /\ VisibleWordsStay

EdgeInv == EdgeTypeOK /\ WhisperLoadsOnce /\ AutomaticNeverThrows

(* What is appended to the transcript is in it, and nothing is taken out.   *)
LEMMA AppendedWords ==
    ASSUME NEW f \in Seq(1 .. MaxPhrases), NEW n \in 0 .. MaxPhrases, n < MaxPhrases
    PROVE  /\ f \o [k \in 1 .. n + 1 |-> k] \in Seq(1 .. MaxPhrases)
           /\ ToSet(f) \subseteq ToSet(f \o [k \in 1 .. n + 1 |-> k])
           /\ n + 1 \in ToSet(f \o [k \in 1 .. n + 1 |-> k])
<1> DEFINE g == [k \in 1 .. n + 1 |-> k]
<1>0. MaxPhrases \in Nat /\ n \in Nat
  BY RecorderAssumption
<1>1. g \in [1 .. n + 1 -> 1 .. MaxPhrases]
  BY <1>0
<1>2. g \in Seq(1 .. MaxPhrases)
  BY <1>0, <1>1, SeqDef
<1>3. DOMAIN g = 1 .. n + 1 /\ g[n + 1] = n + 1
  BY <1>0
<1>4. Len(g) = n + 1
  <2> HIDE DEF g
  <2>1. Len(g) \in Nat /\ DOMAIN g = 1 .. Len(g)
    BY <1>2, LenProperties
  <2> QED
    BY <1>0, <1>3, <2>1
<1> HIDE DEF g
<1>5. /\ f \o g \in Seq(1 .. MaxPhrases) /\ Len(f \o g) = Len(f) + Len(g) /\ Len(f) \in Nat
      /\ DOMAIN f = 1 .. Len(f) /\ DOMAIN (f \o g) = 1 .. Len(f \o g)
      /\ \A i \in 1 .. Len(f) + Len(g) : (f \o g)[i] = IF i <= Len(f) THEN f[i] ELSE g[i - Len(f)]
  BY <1>2, ConcatProperties, LenProperties
<1>6. ToSet(f) \subseteq ToSet(f \o g)
  <2>1. \A i \in 1 .. Len(f) : i \in DOMAIN (f \o g) /\ (f \o g)[i] = f[i]
    BY <1>0, <1>4, <1>5
  <2> QED
    BY <1>5, <2>1 DEF ToSet
<1>7. n + 1 \in ToSet(f \o g)
  <2>1. /\ Len(f) + n + 1 \in DOMAIN (f \o g) /\ (f \o g)[Len(f) + n + 1] = g[n + 1]
    <3>1. /\ Len(f) + n + 1 \in 1 .. Len(f) + Len(g) /\ ~(Len(f) + n + 1 <= Len(f))
          /\ (Len(f) + n + 1) - Len(f) = n + 1
      BY <1>0, <1>4, <1>5
    <3> QED
      BY <1>5, <3>1
  <2> QED
    BY <1>3, <2>1 DEF ToSet
<1> QED
  BY <1>5, <1>6, <1>7 DEF g

(* The invariant of the recorder is inductive.                              *)
LEMMA RecorderSteps ==
    /\ RecorderInit => RecorderInv
    /\ RecorderInv /\ [RecorderNext]_recVars => RecorderInv'
<1>0. /\ MaxStreams \in Nat /\ MaxPhrases \in Nat /\ NoBlob \notin Seq(1 .. MaxPhrases)
      /\ <<>> \in Seq(1 .. MaxPhrases)
  BY RecorderAssumption, EmptySeq
<1>1. ASSUME RecorderInit PROVE RecorderInv
  <2>1. RecorderTypeOK /\ granted + asking <= MaxStreams
    <3>1. final \in Seq(1 .. MaxPhrases) /\ snapshot \in Seq(1 .. MaxPhrases) \cup {NoBlob}
      BY <1>0, <1>1, Zenon DEF RecorderInit
    <3>2. /\ phase = "idle" /\ asking = 0 /\ granted = 0 /\ open = {} /\ cur = 0 /\ rec = 0 /\ active = {}
          /\ queued = {} /\ chunks = {} /\ blob = NoBlob /\ spoken = 0 /\ heard = {} /\ broken = {}
      BY <1>1 DEF RecorderInit
    <3>3. asking \in 0 .. 2 /\ granted \in 0 .. MaxStreams /\ cur \in 0 .. granted /\ rec \in 0 .. granted
      BY <1>0, <3>2
    <3>4. open \subseteq 1 .. granted /\ active \subseteq open /\ queued \subseteq 1 .. granted /\ broken \subseteq 1 .. granted
      BY <3>2
    <3>5. spoken \in 0 .. MaxPhrases /\ heard \subseteq 1 .. MaxPhrases
      BY <1>0, <3>2
    <3>6. chunks \subseteq 1 .. granted /\ blob \in (SUBSET (1 .. granted)) \cup {NoBlob}
      BY <3>2, Zenon
    <3>7. granted + asking <= MaxStreams
      BY <1>0, <3>2
    <3> QED
      BY <3>1, <3>2, <3>3, <3>4, <3>5, <3>6, <3>7 DEF RecorderTypeOK
  <2>2. StreamsAreHeld
    BY <1>1 DEF RecorderInit, StreamsAreHeld
  <2>3. AudioIsCollected /\ SnapshotIsWhole /\ VisibleWordsStay
    BY <1>1 DEF RecorderInit, AudioIsCollected, SnapshotIsWhole, VisibleWordsStay
  <2> QED
    BY <2>1, <2>2, <2>3 DEF RecorderInv
<1>2. ASSUME RecorderInv, UNCHANGED recVars PROVE RecorderInv'
  BY <1>2 DEF recVars, RecorderInv, RecorderTypeOK, StreamsAreHeld, AudioIsCollected, SnapshotIsWhole,
     VisibleWordsStay, ToSet
<1> SUFFICES ASSUME RecorderInv, RecorderNext PROVE RecorderInv'
  BY <1>1, <1>2
<1>3. /\ RecorderTypeOK /\ StreamsAreHeld /\ AudioIsCollected /\ SnapshotIsWhole /\ VisibleWordsStay
      /\ granted \in Nat /\ granted <= MaxStreams /\ asking \in 0 .. 2 /\ granted + asking <= MaxStreams
      /\ 0 \notin active
  BY <1>0 DEF RecorderInv, RecorderTypeOK
<1>4. CASE PressStart
  <2>1. RecorderTypeOK' /\ granted' + asking' <= MaxStreams
    <3>1. final' \in Seq(1 .. MaxPhrases) /\ snapshot' \in Seq(1 .. MaxPhrases) \cup {NoBlob}
      BY <1>0, <1>3, <1>4, Zenon DEF PressStart, RecorderTypeOK
    <3>2. /\ phase' = phase /\ asking' = asking + 1 /\ asking < 2 /\ granted + asking < MaxStreams
          /\ granted' = granted /\ open' = open /\ cur' = cur /\ rec' = rec /\ active' = active
          /\ queued' = queued /\ chunks' = {} /\ blob' = NoBlob /\ spoken' = 0 /\ heard' = {} /\ broken' = broken
      BY <1>4 DEF PressStart
    <3>3. chunks' \subseteq 1 .. granted' /\ blob' \in (SUBSET (1 .. granted')) \cup {NoBlob}
      BY <3>2, Zenon
    <3>4. granted' + asking' <= MaxStreams
      BY <1>0, <1>3, <3>2
    <3> QED
      BY <1>0, <1>3, <3>1, <3>2, <3>3, <3>4 DEF RecorderTypeOK
  <2>2. StreamsAreHeld'
    BY <1>0, <1>3, <1>4 DEF PressStart, RecorderTypeOK, StreamsAreHeld, Recording, StopTracks, HandOver, SaveSnapshot, LoadSnapshot
  <2>3. AudioIsCollected'
    <3>1. ~crossed' => ~(asking > 0)
      BY <1>4, Zenon DEF PressStart
    <3> QED
      BY <1>3, <1>4, <3>1 DEF PressStart, AudioIsCollected
  <2>4. SnapshotIsWhole' /\ VisibleWordsStay'
    BY <1>0, <1>3, <1>4 DEF PressStart, RecorderTypeOK, StreamsAreHeld, SnapshotIsWhole, VisibleWordsStay, Recording, StopTracks, HandOver, SaveSnapshot, LoadSnapshot
  <2> QED
    BY <2>1, <2>2, <2>3, <2>4 DEF RecorderInv
<1>5. CASE Granted
  <2>0. /\ asking > 0 /\ asking' = asking - 1 /\ granted' = granted + 1 /\ granted' \in 0 .. MaxStreams
        /\ cur' = granted' /\ rec' = granted' /\ open' = open \cup {granted'} /\ active' = active \cup {granted'}
        /\ phase' = "recording"
    BY <1>0, <1>3, <1>5 DEF Granted
  <2>1. RecorderTypeOK' /\ granted' + asking' <= MaxStreams
    <3>1. \A x \in 1 .. granted : x \in 1 .. granted'
      BY <1>3, <2>0
    <3>2. asking' \in 0 .. 2 /\ cur' \in 0 .. granted' /\ rec' \in 0 .. granted' /\ granted' \in 1 .. granted'
      BY <1>3, <2>0
    <3>3. /\ \A x \in open \cup queued \cup chunks \cup broken : x \in 1 .. granted
          /\ \A x \in active : x \in open
          /\ blob \in (SUBSET (1 .. granted)) \cup {NoBlob}
      BY <1>3 DEF RecorderTypeOK
    <3>4. /\ open' \subseteq 1 .. granted' /\ active' \subseteq open' /\ queued' \subseteq 1 .. granted'
          /\ chunks' \subseteq 1 .. granted' /\ broken' \subseteq 1 .. granted' 
          /\ blob' \in (SUBSET (1 .. granted')) \cup {NoBlob}
      <4>1. queued' = queued /\ chunks' = chunks /\ blob' = blob /\ broken' = broken
        BY <1>5 DEF Granted
      <4>2. SUBSET (1 .. granted) \subseteq SUBSET (1 .. granted')
        BY <3>1
      <4>3. blob' \in (SUBSET (1 .. granted')) \cup {NoBlob}
        BY <3>3, <4>1, <4>2
      <4> QED
        BY <2>0, <3>1, <3>2, <3>3, <4>1, <4>3
    <3>5. granted' + asking' <= MaxStreams
      BY <1>0, <1>3, <2>0
    <3> QED
      BY <1>3, <1>5, <2>0, <3>2, <3>4, <3>5 DEF Granted, RecorderTypeOK, Recording
  <2>2. StreamsAreHeld'
    BY <1>0, <1>3, <1>5 DEF Granted, RecorderTypeOK, StreamsAreHeld, Recording
  <2>3. AudioIsCollected'
    BY <1>0, <1>3, <1>5 DEF Granted, RecorderTypeOK, AudioIsCollected
  <2>4. SnapshotIsWhole'
    <3>1. asking' <= 1
      BY <1>3, <2>0
    <3>2. snapshot' # NoBlob => asking' = 0 /\ heard' \subseteq ToSet(snapshot')
      <4>1. snapshot' = snapshot /\ heard' = heard
        BY <1>5 DEF Granted
      <4>2. snapshot # NoBlob => asking = 1
        BY <1>3, <2>0 DEF StreamsAreHeld, SnapshotIsWhole
      <4> QED
        BY <1>3, <2>0, <4>1, <4>2 DEF SnapshotIsWhole
    <3> QED
      BY <3>1, <3>2 DEF SnapshotIsWhole
  <2>5. VisibleWordsStay'
    BY <1>3, <1>5 DEF Granted, VisibleWordsStay
  <2> QED
    BY <2>1, <2>2, <2>3, <2>4, <2>5 DEF RecorderInv
<1>6. CASE Denied
  <2>1. RecorderTypeOK' /\ granted' + asking' <= MaxStreams
    BY <1>0, <1>3, <1>6 DEF Denied, RecorderTypeOK, Recording, StopTracks, HandOver, SaveSnapshot, LoadSnapshot
  <2>2. StreamsAreHeld'
    BY <1>0, <1>3, <1>6 DEF Denied, RecorderTypeOK, StreamsAreHeld, Recording, StopTracks, HandOver, SaveSnapshot, LoadSnapshot
  <2>3. AudioIsCollected'
    BY <1>0, <1>3, <1>6 DEF Denied, RecorderTypeOK, StreamsAreHeld, AudioIsCollected, Recording, StopTracks, HandOver
  <2>4. SnapshotIsWhole' /\ VisibleWordsStay'
    BY <1>0, <1>3, <1>6 DEF Denied, RecorderTypeOK, StreamsAreHeld, SnapshotIsWhole, VisibleWordsStay, Recording, StopTracks, HandOver, SaveSnapshot, LoadSnapshot
  <2> QED
    BY <2>1, <2>2, <2>3, <2>4 DEF RecorderInv
<1>7. CASE Hear
  <2>0. /\ spoken \in 0 .. MaxPhrases /\ spoken < MaxPhrases /\ spoken' = spoken + 1
        /\ final' = final \o [k \in 1 .. spoken + 1 |-> k] /\ final \in Seq(1 .. MaxPhrases)
        /\ heard' = IF hidden THEN heard ELSE heard \cup {spoken + 1}
        /\ phase \in Recording
    BY <1>3, <1>7 DEF Hear, RecorderTypeOK
  <2>1. /\ final' \in Seq(1 .. MaxPhrases) /\ ToSet(final) \subseteq ToSet(final')
        /\ spoken + 1 \in ToSet(final')
    BY <2>0, AppendedWords
  <2>2. RecorderTypeOK' /\ granted' + asking' <= MaxStreams
    <3>1. spoken' \in 0 .. MaxPhrases /\ spoken' \in 1 .. MaxPhrases
      BY <1>0, <2>0
    <3>2. heard' \subseteq 1 .. MaxPhrases
      BY <1>3, <2>0, <3>1 DEF RecorderTypeOK
    <3> QED
      BY <1>3, <1>7, <2>1, <3>1, <3>2 DEF Hear, RecorderTypeOK
  <2>3. StreamsAreHeld' /\ AudioIsCollected'
    BY <1>3, <1>7 DEF Hear, StreamsAreHeld, AudioIsCollected
  <2>4. SnapshotIsWhole'
    <3>1. /\ phase' = phase /\ asking' = asking /\ snapshot' = snapshot
      BY <1>7 DEF Hear
    <3>2. hidden' = hidden
      BY <1>7, Zenon DEF Hear
    <3>3. CASE hidden
      BY <1>3, <2>0, <3>1, <3>2, <3>3 DEF SnapshotIsWhole
    <3>4. CASE ~hidden
      BY <1>3, <2>0, <3>1, <3>2, <3>4 DEF SnapshotIsWhole
    <3> QED
      BY <3>3, <3>4
  <2>5. VisibleWordsStay'
    BY <1>3, <2>0, <2>1 DEF VisibleWordsStay
  <2> QED
    BY <2>2, <2>3, <2>4, <2>5 DEF RecorderInv
<1>8. CASE PressStop
  <2>1. RecorderTypeOK' /\ granted' + asking' <= MaxStreams
    BY <1>0, <1>3, <1>8 DEF PressStop, RecorderTypeOK, Recording, StopTracks, HandOver, SaveSnapshot, LoadSnapshot
  <2>2. StreamsAreHeld'
    BY <1>0, <1>3, <1>8 DEF PressStop, RecorderTypeOK, StreamsAreHeld, Recording, StopTracks, HandOver, SaveSnapshot, LoadSnapshot
  <2>3. AudioIsCollected'
    BY <1>0, <1>3, <1>8 DEF PressStop, RecorderTypeOK, StreamsAreHeld, AudioIsCollected, Recording, StopTracks, HandOver
  <2>4. SnapshotIsWhole' /\ VisibleWordsStay'
    BY <1>0, <1>3, <1>8 DEF PressStop, RecorderTypeOK, StreamsAreHeld, SnapshotIsWhole, VisibleWordsStay, Recording, StopTracks, HandOver, SaveSnapshot, LoadSnapshot
  <2> QED
    BY <2>1, <2>2, <2>3, <2>4 DEF RecorderInv
<1>9. CASE AutoStop
  <2>1. RecorderTypeOK' /\ granted' + asking' <= MaxStreams
    BY <1>0, <1>3, <1>9 DEF AutoStop, RecorderTypeOK, Recording, StopTracks, HandOver, SaveSnapshot, LoadSnapshot
  <2>2. StreamsAreHeld'
    BY <1>0, <1>3, <1>9 DEF AutoStop, RecorderTypeOK, StreamsAreHeld, Recording, StopTracks, HandOver, SaveSnapshot, LoadSnapshot
  <2>3. AudioIsCollected'
    BY <1>0, <1>3, <1>9 DEF AutoStop, RecorderTypeOK, StreamsAreHeld, AudioIsCollected, Recording, StopTracks, HandOver
  <2>4. SnapshotIsWhole' /\ VisibleWordsStay'
    BY <1>0, <1>3, <1>9 DEF AutoStop, RecorderTypeOK, StreamsAreHeld, SnapshotIsWhole, VisibleWordsStay, Recording, StopTracks, HandOver, SaveSnapshot, LoadSnapshot
  <2> QED
    BY <2>1, <2>2, <2>3, <2>4 DEF RecorderInv
<1>10. CASE Reset
  <2>1. RecorderTypeOK' /\ granted' + asking' <= MaxStreams
    <3>1. final' \in Seq(1 .. MaxPhrases) /\ snapshot' \in Seq(1 .. MaxPhrases) \cup {NoBlob}
      BY <1>0, <1>3, <1>10, Zenon DEF Reset, RecorderTypeOK
    <3>2. /\ phase' = "idle" /\ asking' = asking /\ granted' = granted /\ open' = open \ {cur} /\ cur' = 0
          /\ rec' = rec /\ active' = active \ {cur} /\ queued' = queued \cup (active \cap {cur})
          /\ chunks' = {} /\ blob' = NoBlob /\ spoken' = 0 /\ heard' = {} /\ broken' = broken
      BY <1>10 DEF Reset, StopTracks
    <3>3. chunks' \subseteq 1 .. granted' /\ blob' \in (SUBSET (1 .. granted')) \cup {NoBlob}
      BY <3>2, Zenon
    <3>4. granted' + asking' <= MaxStreams
      BY <1>0, <1>3, <3>2
    <3> QED
      BY <1>0, <1>3, <3>1, <3>2, <3>3, <3>4 DEF RecorderTypeOK
  <2>2. StreamsAreHeld'
    BY <1>0, <1>3, <1>10 DEF Reset, RecorderTypeOK, StreamsAreHeld, Recording, StopTracks, HandOver, SaveSnapshot, LoadSnapshot
  <2>3. AudioIsCollected'
    BY <1>0, <1>3, <1>10 DEF Reset, RecorderTypeOK, StreamsAreHeld, AudioIsCollected, Recording, StopTracks, HandOver
  <2>4. SnapshotIsWhole' /\ VisibleWordsStay'
    BY <1>0, <1>3, <1>10 DEF Reset, RecorderTypeOK, StreamsAreHeld, SnapshotIsWhole, VisibleWordsStay, Recording, StopTracks, HandOver, SaveSnapshot, LoadSnapshot
  <2> QED
    BY <2>1, <2>2, <2>3, <2>4 DEF RecorderInv
<1>11. CASE Hide
  <2>1. RecorderTypeOK' /\ granted' + asking' <= MaxStreams
    BY <1>0, <1>3, <1>11 DEF Hide, RecorderTypeOK, Recording, StopTracks, HandOver, SaveSnapshot, LoadSnapshot
  <2>2. StreamsAreHeld'
    BY <1>0, <1>3, <1>11 DEF Hide, RecorderTypeOK, StreamsAreHeld, Recording, StopTracks, HandOver, SaveSnapshot, LoadSnapshot
  <2>3. AudioIsCollected'
    BY <1>0, <1>3, <1>11 DEF Hide, RecorderTypeOK, StreamsAreHeld, AudioIsCollected, Recording, StopTracks, HandOver
  <2>4. SnapshotIsWhole' /\ VisibleWordsStay'
    BY <1>0, <1>3, <1>11 DEF Hide, RecorderTypeOK, StreamsAreHeld, SnapshotIsWhole, VisibleWordsStay, Recording, StopTracks, HandOver, SaveSnapshot, LoadSnapshot
  <2> QED
    BY <2>1, <2>2, <2>3, <2>4 DEF RecorderInv
<1>12. CASE Show
  <2>1. RecorderTypeOK' /\ granted' + asking' <= MaxStreams
    BY <1>0, <1>3, <1>12 DEF Show, RecorderTypeOK, Recording, StopTracks, HandOver, SaveSnapshot, LoadSnapshot
  <2>2. StreamsAreHeld'
    BY <1>0, <1>3, <1>12 DEF Show, RecorderTypeOK, StreamsAreHeld, Recording, StopTracks, HandOver, SaveSnapshot, LoadSnapshot
  <2>3. AudioIsCollected'
    BY <1>0, <1>3, <1>12 DEF Show, RecorderTypeOK, StreamsAreHeld, AudioIsCollected, Recording, StopTracks, HandOver
  <2>4. SnapshotIsWhole' /\ VisibleWordsStay'
    BY <1>0, <1>3, <1>12 DEF Show, RecorderTypeOK, StreamsAreHeld, SnapshotIsWhole, VisibleWordsStay, Recording, StopTracks, HandOver, SaveSnapshot, LoadSnapshot
  <2> QED
    BY <2>1, <2>2, <2>3, <2>4 DEF RecorderInv
<1>13. CASE Unmount
  <2>1. RecorderTypeOK' /\ granted' + asking' <= MaxStreams
    BY <1>0, <1>3, <1>13 DEF Unmount, RecorderTypeOK, Recording, StopTracks, HandOver, SaveSnapshot, LoadSnapshot
  <2>2. StreamsAreHeld'
    BY <1>0, <1>3, <1>13 DEF Unmount, RecorderTypeOK, StreamsAreHeld, Recording, StopTracks, HandOver, SaveSnapshot, LoadSnapshot
  <2>3. AudioIsCollected'
    BY <1>0, <1>3, <1>13 DEF Unmount, RecorderTypeOK, StreamsAreHeld, AudioIsCollected, Recording, StopTracks, HandOver
  <2>4. SnapshotIsWhole' /\ VisibleWordsStay'
    BY <1>0, <1>3, <1>13 DEF Unmount, RecorderTypeOK, StreamsAreHeld, SnapshotIsWhole, VisibleWordsStay, Recording, StopTracks, HandOver, SaveSnapshot, LoadSnapshot
  <2> QED
    BY <2>1, <2>2, <2>3, <2>4 DEF RecorderInv
<1>14. ASSUME NEW i \in Streams, OnStop(i) PROVE RecorderInv'
  <2>1. RecorderTypeOK' /\ granted' + asking' <= MaxStreams
    BY <1>0, <1>3, <1>14 DEF OnStop, RecorderTypeOK, Recording, StopTracks, HandOver, SaveSnapshot, LoadSnapshot
  <2>2. StreamsAreHeld'
    BY <1>0, <1>3, <1>14 DEF OnStop, RecorderTypeOK, StreamsAreHeld, Recording, StopTracks, HandOver, SaveSnapshot, LoadSnapshot
  <2>3. AudioIsCollected'
    BY <1>0, <1>3, <1>14 DEF OnStop, RecorderTypeOK, StreamsAreHeld, AudioIsCollected, Recording, StopTracks, HandOver
  <2>4. SnapshotIsWhole' /\ VisibleWordsStay'
    BY <1>0, <1>3, <1>14 DEF OnStop, RecorderTypeOK, StreamsAreHeld, SnapshotIsWhole, VisibleWordsStay, Recording, StopTracks, HandOver, SaveSnapshot, LoadSnapshot
  <2> QED
    BY <2>1, <2>2, <2>3, <2>4 DEF RecorderInv
<1>15. ASSUME NEW i \in Streams, KillStream(i) PROVE RecorderInv'
  <2>1. RecorderTypeOK' /\ granted' + asking' <= MaxStreams
    BY <1>0, <1>3, <1>15 DEF KillStream, RecorderTypeOK, Recording, StopTracks, HandOver, SaveSnapshot, LoadSnapshot
  <2>2. StreamsAreHeld'
    BY <1>0, <1>3, <1>15 DEF KillStream, RecorderTypeOK, StreamsAreHeld, Recording, StopTracks, HandOver, SaveSnapshot, LoadSnapshot
  <2>3. AudioIsCollected'
    BY <1>0, <1>3, <1>15 DEF KillStream, RecorderTypeOK, StreamsAreHeld, AudioIsCollected, Recording, StopTracks, HandOver
  <2>4. SnapshotIsWhole' /\ VisibleWordsStay'
    BY <1>0, <1>3, <1>15 DEF KillStream, RecorderTypeOK, StreamsAreHeld, SnapshotIsWhole, VisibleWordsStay, Recording, StopTracks, HandOver, SaveSnapshot, LoadSnapshot
  <2> QED
    BY <2>1, <2>2, <2>3, <2>4 DEF RecorderInv
<1>16. ASSUME NEW at \in {"make", "start", "speech"}, GrantedButFails(at) PROVE RecorderInv'
  <2>0. /\ asking > 0 /\ asking' = asking - 1 /\ granted' = granted + 1 /\ granted' \in 0 .. MaxStreams
        /\ cur' = granted' /\ rec' \in {rec, granted'} /\ open' = open \cup {granted'}
        /\ active' \subseteq active \cup {granted'} /\ phase' = phase /\ broken' = broken \cup {granted'}
    BY <1>0, <1>3, <1>16 DEF GrantedButFails
  <2>1. RecorderTypeOK' /\ granted' + asking' <= MaxStreams
    <3>1. \A x \in 1 .. granted : x \in 1 .. granted'
      BY <1>3, <2>0
    <3>2. asking' \in 0 .. 2 /\ cur' \in 0 .. granted' /\ rec' \in 0 .. granted' /\ granted' \in 1 .. granted'
      BY <1>3, <2>0 DEF RecorderTypeOK
    <3>3. /\ \A x \in open \cup queued \cup chunks \cup broken : x \in 1 .. granted
          /\ \A x \in active : x \in open
          /\ blob \in (SUBSET (1 .. granted)) \cup {NoBlob}
      BY <1>3 DEF RecorderTypeOK
    <3>4. /\ open' \subseteq 1 .. granted' /\ active' \subseteq open' /\ queued' \subseteq 1 .. granted'
          /\ chunks' \subseteq 1 .. granted' /\ broken' \subseteq 1 .. granted' 
          /\ blob' \in (SUBSET (1 .. granted')) \cup {NoBlob}
      <4>1. queued' = queued /\ chunks' = chunks /\ blob' = blob
        BY <1>16 DEF GrantedButFails
      <4>2. SUBSET (1 .. granted) \subseteq SUBSET (1 .. granted')
        BY <3>1
      <4>3. blob' \in (SUBSET (1 .. granted')) \cup {NoBlob}
        BY <3>3, <4>1, <4>2
      <4> QED
        BY <2>0, <3>1, <3>2, <3>3, <4>1, <4>3
    <3>5. granted' + asking' <= MaxStreams
      BY <1>0, <1>3, <2>0
    <3> QED
      BY <1>3, <1>16, <2>0, <3>2, <3>4, <3>5 DEF GrantedButFails, RecorderTypeOK, Recording
  <2>2. StreamsAreHeld'
    BY <1>0, <1>3, <1>16 DEF GrantedButFails, RecorderTypeOK, StreamsAreHeld, Recording
  <2>3. AudioIsCollected'
    BY <1>0, <1>3, <1>16 DEF GrantedButFails, RecorderTypeOK, AudioIsCollected
  <2>4. SnapshotIsWhole'
    <3>1. asking' <= 1
      BY <1>3, <2>0
    <3>2. snapshot' # NoBlob => asking' = 0 /\ heard' \subseteq ToSet(snapshot')
      <4>1. snapshot' = snapshot /\ heard' = heard
        BY <1>16 DEF GrantedButFails
      <4>2. snapshot # NoBlob => asking = 1
        BY <1>3, <2>0 DEF StreamsAreHeld, SnapshotIsWhole
      <4> QED
        BY <1>3, <2>0, <4>1, <4>2 DEF SnapshotIsWhole
    <3> QED
      BY <3>1, <3>2 DEF SnapshotIsWhole
  <2>5. VisibleWordsStay'
    BY <1>3, <1>16 DEF GrantedButFails, VisibleWordsStay
  <2> QED
    BY <2>1, <2>2, <2>3, <2>4, <2>5 DEF RecorderInv
<1> QED
  BY <1>4, <1>5, <1>6, <1>7, <1>8, <1>9, <1>10, <1>11, <1>12, <1>13, <1>14, <1>15, <1>16 DEF RecorderNext

(* The recorder's invariant gives what the runs check of it.                *)
LEMMA RecorderHolds ==
    RecorderInv => RecorderTypeOK /\ MicrophoneIsReleased /\ AudioIsOfThisRecording /\ VisibleWordsStay
<1> SUFFICES ASSUME RecorderInv
             PROVE  RecorderTypeOK /\ MicrophoneIsReleased /\ AudioIsOfThisRecording /\ VisibleWordsStay
  OBVIOUS
<1>1. MicrophoneIsReleased
  BY DEF RecorderInv, StreamsAreHeld, MicrophoneIsReleased
<1>2. AudioIsOfThisRecording
  BY DEF RecorderInv, AudioIsCollected, AudioIsOfThisRecording
<1> QED
  BY <1>1, <1>2 DEF RecorderInv

(* The invariant of on-device transcription is inductive.                   *)
LEMMA EdgeSteps ==
    /\ EdgeInit => EdgeInv
    /\ EdgeInv /\ [EdgeNext]_edgeVars => EdgeInv'
<1> USE DEF EdgeInv, EdgeTypeOK, WhisperLoadsOnce, AutomaticNeverThrows, Engines
<1>1. ASSUME EdgeInit PROVE EdgeInv
  BY <1>1 DEF EdgeInit
<1> SUFFICES ASSUME EdgeInv, [EdgeNext]_edgeVars PROVE EdgeInv'
  BY <1>1
<1>2. CASE UNCHANGED edgeVars
  BY <1>2 DEF edgeVars
<1>3. ASSUME NEW ok \in BOOLEAN, ImportSettles(ok) PROVE EdgeInv'
  BY <1>3 DEF ImportSettles
<1>4. ASSUME NEW ok \in BOOLEAN, NEW c \in CallsOf, WhisperAnswers(c, ok) PROVE EdgeInv'
  BY <1>4 DEF WhisperAnswers, Goes, AfterWhisper
<1>9. ASSUME NEW ok \in BOOLEAN, NEW c \in CallsOf, WhisperIsReady(c, ok) PROVE EdgeInv'
  BY <1>9 DEF WhisperIsReady, Goes, AfterWhisper
<1>5. ASSUME NEW c \in CallsOf, TranscribeAudio(c) PROVE EdgeInv'
  BY <1>5 DEF TranscribeAudio, Goes, AfterWhisper
<1>6. ASSUME NEW c \in CallsOf, LoadWhisper(c) PROVE EdgeInv'
  BY <1>6 DEF LoadWhisper, Goes, AfterWhisper
<1>7. ASSUME NEW c \in CallsOf, SpeechAnswers(c) PROVE EdgeInv'
  BY <1>7 DEF SpeechAnswers, Goes, AfterSpeech
<1>8. ASSUME NEW c \in CallsOf, Abort(c) PROVE EdgeInv'
  BY <1>8 DEF Abort
<1> QED
  BY <1>2, <1>3, <1>4, <1>5, <1>6, <1>7, <1>8, <1>9 DEF EdgeNext

--------------------------------------------------------------------------------
(* The composed specification.                                              *)

PipelinesInv ==
    /\ MachineInv /\ MailInv /\ UploadInv /\ RunInv /\ EscalationInv /\ RecorderInv /\ EdgeInv

(* A step of the composed specification moves one component.                *)
LEMMA OneMoves ==
    ASSUME [Next]_pipelineVars
    PROVE  /\ [MachineNext]_machineVars /\ [MailNext]_mailVars /\ [UploadNext]_uploadVars
           /\ [RunNext]_runVars /\ [EscalationNext]_dismissVars
           /\ [RecorderNext]_recVars /\ [EdgeNext]_edgeVars
<1>1. CASE UNCHANGED pipelineVars
  <2>1. UNCHANGED <<machineVars, intakeVars, autolearnVars, recVars, edgeVars>>
    BY <1>1 DEF pipelineVars
  <2> QED
    BY <2>1 DEF intakeVars, mailVars, uploadVars, autolearnVars
<1>2. CASE MachineNext /\ UNCHANGED <<intakeVars, autolearnVars, recVars, edgeVars>>
  BY <1>2 DEF intakeVars, mailVars, uploadVars, autolearnVars
<1>3. CASE MailNext /\ UNCHANGED <<machineVars, autolearnVars, recVars, edgeVars>>
  <2>1. UNCHANGED uploadVars
    BY <1>3 DEF MailNext, Deliver, NextWindow, Dispatch, Expunge, Land, LandFails, ClaimLapses, LandRefused,
       Classify
  <2> QED
    BY <1>3, <2>1 DEF autolearnVars
<1>4. CASE UploadNext /\ UNCHANGED <<machineVars, autolearnVars, recVars, edgeVars>>
  <2>1. UNCHANGED mailVars
    BY <1>4 DEF UploadNext, Receive, Audit, Store, EnqueueLearning, SubmitTranscript, UploadFails, Step
  <2> QED
    BY <1>4, <2>1 DEF autolearnVars
<1>5. CASE RunNext /\ UNCHANGED <<machineVars, intakeVars, recVars, edgeVars>>
  <2>1. UNCHANGED dismissVars
    BY <1>5 DEF RunNext, CreateStagingDir, WriteStagingFile, WriteFails, CleanupStagingDir, FetchGroundTruth,
       FetchWikiMarkdown, InvokeCli, ChildWrites, ChildEnds, TimeoutFires, GraceEnds, Settle
  <2> QED
    BY <1>5, <2>1 DEF intakeVars, mailVars, uploadVars
<1>6. CASE EscalationNext /\ UNCHANGED <<machineVars, intakeVars, recVars, edgeVars>>
  <2>1. UNCHANGED runVars
    BY <1>6 DEF EscalationNext, PassDay, RecordDismissal, RequiresEscalation, CreateAutolearnJob
  <2> QED
    BY <1>6, <2>1 DEF intakeVars, mailVars, uploadVars
<1>7. CASE RecorderNext /\ UNCHANGED <<machineVars, intakeVars, autolearnVars, edgeVars>>
  BY <1>7 DEF intakeVars, mailVars, uploadVars, autolearnVars
<1>8. CASE EdgeNext /\ UNCHANGED <<machineVars, intakeVars, autolearnVars, recVars>>
  BY <1>8 DEF intakeVars, mailVars, uploadVars, autolearnVars
<1> QED
  BY <1>1, <1>2, <1>3, <1>4, <1>5, <1>6, <1>7, <1>8 DEF Next

(* The invariants of the components hold together.                          *)
THEOREM PipelinesInvariant == Spec => []PipelinesInv
<1>1. Init => PipelinesInv
  BY MachineStarts, MailSteps, UploadSteps, RunSteps, EscalationSteps, RecorderSteps, EdgeSteps
     DEF Init, PipelinesInv
<1>2. PipelinesInv /\ [Next]_pipelineVars => PipelinesInv'
  <2> SUFFICES ASSUME PipelinesInv, [Next]_pipelineVars PROVE PipelinesInv'
    OBVIOUS
  <2>1. /\ [MachineNext]_machineVars /\ [MailNext]_mailVars /\ [UploadNext]_uploadVars
        /\ [RunNext]_runVars /\ [EscalationNext]_dismissVars
        /\ [RecorderNext]_recVars /\ [EdgeNext]_edgeVars
    BY OneMoves
  <2>2. MachineInv'
    BY <2>1, MachineSteps DEF PipelinesInv
  <2>3. MailInv' /\ UploadInv' /\ RunInv' /\ EscalationInv'
    BY <2>1, MailSteps, UploadSteps, RunSteps, EscalationSteps DEF PipelinesInv
  <2>4. RecorderInv' /\ EdgeInv'
    BY <2>1, RecorderSteps, EdgeSteps DEF PipelinesInv
  <2> QED
    BY <2>2, <2>3, <2>4 DEF PipelinesInv
<1> QED
  BY <1>1, <1>2, PTL DEF Spec

(* Nothing is lost or half done on the way in, for any number of items,     *)
(* movers, messages, uploads and dismissals (the state machines, imap and   *)
(* autolearn-cli.ts).                                                       *)
THEOREM IntakeCorrect == Spec => []IntakeIsWhole
<1>1. PipelinesInv => IntakeIsWhole
  <2> SUFFICES ASSUME PipelinesInv PROVE IntakeIsWhole
    OBVIOUS
  <2>1. MachineTypeOK /\ LogIsThePath /\ ChainIsUnbroken
    BY MachineHolds DEF PipelinesInv
  <2>2. IntakeTypeOK /\ CheckpointSkipsNothing /\ StoredIsAudited
    BY DEF PipelinesInv, MailInv, MailTypeOK, UploadInv, IntakeTypeOK
  <2>3. RunTypeOK
    <3>1. RunHalf /\ EscalationInv
      BY DEF PipelinesInv, RunInv
    <3> QED
      BY <3>1, Zenon DEF RunHalf, EscalationInv, RunTypeOK
  <2>4. CliFilesAreRemoved /\ ReturnedIsComplete /\ FailedFetchStagesNothing
    BY RunAssumption DEF PipelinesInv, RunInv, RunStages, ChildStages, ReturnedIsComplete, FailedFetchStagesNothing
  <2>5. RecorderTypeOK /\ EdgeTypeOK
    BY DEF PipelinesInv, RecorderInv, EdgeInv
  <2> QED
    BY <2>1, <2>2, <2>3, <2>4, <2>5, Zenon DEF IntakeIsWhole, PipelinesTypeOK
<1> QED
  BY <1>1, PipelinesInvariant, PTL

(* The microphone is released, a recording holds its own audio and every    *)
(* word heard in the foreground, and the model is imported once, for any    *)
(* number of streams, phrases and calls (use-audio-recorder.ts, edge        *)
(* transcription).                                                          *)
THEOREM RecordingCorrect == Spec => []RecordingIsSound
<1>1. PipelinesInv => RecordingIsSound
  BY RecorderHolds DEF PipelinesInv, EdgeInv, RecordingIsSound
<1> QED
  BY <1>1, PipelinesInvariant, PTL

(* A final state is left only by overlapping transitions, and a customer    *)
(* who dismissed too much gets no draft unasked: the safety part of what    *)
(* the runs check as EndsAreReached.                                        *)
THEOREM EndsCorrect == Spec => FinalStatesStay /\ EscalatedDraftWaits
<1>1. PipelinesInv /\ [Next]_pipelineVars =>
        [\A i \in Items \ overlapped : state[i] \in Final(kind[i]) => state'[i] = state[i]]_machineVars
  <2> SUFFICES ASSUME PipelinesInv, [Next]_pipelineVars
               PROVE  \A i \in Items \ overlapped : state[i] \in Final(kind[i]) => state'[i] = state[i]
    OBVIOUS
  <2> QED
    BY OneMoves, MachineSteps DEF PipelinesInv
<1>2. PipelinesInv /\ [Next]_pipelineVars =>
        [draft' = FALSE => draft = FALSE \/
            Cardinality({d \in Dismissals \ late : dismissed[d] # Never /\ today - dismissed[d] <= Window})
              < Threshold]_autolearnVars
  <2> SUFFICES ASSUME PipelinesInv, [Next]_pipelineVars
               PROVE  draft' = FALSE => draft = FALSE \/ Cardinality(Counted) < Threshold
    BY Zenon DEF Counted
  <2> QED
    BY OneMoves, EscalationSteps, Zenon DEF PipelinesInv
<1> QED
  BY <1>1, <1>2, PipelinesInvariant, PTL DEF Spec, FinalStatesStay, EscalatedDraftWaits

=============================================================================
