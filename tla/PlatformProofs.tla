----------------------------- MODULE PlatformProofs ----------------------------
(* Proofs about the services of the platform.  Each service has an inductive *)
(* invariant of its own; a step of the composed specification moves one of   *)
(* them.                                                                     *)
EXTENDS MCPlatform, WellFoundedInduction, FiniteSetTheorems, TLAPS

(* Every nonempty set of numbers has a least one.                           *)
LEMMA Least ==
    ASSUME NEW S \in SUBSET Nat, S # {}
    PROVE  \E x \in S : \A y \in S : x <= y
<1>1. IsWellFoundedOn(OpToRel(<, Nat), Nat)
  BY NatLessThanWellFounded
<1>2. PICK x \in S : \A y \in S : ~(<<y, x>> \in OpToRel(<, Nat))
  BY <1>1, WFMin
<1>3. \A y \in S : ~(y < x)
  BY <1>2 DEF OpToRel
<1> QED
  BY <1>3

(* Every nonempty set of numbers with a bound has a greatest one.           *)
LEMMA Greatest ==
    ASSUME NEW m \in Nat, NEW S \in SUBSET (0 .. m), S # {}
    PROVE  \E x \in S : \A y \in S : y <= x
<1>1. PICK D : D = {m - y : y \in S}
  OBVIOUS
<1>2. D \in SUBSET Nat /\ D # {}
  <2>1. \A y \in S : m - y \in Nat
    OBVIOUS
  <2> QED
    BY <1>1, <2>1
<1>3. PICK d \in D : \A e \in D : d <= e
  BY <1>2, Least
<1>4. PICK x \in S : d = m - x
  BY <1>1, <1>3
<1>5. ASSUME NEW y \in S PROVE y <= x
  <2>1. m - y \in D
    BY <1>1
  <2>2. m - x <= m - y
    BY <1>3, <1>4, <2>1
  <2> QED
    BY <2>2
<1> QED
  BY <1>5

--------------------------------------------------------------------------------
(* The audit chain.                                                         *)

AuditRow == [ts : 1 .. clock, id : 1 .. Cardinality(Writers), by : Writers, prev : Writers \cup {Genesis}]

(* The hash a writer names after reading the rows of S.                     *)
NamedAfter(S) == IF S = {} THEN Genesis ELSE HashOf(Latest(S))

Grounded(e) == e.prev = Genesis \/ \E f \in events : HashOf(f) = e.prev /\ f # e

(* Rows are told apart by their ids, a writer has a row when it is done,    *)
(* and one that has begun names the latest of the rows it saw.              *)
AuditInv ==
    /\ clock \in 1 .. MaxClock
    /\ events \subseteq AuditRow /\ \A e, f \in events : e.id = f.id => e = f
    /\ DOMAIN writer = Writers
    /\ \A w \in Writers :
          /\ DOMAIN writer[w] = {"pc", "ts", "prev", "saw"}
          /\ writer[w].pc \in {"idle", "stamped", "begun", "done", "failed"}
          /\ writer[w].pc \in {"stamped", "begun"} => writer[w].ts \in 1 .. clock
          /\ writer[w].pc = "begun" => writer[w].prev = NamedAfter(writer[w].saw)
          /\ (writer[w].pc = "done") <=> \E e \in events : e.by = w
    /\ \A e \in events : Grounded(e)
    /\ ~late => Verify(events)

(* Of rows told apart by their ids one is the latest.                       *)
LEMMA LatestIsThere ==
    ASSUME NEW S \in SUBSET AuditRow, S # {}, clock \in Nat, \A e, f \in S : e.id = f.id => e = f
    PROVE  Latest(S) \in S
<1>0. Cardinality(Writers) \in Nat
  BY AuditAssumption, FS_CardinalityType
<1>1. PICK T : T = {e.ts : e \in S}
  OBVIOUS
<1>2. T \in SUBSET (0 .. clock) /\ T # {}
  BY <1>1 DEF AuditRow
<1>3. PICK t \in T : \A y \in T : y <= t
  BY <1>2, Greatest
<1>4. PICK I : I = {e.id : e \in {f \in S : f.ts = t}}
  OBVIOUS
<1>5. I \in SUBSET (0 .. Cardinality(Writers)) /\ I # {}
  BY <1>0, <1>1, <1>3, <1>4 DEF AuditRow
<1>6. PICK i \in I : \A y \in I : y <= i
  BY <1>0, <1>5, Greatest
<1>7. PICK e \in S : e.ts = t /\ e.id = i
  BY <1>4, <1>6
<1>8. ASSUME NEW f \in S \ {e} PROVE Before(f, e)
  <2>1. f.ts <= e.ts /\ f.ts \in Nat /\ e.ts \in Nat /\ f.id # e.id /\ f.id \in Nat /\ e.id \in Nat
    BY <1>0, <1>1, <1>3, <1>7 DEF AuditRow
  <2>2. f.ts = e.ts => f.id <= e.id
    BY <1>4, <1>6, <1>7
  <2> QED
    BY <2>1, <2>2 DEF Before
<1> QED
  BY <1>8 DEF Latest

(* The log is empty and nobody writes.                                      *)
LEMMA AuditStart == AuditInit => AuditInv
  BY AuditAssumption DEF AuditInit, AuditInv, Waiting, Verify

(* A writer moves on without a row.                                         *)
LEMMA WriterMove ==
    ASSUME AuditInv, NEW w \in Writers, NEW q, writer' = [writer EXCEPT ![w] = q], UNCHANGED <<clock, events>>,
           late' = late, DOMAIN q = {"pc", "ts", "prev", "saw"},
           q.pc \in {"stamped", "begun", "failed"}, q.ts \in 1 .. clock,
           q.pc = "begun" => q.prev = NamedAfter(q.saw), writer[w].pc # "done"
    PROVE  AuditInv'
<1>1. DOMAIN writer' = Writers /\ \A v \in Writers : writer'[v] = IF v = w THEN q ELSE writer[v]
  BY DEF AuditInv
<1>2. \A v \in Writers :
          /\ DOMAIN writer'[v] = {"pc", "ts", "prev", "saw"}
          /\ writer'[v].pc \in {"idle", "stamped", "begun", "done", "failed"}
          /\ writer'[v].pc \in {"stamped", "begun"} => writer'[v].ts \in 1 .. clock
          /\ writer'[v].pc = "begun" => writer'[v].prev = NamedAfter(writer'[v].saw)
          /\ (writer'[v].pc = "done") <=> \E e \in events : e.by = v
  BY <1>1 DEF AuditInv
<1>3. \A e \in events : Grounded(e)'
  BY DEF AuditInv, Grounded
<1>4. clock \in 1 .. MaxClock /\ events \subseteq AuditRow' /\ \A e, f \in events : e.id = f.id => e = f
  BY DEF AuditInv, AuditRow
<1>5. ~late => Verify(events)
  BY DEF AuditInv
<1> QED
  BY <1>1, <1>2, <1>3, <1>4, <1>5 DEF AuditInv

(* A row is committed behind the ones its writer saw.                       *)
LEMMA CommitStep ==
    ASSUME AuditInv, NEW w \in Writers, NEW id \in 1 .. Cardinality(Writers), Commit(w, id)
    PROVE  AuditInv'
<1>0. PICK e : e = [ts |-> writer[w].ts, id |-> id, by |-> w, prev |-> writer[w].prev]
  OBVIOUS
<1>1. /\ writer[w].pc = "begun" /\ events = writer[w].saw /\ \A f \in events : f.id # id
      /\ events' = events \cup {e} /\ writer' = [writer EXCEPT ![w].pc = "done"]
      /\ late' = (late \/ \E f \in events : ~Before(f, e))
      /\ clock' = clock
  BY <1>0 DEF Commit
<1>2. e.ts = writer[w].ts /\ e.id = id /\ e.by = w /\ e.prev = NamedAfter(events) /\ e.ts \in 1 .. clock
  BY <1>0, <1>1 DEF AuditInv
<1>3. events # {} => Latest(events) \in events
  BY LatestIsThere DEF AuditInv
<1>4. /\ events \subseteq AuditRow /\ e.prev \in Writers \cup {Genesis}
      /\ events # {} => \E f \in events : HashOf(f) = e.prev
  BY <1>2, <1>3 DEF AuditInv, NamedAfter, HashOf, AuditRow
<1>5. e \in AuditRow
  BY <1>0, <1>2, <1>4 DEF AuditRow
<1>6. e \notin events
  BY <1>1, <1>2
<1>7. \A v \in Writers :
          /\ DOMAIN writer'[v] = {"pc", "ts", "prev", "saw"}
          /\ writer'[v].pc = IF v = w THEN "done" ELSE writer[v].pc
          /\ writer'[v].ts = writer[v].ts /\ writer'[v].prev = writer[v].prev /\ writer'[v].saw = writer[v].saw
  BY <1>1 DEF AuditInv
<1>8. \A v \in Writers :
          /\ writer'[v].pc \in {"idle", "stamped", "begun", "done", "failed"}
          /\ writer'[v].pc \in {"stamped", "begun"} => writer'[v].ts \in 1 .. clock
          /\ writer'[v].pc = "begun" => writer'[v].prev = NamedAfter(writer'[v].saw)
          /\ (writer'[v].pc = "done") <=> \E f \in events' : f.by = v
  BY <1>1, <1>2, <1>7 DEF AuditInv
<1>9. \A g \in events' : Grounded(g)'
  <2>1. ASSUME NEW g \in events PROVE Grounded(g)'
    BY <1>1, <1>6 DEF AuditInv, Grounded
  <2>2. Grounded(e)'
    BY <1>1, <1>2, <1>4, <1>6 DEF Grounded, NamedAfter
  <2> QED
    BY <1>1, <2>1, <2>2
<1>10. ASSUME ~late' PROVE Verify(events')
  <2>1. ~late /\ \A f \in events : Before(f, e)
    BY <1>1, <1>10
  <2>2. ASSUME NEW g \in events PROVE {f \in events' : Before(f, g)} = {f \in events : Before(f, g)}
    <3>1. ~Before(e, g)
      <4>1. e.ts \in Nat /\ g.ts \in Nat /\ e.id \in Nat /\ g.id \in Nat /\ Before(g, e)
        BY <1>4, <1>5, <2>1, AuditAssumption, FS_CardinalityType DEF AuditRow, AuditInv
      <4> QED
        BY <4>1 DEF Before
    <3> QED
      BY <1>1, <3>1
  <2>3. {f \in events' : Before(f, e)} = events
    <3>1. ~Before(e, e)
      BY <1>2, AuditAssumption, FS_CardinalityType DEF Before, AuditInv
    <3> QED
      BY <1>1, <2>1, <3>1
  <2>4. Verify(events)
    BY <2>1 DEF AuditInv
  <2>5. ASSUME NEW g \in events PROVE g.prev = NamedAfter({f \in events' : Before(f, g)})
    BY <2>2, <2>4 DEF Verify, NamedAfter
  <2>6. e.prev = NamedAfter({f \in events' : Before(f, e)})
    BY <1>2, <2>3
  <2> QED
    <3>1. ASSUME NEW g \in events' PROVE g.prev = NamedAfter({f \in events' : Before(f, g)})
      BY <1>1, <2>5, <2>6
    <3> QED
      BY <3>1 DEF Verify, NamedAfter
<1>11. events' \subseteq AuditRow' /\ \A f, g \in events' : f.id = g.id => f = g
  BY <1>1, <1>2, <1>4, <1>5 DEF AuditRow, AuditInv
<1>12. clock' \in 1 .. MaxClock /\ DOMAIN writer' = Writers
  BY <1>1 DEF AuditInv
<1> QED
  BY <1>1, <1>7, <1>8, <1>9, <1>10, <1>11, <1>12 DEF AuditInv

(* Every step of the audit log keeps the invariant.                         *)
LEMMA AuditSteps == AuditInv /\ (AuditNext \/ UNCHANGED auditVars) => AuditInv'
<1> SUFFICES ASSUME AuditInv, AuditNext \/ UNCHANGED auditVars PROVE AuditInv'
  OBVIOUS
<1>1. ASSUME clock' \in clock .. MaxClock, UNCHANGED <<events, writer>>, late' = late PROVE AuditInv'
  <2>1. clock \in Nat /\ clock' \in 1 .. MaxClock /\ 1 .. clock \subseteq 1 .. clock'
    BY <1>1, AuditAssumption DEF AuditInv
  <2>2. events' \subseteq AuditRow'
    BY <1>1, <2>1 DEF AuditInv, AuditRow
  <2>3. \A e \in events : Grounded(e)'
    BY <1>1 DEF AuditInv, Grounded
  <2>4. \A v \in Writers : writer[v].pc \in {"stamped", "begun"} => writer[v].ts \in 1 .. clock'
    BY <2>1 DEF AuditInv
  <2> QED
    BY <1>1, <2>1, <2>2, <2>3, <2>4 DEF AuditInv
<1>2. CASE AuditTick
  BY <1>1, <1>2, AuditAssumption DEF AuditTick, AuditInv
<1>3. CASE UNCHANGED auditVars
  BY <1>1, <1>3, AuditAssumption DEF auditVars, AuditInv
<1>4. ASSUME NEW w \in Writers, Stamp(w) PROVE AuditInv'
  <2>1. PICK q : q = [writer[w] EXCEPT !.pc = "stamped", !.ts = clock]
    OBVIOUS
  <2>2. /\ writer' = [writer EXCEPT ![w] = q] /\ UNCHANGED <<clock, events>> /\ late' = late
        /\ writer[w].pc # "done"
    BY <1>4, <2>1 DEF Stamp
  <2>3. /\ DOMAIN q = {"pc", "ts", "prev", "saw"} /\ q.pc = "stamped" /\ q.ts = clock /\ clock \in 1 .. clock
    BY <2>1, AuditAssumption DEF AuditInv
  <2>4. q.pc \in {"stamped", "begun", "failed"} /\ q.ts \in 1 .. clock /\ (q.pc = "begun" => q.prev = NamedAfter(q.saw))
    BY <2>3
  <2> QED
    BY <2>2, <2>3, <2>4, WriterMove, Zenon
<1>5. ASSUME NEW w \in Writers, SelectLatest(w) PROVE AuditInv'
  <2>1. PICK q : q = [writer[w] EXCEPT !.pc = "begun", !.saw = events,
                                      !.prev = IF events = {} THEN Genesis ELSE HashOf(Latest(events))]
    OBVIOUS
  <2>2. /\ writer' = [writer EXCEPT ![w] = q] /\ UNCHANGED <<clock, events>> /\ late' = late
        /\ writer[w].pc # "done" /\ writer[w].pc = "stamped"
    BY <1>5, <2>1 DEF SelectLatest
  <2>3. /\ DOMAIN q = {"pc", "ts", "prev", "saw"} /\ q.pc \in {"stamped", "begun", "failed"} /\ q.ts \in 1 .. clock
        /\ q.pc = "begun" => q.prev = NamedAfter(q.saw)
    BY <2>1, <2>2 DEF AuditInv, NamedAfter
  <2> QED
    BY <2>2, <2>3, WriterMove, Zenon
<1>6. ASSUME NEW w \in Writers, Rollback(w) PROVE AuditInv'
  <2>1. PICK q : q = [writer[w] EXCEPT !.pc = "failed"]
    OBVIOUS
  <2>2. /\ writer' = [writer EXCEPT ![w] = q] /\ UNCHANGED <<clock, events>> /\ late' = late
        /\ writer[w].pc # "done" /\ writer[w].pc = "begun"
    BY <1>6, <2>1 DEF Rollback
  <2>3. /\ DOMAIN q = {"pc", "ts", "prev", "saw"} /\ q.pc \in {"stamped", "begun", "failed"} /\ q.ts \in 1 .. clock
        /\ q.pc = "begun" => q.prev = NamedAfter(q.saw)
    BY <2>1, <2>2 DEF AuditInv
  <2> QED
    BY <2>2, <2>3, WriterMove, Zenon
<1> QED
  BY <1>2, <1>3, <1>4, <1>5, <1>6, CommitStep DEF AuditNext

(* What the invariant promises.                                             *)
LEMMA AuditPromise == AuditInv => AuditTypeOK /\ ChainVerifies /\ ChainIsGrounded
  BY DEF AuditInv, AuditTypeOK, AuditRow, ChainVerifies, ChainIsGrounded, Grounded

--------------------------------------------------------------------------------
(* Clearance labels.                                                        *)

LabelKey == [scope : Scopes, id : Nat]
Kept == [content : Nat, key : LabelKey, scope : Scopes]
ReadRequest ==
    [pc : {"quiet", "cleared", "fetched", "read", "denied", "missing", "failed"},
     user : Holders \cup {Admin}, scope : Scopes \cup {Absent}, got : Kept \cup {Absent},
     key : LabelKey \cup {Absent, NoDek}, at : Nat]

(* What a read request knows: its holder was cleared and, if the grant is   *)
(* gone, it was revoked since; what it fetched is of the scope it asked for *)
(* and opens with the key the label still has.                              *)
ReadIsCleared(r, b) ==
    /\ r.at <= b
    /\ r.pc # "quiet" => r.scope \in Scopes
    /\ r.pc \in {"cleared", "fetched", "read"} /\ r.user # Admin =>
          <<r.user, r.scope>> \in grants \/ revoked[<<r.user, r.scope>>] >= r.at
    /\ r.pc = "fetched" => r.got # Absent /\ r.got.scope = r.scope
    /\ r.pc = "fetched" /\ ~rekeyed => r.got.key = label[r.scope]
    /\ r.pc = "failed" /\ ~rekeyed => r.user = Admin

LabelInv ==
    /\ LabelTypeOK /\ deks \in 0 .. MaxDek /\ begun \in Nat
    /\ label \in [Scopes -> LabelKey \cup {Absent, NoDek}] /\ record \in Kept \cup {Absent}
    /\ reader \in [Readers -> ReadRequest] /\ revoked \in [Holders \X Scopes -> Nat]
    /\ ~remote => \A s \in Scopes : label[s] \in LabelKey => label[s].id = 0
    /\ record # Absent /\ ~rekeyed => record.key = label[record.scope]
    /\ \A q \in Readers : ReadIsCleared(reader[q], begun)

(* The invariant of the labels is inductive.                                *)
LEMMA LabelSteps ==
    /\ LabelInit => LabelInv
    /\ LabelInv /\ [LabelNext]_labelVars => LabelInv'
<1>0. /\ MaxContent \in Nat /\ MaxDek \in Nat /\ Admin \notin Holders /\ Absent # NoDek
      /\ Absent \notin LabelKey /\ NoDek \notin LabelKey /\ Absent \notin Kept
  BY LabelsAssumption DEF LabelKey, Kept
<1>1. ASSUME LabelInit PROVE LabelInv
  <2>1. Quiet \in ReadRequest /\ Quiet.pc = "quiet" /\ Quiet.at = 0
    BY DEF Quiet, ReadRequest
  <2> HIDE DEF Quiet
  <2> QED
    <3>1. reader \in [Readers -> ReadRequest] /\ \A q \in Readers : reader[q] = Quiet
      BY <1>1, <2>1 DEF LabelInit
    <3>2. begun = 0 /\ \A q \in Readers : ReadIsCleared(reader[q], begun)
      BY <1>1, <2>1, <3>1 DEF LabelInit, ReadIsCleared
    <3>3. revoked \in [Holders \X Scopes -> Nat] /\ \A s \in Scopes : label[s] = Absent
      BY <1>1 DEF LabelInit
    <3>4. label \in [Scopes -> LabelKey \cup {Absent, NoDek}]
      BY <1>1 DEF LabelInit
    <3> QED
      BY <1>0, <1>1, <2>1, <3>1, <3>2, <3>3, <3>4 DEF LabelInit, LabelInv, LabelTypeOK
<1>2. ASSUME LabelInv, [LabelNext]_labelVars PROVE LabelInv'
  <2>0. /\ LabelInv /\ LabelTypeOK /\ reader \in [Readers -> ReadRequest] /\ begun \in Nat
        /\ label \in [Scopes -> LabelKey \cup {Absent, NoDek}] /\ record \in Kept \cup {Absent}
        /\ \A q \in Readers : ReadIsCleared(reader[q], begun)
    BY <1>2 DEF LabelInv
  <2>1. ASSUME NEW s \in Scopes, CreateAccessLabel(s) PROVE LabelInv'
    <3>1. \A x \in Scopes : label'[x] = IF x = s THEN NoDek ELSE label[x]
      BY <2>0, <2>1 DEF CreateAccessLabel
    <3>2. record # Absent /\ ~rekeyed => label'[record.scope] = label[record.scope]
      BY <1>0, <2>0, <2>1, <3>1 DEF CreateAccessLabel, LabelInv, Kept
    <3>3. \A q \in Readers : ReadIsCleared(reader[q], begun)'
      <4> SUFFICES ASSUME NEW q \in Readers PROVE ReadIsCleared(reader[q], begun)'
        OBVIOUS
      <4>0. reader[q] \in ReadRequest /\ ReadIsCleared(reader[q], begun)
        BY <2>0
      <4>1. reader[q].pc = "fetched" /\ ~rekeyed => label'[reader[q].scope] = label[reader[q].scope]
        <5>1. reader[q].pc = "fetched" /\ ~rekeyed => label[reader[q].scope] \in LabelKey /\ reader[q].scope \in Scopes
          BY <1>0, <4>0 DEF ReadIsCleared, ReadRequest, Kept
        <5> QED
          BY <1>0, <2>1, <3>1, <5>1 DEF CreateAccessLabel
      <4> QED
        BY <2>0, <2>1, <4>1 DEF CreateAccessLabel, ReadIsCleared
    <3> QED
      BY <1>0, <2>0, <2>1, <3>1, <3>2, <3>3 DEF CreateAccessLabel, LabelInv, LabelTypeOK
  <2>2. ASSUME NEW s \in Scopes, CreateLabelContentKey(s) PROVE LabelInv'
    <3> DEFINE k == [scope |-> s, id |-> IF remote THEN deks' ELSE 0]
    <3>1. deks' \in 0 .. MaxDek /\ k \in [scope : {s}, id : 0 .. MaxDek] /\ k \in LabelKey
          /\ (~remote => k.id = 0)
      BY <1>0, <2>0, <2>2 DEF CreateLabelContentKey, LabelInv, LabelKey
    <3>2. /\ \A x \in Scopes : label'[x] = IF x = s THEN k ELSE label[x]
          /\ label' \in [Scopes -> LabelKey \cup {Absent, NoDek}]
      BY <2>0, <2>2, <3>1 DEF CreateLabelContentKey
    <3>3. ~rekeyed' /\ label[s] \in LabelKey => label[s] = k
      <4>1. ASSUME ~rekeyed', label[s] \in LabelKey PROVE label[s] = k
        <5>1. ~remote /\ ~rekeyed
          BY <1>0, <2>2, <4>1 DEF CreateLabelContentKey
        <5>2. label[s].id = 0 /\ label[s].scope = s
          BY <1>0, <2>0, <4>1, <5>1 DEF LabelInv, LabelTypeOK
        <5>3. label[s] = [scope |-> label[s].scope, id |-> label[s].id]
          BY <4>1 DEF LabelKey
        <5> QED
          BY <5>1, <5>2, <5>3
      <4> QED
        BY <4>1
    <3> HIDE DEF k
    <3>4. ~rekeyed' => ~rekeyed
      BY <2>2 DEF CreateLabelContentKey
    <3>5. record # Absent /\ ~rekeyed' => record.key = label'[record.scope]
      BY <1>0, <2>0, <3>2, <3>3, <3>4 DEF LabelInv, Kept
    <3>6. \A q \in Readers : ReadIsCleared(reader[q], begun)'
      <4> SUFFICES ASSUME NEW q \in Readers PROVE ReadIsCleared(reader[q], begun)'
        OBVIOUS
      <4>0. reader[q] \in ReadRequest /\ ReadIsCleared(reader[q], begun)
        BY <2>0
      <4>1. reader[q].pc = "fetched" /\ ~rekeyed' => label'[reader[q].scope] = label[reader[q].scope]
        <5>1. reader[q].pc = "fetched" /\ ~rekeyed => label[reader[q].scope] \in LabelKey /\ reader[q].scope \in Scopes
          BY <1>0, <4>0 DEF ReadIsCleared, ReadRequest, Kept
        <5> QED
          BY <3>2, <3>3, <3>4, <5>1
      <4> QED
        BY <2>0, <2>2, <3>4, <4>1 DEF CreateLabelContentKey, ReadIsCleared
    <3>7. UNCHANGED <<remote, grants, record, reader, revoked, begun>>
      BY <2>2 DEF CreateLabelContentKey
    <3>8. \A x \in Scopes : label'[x] \in {Absent, NoDek} \cup [scope : {x}, id : 0 .. MaxDek]
      BY <2>0, <3>1, <3>2 DEF LabelTypeOK
    <3>9. ~remote => \A x \in Scopes : label'[x] \in LabelKey => label'[x].id = 0
      BY <2>0, <3>1, <3>2 DEF LabelInv
    <3> QED
      BY <2>0, <3>1, <3>2, <3>5, <3>6, <3>7, <3>8, <3>9 DEF LabelInv, LabelTypeOK
  <2>3. ASSUME NEW u \in Holders, NEW s \in Scopes, GrantUserLabel(u, s) PROVE LabelInv'
    <3>1. \A q \in Readers : ReadIsCleared(reader[q], begun)'
      BY <2>0, <2>3 DEF GrantUserLabel, ReadIsCleared
    <3> QED
      BY <2>0, <2>3, <3>1 DEF GrantUserLabel, LabelInv, LabelTypeOK
  <2>4. ASSUME NEW u \in Holders, NEW s \in Scopes, RevokeUserLabel(u, s) PROVE LabelInv'
    <3>1. \A g \in Holders \X Scopes : revoked'[g] = IF g = <<u, s>> THEN begun ELSE revoked[g]
      BY <2>0, <2>4 DEF RevokeUserLabel, LabelInv
    <3>2. \A q \in Readers : ReadIsCleared(reader[q], begun)'
      <4> SUFFICES ASSUME NEW q \in Readers PROVE ReadIsCleared(reader[q], begun)'
        OBVIOUS
      <4>1. reader[q].pc \in {"cleared", "fetched", "read"} /\ reader[q].user # Admin =>
                <<reader[q].user, reader[q].scope>> \in Holders \X Scopes
        BY <2>0 DEF ReadIsCleared, ReadRequest
      <4>2. UNCHANGED <<reader, begun, label, rekeyed>> /\ grants' = grants \ {<<u, s>>}
        BY <2>4 DEF RevokeUserLabel
      <4>3. reader[q].pc \in {"cleared", "fetched", "read"} /\ reader[q].user # Admin =>
                <<reader[q].user, reader[q].scope>> \in grants'
                \/ revoked'[<<reader[q].user, reader[q].scope>>] >= reader[q].at
        BY <2>0, <3>1, <4>1, <4>2 DEF ReadIsCleared
      <4> QED
        BY <2>0, <4>2, <4>3 DEF ReadIsCleared
    <3>3. revoked' \in [Holders \X Scopes -> Nat]
      BY <2>0, <2>4 DEF RevokeUserLabel, LabelInv
    <3> QED
      BY <2>0, <2>4, <3>2, <3>3 DEF RevokeUserLabel, LabelInv, LabelTypeOK
  <2>5. ASSUME NEW s \in Scopes, WriteLabeledGroundTruth(s) PROVE LabelInv'
    <3> DEFINE n == IF record = Absent THEN 1 ELSE record.content + 1
               w == [content |-> n, key |-> label[s], scope |-> IF record = Absent THEN s ELSE record.scope]
    <3>1. n \in 1 .. MaxContent /\ label[s] \in LabelKey
      BY <1>0, <2>0, <2>5 DEF WriteLabeledGroundTruth, GetAccessLabel, Kept
    <3>2. w \in Kept /\ w.key = label[s] /\ w.content \in 1 .. MaxContent /\ w.scope \in Scopes
          /\ (w.scope = s \/ (record # Absent /\ record.scope # s))
      BY <1>0, <2>0, <3>1 DEF Kept
    <3>3. record' = w /\ UNCHANGED <<remote, deks, label, grants, reader, revoked, begun>>
          /\ rekeyed' = (rekeyed \/ (record # Absent /\ record.scope # s))
      BY <2>5 DEF WriteLabeledGroundTruth
    <3> HIDE DEF w, n
    <3>4. \A q \in Readers : ReadIsCleared(reader[q], begun)'
      BY <2>0, <3>3 DEF ReadIsCleared
    <3>5. ~rekeyed' => w.key = label[w.scope]
      BY <3>2, <3>3
    <3> QED
      BY <2>0, <3>2, <3>3, <3>4, <3>5 DEF LabelInv, LabelTypeOK
  <2>6. ASSUME NEW q \in Readers, NEW r \in ReadRequest, reader' = [reader EXCEPT ![q] = r],
               begun' \in Nat, begun <= begun', ReadIsCleared(r, begun'),
               UNCHANGED <<remote, deks, label, grants, record, revoked, rekeyed>>
        PROVE  LabelInv'
    <3>1. \A o \in Readers : reader'[o] = IF o = q THEN r ELSE reader[o]
      BY <2>0, <2>6
    <3>2. reader' \in [Readers -> ReadRequest]
      BY <2>0, <2>6
    <3>3. \A o \in Readers : ReadIsCleared(reader[o], begun)'
      <4> SUFFICES ASSUME NEW o \in Readers PROVE ReadIsCleared(reader[o], begun)'
        OBVIOUS
      <4>1. CASE o = q
        <5>1. reader'[o] = r
          BY <3>1, <4>1
        <5> QED
          BY <2>6, <5>1 DEF ReadIsCleared
      <4>2. CASE o # q
        <5>1. reader'[o] = reader[o] /\ reader[o].at \in Nat
          BY <2>0, <3>1, <4>2 DEF ReadRequest
        <5> QED
          BY <2>0, <2>6, <5>1 DEF ReadIsCleared
      <4> QED
        BY <4>1, <4>2
    <3>4. \A o \in Readers : reader'[o].pc \in {"quiet", "cleared", "fetched", "read", "denied", "missing", "failed"}
      BY <3>2 DEF ReadRequest
    <3> QED
      BY <2>0, <2>6, <3>2, <3>3, <3>4 DEF LabelInv, LabelTypeOK
  <2>7. ASSUME NEW q \in Readers, NEW u \in Holders, NEW s \in Scopes, BeginRead(q, u, s) PROVE LabelInv'
    <3>0. PICK r : r = [pc |-> IF UserHasLabel(u, s) THEN "cleared" ELSE "denied",
                        user |-> u, scope |-> s, got |-> Absent, key |-> NoDek, at |-> begun + 1]
      OBVIOUS
    <3>1. r \in ReadRequest /\ r.user = u /\ r.scope = s /\ r.at = begun + 1
          /\ ((r.pc = "cleared" /\ UserHasLabel(u, s)) \/ r.pc = "denied")
      BY <2>0, <3>0 DEF ReadRequest
    <3>2. reader' = [reader EXCEPT ![q] = r] /\ begun' = begun + 1
          /\ UNCHANGED <<remote, deks, label, grants, record, revoked, rekeyed>>
      BY <2>7, <3>0 DEF BeginRead
    <3>3. ReadIsCleared(r, begun')
      BY <2>0, <3>1, <3>2 DEF ReadIsCleared, UserHasLabel
    <3>4. begun' \in Nat /\ begun <= begun'
      BY <2>0, <3>2
    <3>5. UNCHANGED <<remote, deks, label, grants, record, revoked, rekeyed>>
      BY <3>2
    <3>6. r \in ReadRequest /\ reader' = [reader EXCEPT ![q] = r]
      BY <3>1, <3>2
    <3> QED
      BY <2>6, <3>3, <3>4, <3>5, <3>6, Zenon
  <2>8. ASSUME NEW q \in Readers, NEW s \in Scopes, BeginReadAsSuperuser(q, s) PROVE LabelInv'
    <3>0. PICK r : r = [pc |-> IF GetAccessLabel(s) THEN "cleared" ELSE "missing", user |-> Admin,
                        scope |-> s, got |-> Absent, key |-> label[s], at |-> begun + 1]
      OBVIOUS
    <3>1. r \in ReadRequest /\ r.user = Admin /\ r.scope = s /\ r.at = begun + 1 /\ r.pc \in {"cleared", "missing"}
      BY <2>0, <3>0 DEF ReadRequest
    <3>2. reader' = [reader EXCEPT ![q] = r] /\ begun' = begun + 1
          /\ UNCHANGED <<remote, deks, label, grants, record, revoked, rekeyed>>
      BY <2>8, <3>0 DEF BeginReadAsSuperuser
    <3>3. ReadIsCleared(r, begun')
      BY <2>0, <3>1, <3>2 DEF ReadIsCleared
    <3>4. begun' \in Nat /\ begun <= begun'
      BY <2>0, <3>2
    <3>5. UNCHANGED <<remote, deks, label, grants, record, revoked, rekeyed>>
      BY <3>2
    <3>6. r \in ReadRequest /\ reader' = [reader EXCEPT ![q] = r]
      BY <3>1, <3>2
    <3> QED
      BY <2>6, <3>3, <3>4, <3>5, <3>6, Zenon
  <2>9. ASSUME NEW q \in Readers, FetchRecord(q) PROVE LabelInv'
    <3>0. PICK o, r : /\ o = reader[q]
                      /\ r = [o EXCEPT !.pc = IF record # Absent /\ record.scope = o.scope THEN "fetched" ELSE "missing",
                                       !.got = record]
      OBVIOUS
    <3>1. o \in ReadRequest /\ ReadIsCleared(o, begun) /\ o.pc = "cleared"
      BY <2>0, <2>9, <3>0 DEF FetchRecord
    <3>2. r \in ReadRequest /\ r.user = o.user /\ r.scope = o.scope /\ r.at = o.at /\ r.got = record
          /\ ((r.pc = "fetched" /\ record # Absent /\ record.scope = o.scope) \/ r.pc = "missing")
      BY <2>0, <3>0, <3>1 DEF ReadRequest
    <3>3. reader' = [reader EXCEPT ![q] = r]
          /\ UNCHANGED <<remote, deks, label, grants, record, revoked, begun, rekeyed>>
      BY <2>0, <2>9, <3>0 DEF FetchRecord
    <3>4. ReadIsCleared(r, begun')
      BY <2>0, <3>1, <3>2, <3>3 DEF ReadIsCleared, LabelInv
    <3>5. begun' \in Nat /\ begun <= begun'
      BY <2>0, <3>3
    <3>6. UNCHANGED <<remote, deks, label, grants, record, revoked, rekeyed>>
      BY <3>3
    <3>7. r \in ReadRequest /\ reader' = [reader EXCEPT ![q] = r]
      BY <3>2, <3>3
    <3> QED
      BY <2>6, <3>4, <3>5, <3>6, <3>7, Zenon
  <2>10. ASSUME NEW q \in Readers, DecryptLabeledContent(q) PROVE LabelInv'
    <3>0. PICK o, p, r : /\ o = reader[q] /\ r = [o EXCEPT !.pc = p]
                         /\ p = IF o.got.key = UnwrapLabelDek(q) THEN "read" ELSE "failed"
      OBVIOUS
    <3>a. p = "read" \/ (p = "failed" /\ (o.user # Admin => o.got.key # label[o.scope]))
      BY <3>0 DEF UnwrapLabelDek
    <3>1. o \in ReadRequest /\ ReadIsCleared(o, begun) /\ o.pc = "fetched"
      BY <2>0, <2>10, <3>0 DEF DecryptLabeledContent
    <3>2. r \in ReadRequest /\ r.user = o.user /\ r.scope = o.scope /\ r.at = o.at
          /\ (r.pc = "read" \/ (r.pc = "failed" /\ (o.user # Admin => o.got.key # label[o.scope])))
      BY <3>0, <3>1, <3>a DEF ReadRequest
    <3>3. reader' = [reader EXCEPT ![q] = r]
          /\ UNCHANGED <<remote, deks, label, grants, record, revoked, begun, rekeyed>>
      BY <2>0, <2>10, <3>0 DEF DecryptLabeledContent
    <3>4. ReadIsCleared(r, begun')
      BY <2>0, <3>1, <3>2, <3>3 DEF ReadIsCleared
    <3>5. begun' \in Nat /\ begun <= begun'
      BY <2>0, <3>3
    <3>6. UNCHANGED <<remote, deks, label, grants, record, revoked, rekeyed>>
      BY <3>3
    <3>7. r \in ReadRequest /\ reader' = [reader EXCEPT ![q] = r]
      BY <3>2, <3>3
    <3> QED
      BY <2>6, <3>4, <3>5, <3>6, <3>7, Zenon
  <2>11. CASE UNCHANGED labelVars
    <3>1. \A q \in Readers : ReadIsCleared(reader[q], begun)'
      BY <2>0, <2>11 DEF labelVars, ReadIsCleared
    <3> QED
      BY <2>0, <2>11, <3>1 DEF labelVars, LabelInv, LabelTypeOK
  <2>12. ASSUME NEW a \in Holders \cup {Admin}, NEW q \in Readers, NEW s \in Scopes, GetGroundTruth(a, q, s)
         PROVE  LabelInv'
    BY <2>7, <2>8, <2>12 DEF GetGroundTruth, IsSuperuser
  <2> QED
    BY <1>2, <2>1, <2>2, <2>3, <2>4, <2>5, <2>9, <2>10, <2>11, <2>12
    DEF LabelNext, PostLabel, PostContentKey, PostGrant, DeleteGrant, PostGroundTruth
<1> QED
  BY <1>1, <1>2

(* The invariant says what is promised of the labels.                       *)
LEMMA LabelPromise == LabelInv => LabelTypeOK /\ NoReadAfterRevocation /\ ReadableUntilRekeyed
  BY DEF LabelInv, ReadIsCleared, NoReadAfterRevocation, ReadableUntilRekeyed

--------------------------------------------------------------------------------
(* Tokens in place of names.                                                *)

IngestCall == [pc : {"idle", "registering", "done"}, tenant : Tenants \cup {NoName},
               names : SUBSET Names, text : SUBSET People]
Entry == [org : Tenants, name : Names]
ResolveCall == [pc : {"idle", "fetched", "answered", "missing", "failed"},
                token : Tokens \cup {NoName}, found : Entry \cup {NoName}]

(* The token of a person named in a text that is or will be returned is in  *)
(* the dictionary, or one of the names still to be registered stands for it.*)
TextIsCovered(c) ==
    /\ c.pc # "idle" => c.tenant \in Tenants
    /\ c.pc = "idle" => c.text = {}
    /\ c.pc = "done" => c.names = {}
    /\ \A p \in c.text : \/ dict[digest[<<c.tenant, p>>]] # NoName
                         \/ \E n \in c.names : digest[<<c.tenant, spells[n]>>] = digest[<<c.tenant, p>>]

(* A row of the dictionary stands at the token of its tenant and spelling.  *)
IdentityInv ==
    /\ IdentityTypeOK /\ ingest \in [Ingests -> IngestCall] /\ resolve \in [Resolves -> ResolveCall]
    /\ \A k \in Tokens : dict[k] # NoName => digest[<<dict[k].org, spells[dict[k].name]>>] = k
    /\ \A i \in Ingests : TextIsCovered(ingest[i])
    /\ AnswerIsAudited

(* The invariant of the dictionary is inductive, and a step never changes   *)
(* what a token resolves to.                                                *)
LEMMA IdentitySteps ==
    /\ IdentityInit => IdentityInv
    /\ IdentityInv /\ [IdentityNext]_identityVars =>
          IdentityInv' /\ \A k \in Tokens : dict[k] # NoName => dict'[k] = dict[k]
<1>0. NoName \notin Entry
  BY IdentityAssumption DEF Entry
<1>1. ASSUME IdentityInit PROVE IdentityInv
  <2>1. IdleIngest \in IngestCall /\ IdleIngest.pc = "idle" /\ IdleIngest.text = {}
        /\ IdleResolve \in ResolveCall /\ IdleResolve.pc = "idle"
    BY DEF IdleIngest, IngestCall, IdleResolve, ResolveCall
  <2>2. /\ ingest \in [Ingests -> IngestCall] /\ resolve \in [Resolves -> ResolveCall]
        /\ \A i \in Ingests : ingest[i] = IdleIngest
        /\ \A q \in Resolves : resolve[q] = IdleResolve
    BY <1>1, <2>1 DEF IdentityInit
  <2>3. \A i \in Ingests : TextIsCovered(ingest[i])
    BY <2>1, <2>2 DEF TextIsCovered
  <2>4. AnswerIsAudited
    BY <2>1, <2>2 DEF AnswerIsAudited
  <2>5. /\ dict \in [Tokens -> Entry \cup {NoName}] /\ (\A k \in Tokens : dict[k] = NoName)
        /\ spells \in [Names -> People] /\ digest \in [Tenants \X People -> Tokens]
    BY <1>1 DEF IdentityInit
  <2>6. IdentityTypeOK
    BY <2>1, <2>2, <2>5 DEF IdentityTypeOK, Entry
  <2> QED
    BY <2>2, <2>3, <2>4, <2>5, <2>6 DEF IdentityInv
<1>2. ASSUME IdentityInv, [IdentityNext]_identityVars
      PROVE  IdentityInv' /\ \A k \in Tokens : dict[k] # NoName => dict'[k] = dict[k]
  <2>0. /\ IdentityInv /\ IdentityTypeOK /\ ingest \in [Ingests -> IngestCall]
        /\ resolve \in [Resolves -> ResolveCall] /\ spells \in [Names -> People]
        /\ digest \in [Tenants \X People -> Tokens] /\ dict \in [Tokens -> Entry \cup {NoName}]
        /\ \A i \in Ingests : TextIsCovered(ingest[i])
    BY <1>2 DEF IdentityInv, IdentityTypeOK, Entry
  <2> DEFINE Stays == \A k \in Tokens : dict[k] # NoName => dict'[k] = dict[k]
  <2>1. ASSUME NEW i \in Ingests, NEW c \in IngestCall, ingest' = [ingest EXCEPT ![i] = c], TextIsCovered(c),
               UNCHANGED <<spells, digest, dict, resolve, auditLog>>
        PROVE  IdentityInv' /\ Stays
    <3>1. /\ ingest' \in [Ingests -> IngestCall]
          /\ \A j \in Ingests : ingest'[j] = IF j = i THEN c ELSE ingest[j]
      BY <2>0, <2>1
    <3>2. \A j \in Ingests : TextIsCovered(ingest[j])'
      <4> SUFFICES ASSUME NEW j \in Ingests PROVE TextIsCovered(ingest[j])'
        OBVIOUS
      <4>1. PICK o : o = ingest'[j]
        OBVIOUS
      <4>2. TextIsCovered(o)
        BY <2>0, <2>1, <3>1, <4>1
      <4> QED
        BY <2>1, <4>1, <4>2 DEF TextIsCovered
    <3>3. \A j \in Ingests : ingest'[j].pc \in {"idle", "registering", "done"} /\ ingest'[j].text \subseteq People
      BY <3>1 DEF IngestCall
    <3> QED
      BY <2>0, <2>1, <3>1, <3>2, <3>3 DEF IdentityInv, IdentityTypeOK, AnswerIsAudited
  <2>2. ASSUME NEW i \in Ingests, NEW t \in Tenants, NEW S \in SUBSET Names, Tokenise(i, t, S)
        PROVE  IdentityInv' /\ Stays
    <3>1. PICK first \in SUBSET S :
              /\ \A m \in S : \E n \in first : DeriveToken(t, m) = DeriveToken(t, n)
              /\ ingest' = [ingest EXCEPT ![i] = [pc |-> "registering", tenant |-> t, names |-> first,
                                                  text |-> {Canonicalise(n) : n \in S}]]
      BY <2>2 DEF Tokenise
    <3>2. PICK c : c = [pc |-> "registering", tenant |-> t, names |-> first,
                        text |-> {Canonicalise(n) : n \in S}]
      OBVIOUS
    <3>3. \A n \in S : Canonicalise(n) = spells[n] /\ Canonicalise(n) \in People
      BY <2>0 DEF Canonicalise
    <3>4. /\ c \in IngestCall /\ c.pc = "registering" /\ c.tenant = t /\ c.names = first
          /\ c.text = {Canonicalise(n) : n \in S}
      BY <3>1, <3>2, <3>3 DEF IngestCall
    <3>5. \A p \in c.text : \E n \in c.names : digest[<<c.tenant, spells[n]>>] = digest[<<c.tenant, p>>]
      <4> SUFFICES ASSUME NEW m \in S
                   PROVE  \E n \in first : digest[<<t, spells[n]>>] = digest[<<t, Canonicalise(m)>>]
        BY <3>4
      <4>1. PICK n \in first : DeriveToken(t, m) = DeriveToken(t, n)
        BY <3>1
      <4> QED
        BY <4>1 DEF DeriveToken, Canonicalise
    <3>6. ingest' = [ingest EXCEPT ![i] = c] /\ UNCHANGED <<spells, digest, dict, resolve, auditLog>>
      BY <2>2, <3>1, <3>2 DEF Tokenise
    <3>7. TextIsCovered(c)
      BY <3>4, <3>5 DEF TextIsCovered
    <3> QED
      BY <2>1, <3>4, <3>6, <3>7
  <2>3. ASSUME NEW i \in Ingests, NEW n \in Names, Register(i, n) PROVE IdentityInv' /\ Stays
    <3>0. PICK o, k, row, v : /\ o = ingest[i] /\ k = DeriveToken(o.tenant, n) /\ row = [org |-> o.tenant, name |-> n]
                              /\ v = IF dict[k] = NoName THEN row ELSE dict[k]
      OBVIOUS
    <3>1. /\ o \in IngestCall /\ o.pc = "registering" /\ n \in o.names /\ TextIsCovered(o)
          /\ UNCHANGED <<spells, digest, resolve, auditLog>> /\ dict' = [dict EXCEPT ![k] = v]
          /\ ingest' = [ingest EXCEPT ![i] = [o EXCEPT !.names = @ \ {n}]]
      BY <2>0, <2>3, <3>0 DEF Register
    <3>2. o.tenant \in Tenants /\ o.text \subseteq People
      BY <3>1 DEF TextIsCovered, IngestCall
    <3>3. k = digest[<<o.tenant, spells[n]>>] /\ k \in Tokens
      BY <2>0, <3>0, <3>2 DEF DeriveToken, Canonicalise
    <3>4. row \in Entry /\ row.org = o.tenant /\ row.name = n
      BY <3>0, <3>2 DEF Entry
    <3>5. v \in Entry /\ v # NoName /\ digest[<<v.org, spells[v.name]>>] = k /\ (dict[k] # NoName => v = dict[k])
      BY <1>0, <2>0, <3>0, <3>3, <3>4 DEF IdentityInv
    <3>6. /\ dict' \in [Tokens -> Entry \cup {NoName}]
          /\ \A x \in Tokens : dict'[x] = IF x = k THEN v ELSE dict[x]
      BY <2>0, <3>1, <3>3, <3>5
    <3>7. \A x \in Tokens : dict[x] # NoName => dict'[x] = dict[x] /\ dict'[x] # NoName
      BY <3>5, <3>6
    <3>8. \A x \in Tokens : dict'[x] # NoName => digest[<<dict'[x].org, spells[dict'[x].name]>>] = x
      BY <2>0, <3>5, <3>6 DEF IdentityInv
    <3>9. PICK c : c = [o EXCEPT !.names = @ \ {n}]
      OBVIOUS
    <3>10. c \in IngestCall /\ c.pc = o.pc /\ c.tenant = o.tenant /\ c.text = o.text /\ c.names = o.names \ {n}
      BY <3>1, <3>9 DEF IngestCall
    <3>11. /\ ingest' \in [Ingests -> IngestCall]
           /\ \A j \in Ingests : ingest'[j] = IF j = i THEN c ELSE ingest[j]
      BY <2>0, <3>1, <3>9, <3>10
    <3>12. ASSUME NEW j \in Ingests PROVE TextIsCovered(ingest[j])'
      <4>1. PICK d, e : d = ingest[j] /\ e = ingest'[j]
        OBVIOUS
      <4>2. /\ d \in IngestCall /\ TextIsCovered(d) /\ e.pc = d.pc /\ e.tenant = d.tenant /\ e.text = d.text
            /\ e.names = IF j = i THEN d.names \ {n} ELSE d.names
        BY <2>0, <3>0, <3>10, <3>11, <4>1
      <4>3. ASSUME NEW p \in e.text
            PROVE  \/ dict'[digest[<<e.tenant, p>>]] # NoName
                   \/ \E m \in e.names : digest[<<e.tenant, spells[m]>>] = digest[<<e.tenant, p>>]
        <5>1. PICK x : x = digest[<<d.tenant, p>>]
          OBVIOUS
        <5>2. d.tenant \in Tenants /\ p \in People /\ x \in Tokens
          BY <2>0, <4>2, <4>3, <5>1 DEF TextIsCovered, IngestCall
        <5>3. CASE dict[x] # NoName
          BY <3>7, <4>2, <5>1, <5>2, <5>3
        <5>4. CASE dict[x] = NoName
          <6>1. PICK m \in d.names : digest[<<d.tenant, spells[m]>>] = x
            BY <4>2, <4>3, <5>1, <5>4 DEF TextIsCovered
          <6>2. CASE j = i /\ m = n
            <7>1. x = k
              BY <3>0, <3>3, <4>1, <6>1, <6>2
            <7> QED
              BY <3>3, <3>5, <3>6, <4>2, <5>1, <7>1
          <6>3. CASE ~(j = i /\ m = n)
            BY <4>2, <5>1, <6>1, <6>3
          <6> QED
            BY <6>2, <6>3
        <5> QED
          BY <5>3, <5>4
      <4>4. /\ e.pc # "idle" => e.tenant \in Tenants
            /\ e.pc = "idle" => e.text = {}
            /\ e.pc = "done" => e.names = {}
        BY <4>2 DEF TextIsCovered
      <4> QED
        BY <3>1, <4>1, <4>3, <4>4 DEF TextIsCovered
    <3>13. \A j \in Ingests : ingest'[j].pc \in {"idle", "registering", "done"} /\ ingest'[j].text \subseteq People
      BY <3>11 DEF IngestCall
    <3>14. IdentityTypeOK'
      BY <2>0, <3>1, <3>6, <3>13 DEF IdentityTypeOK, Entry
    <3>15. AnswerIsAudited'
      BY <2>0, <3>1 DEF IdentityInv, AnswerIsAudited
    <3> QED
      BY <2>0, <3>1, <3>7, <3>8, <3>11, <3>12, <3>14, <3>15 DEF IdentityInv
  <2>4. ASSUME NEW i \in Ingests, RegisterFails(i) PROVE IdentityInv' /\ Stays
    <3>1. PICK c : c = IdleIngest
      OBVIOUS
    <3>2. c \in IngestCall /\ TextIsCovered(c)
      BY <3>1 DEF IdleIngest, IngestCall, TextIsCovered
    <3> QED
      BY <2>1, <2>4, <3>1, <3>2 DEF RegisterFails
  <2>5. ASSUME NEW i \in Ingests, ReturnText(i) PROVE IdentityInv' /\ Stays
    <3>0. PICK o, c : o = ingest[i] /\ c = [o EXCEPT !.pc = "done"]
      OBVIOUS
    <3>1. /\ o \in IngestCall /\ o.pc = "registering" /\ o.names = {} /\ TextIsCovered(o)
          /\ ingest' = [ingest EXCEPT ![i] = c] /\ UNCHANGED <<spells, digest, dict, resolve, auditLog>>
      BY <2>0, <2>5, <3>0 DEF ReturnText
    <3>2. c \in IngestCall /\ c.pc = "done" /\ c.tenant = o.tenant /\ c.text = o.text /\ c.names = o.names
      BY <3>0, <3>1 DEF IngestCall
    <3>3. TextIsCovered(c)
      BY <3>1, <3>2 DEF TextIsCovered
    <3> QED
      BY <2>1, <3>1, <3>2, <3>3
  <2>6. ASSUME NEW q \in Resolves, NEW c \in ResolveCall, resolve' = [resolve EXCEPT ![q] = c],
               auditLog \subseteq auditLog', c.pc = "answered" => <<q, c.token>> \in auditLog',
               UNCHANGED <<spells, digest, dict, ingest>>
        PROVE  IdentityInv' /\ Stays
    <3>1. /\ resolve' \in [Resolves -> ResolveCall]
          /\ \A o \in Resolves : resolve'[o] = IF o = q THEN c ELSE resolve[o]
      BY <2>0, <2>6
    <3>2. AnswerIsAudited'
      BY <2>0, <2>6, <3>1 DEF IdentityInv, AnswerIsAudited
    <3>3. \A o \in Resolves : resolve'[o].pc \in {"idle", "fetched", "answered", "missing", "failed"}
      BY <3>1 DEF ResolveCall
    <3>4. \A i \in Ingests : TextIsCovered(ingest[i])'
      BY <2>0, <2>6 DEF TextIsCovered
    <3> QED
      BY <2>0, <2>6, <3>1, <3>2, <3>3, <3>4 DEF IdentityInv, IdentityTypeOK
  <2>7. ASSUME NEW q \in Resolves, NEW k \in Tokens, ResolveToken(q, k) PROVE IdentityInv' /\ Stays
    <3>0. PICK c : c = [pc |-> IF dict[k] = NoName THEN "missing" ELSE "fetched", token |-> k, found |-> dict[k]]
      OBVIOUS
    <3>1. c \in ResolveCall /\ c.pc # "answered"
      BY <2>0, <3>0 DEF ResolveCall
    <3> QED
      BY <2>6, <2>7, <3>0, <3>1 DEF ResolveToken
  <2>8. ASSUME NEW q \in Resolves, NEW fails \in BOOLEAN, AuditAndAnswer(q, fails) PROVE IdentityInv' /\ Stays
    <3>0. PICK o, p, c : /\ o = resolve[q] /\ c = [o EXCEPT !.pc = p]
                         /\ p = IF fails THEN "failed" ELSE "answered"
      OBVIOUS
    <3>1. o \in ResolveCall /\ p \in {"failed", "answered"}
      BY <2>0, <3>0
    <3>2. c \in ResolveCall /\ c.pc = p /\ c.token = o.token
      BY <3>0, <3>1 DEF ResolveCall
    <3>3. auditLog \subseteq auditLog' /\ (p = "answered" => <<q, o.token>> \in auditLog')
      BY <2>8, <3>0 DEF AuditAndAnswer
    <3>4. resolve' = [resolve EXCEPT ![q] = c] /\ UNCHANGED <<spells, digest, dict, ingest>>
      BY <2>8, <3>0 DEF AuditAndAnswer
    <3> QED
      BY <2>6, <3>2, <3>3, <3>4
  <2>9. ASSUME UNCHANGED identityVars PROVE IdentityInv' /\ Stays
    <3>1. \A i \in Ingests : TextIsCovered(ingest[i])'
      BY <2>0, <2>9 DEF identityVars, TextIsCovered
    <3> QED
      BY <2>0, <2>9, <3>1 DEF identityVars, IdentityInv, IdentityTypeOK, AnswerIsAudited
  <2> HIDE DEF Stays
  <2>10. IdentityInv' /\ Stays
    BY <1>2, <2>2, <2>3, <2>4, <2>5, <2>7, <2>8, <2>9 DEF IdentityNext
  <2> QED
    BY <2>10 DEF Stays
<1> QED
  BY <1>1, <1>2

(* The invariant says what is promised of the tokens.                       *)
LEMMA IdentityPromise == IdentityInv => IdentityTypeOK /\ ReturnedTextIsReversible /\ AnswerIsAudited
<1> SUFFICES ASSUME IdentityInv PROVE ReturnedTextIsReversible
  BY DEF IdentityInv
<1>1. ASSUME NEW i \in Ingests, ingest[i].pc = "done", NEW p \in ingest[i].text, NEW k, k = digest[<<ingest[i].tenant, p>>]
      PROVE  /\ dict[k] # NoName /\ DeriveToken(dict[k].org, dict[k].name) = k
             /\ OnlyOneHas(k) => dict[k].org = ingest[i].tenant /\ Canonicalise(dict[k].name) = p
  <2>1. /\ TextIsCovered(ingest[i]) /\ ingest[i].text \subseteq People
        /\ spells \in [Names -> People] /\ digest \in [Tenants \X People -> Tokens] /\ dict \in [Tokens -> Entry \cup {NoName}]
    BY DEF IdentityInv, IngestCall, IdentityTypeOK, Entry
  <2>2. ingest[i].tenant \in Tenants /\ k \in Tokens /\ dict[k] # NoName
    BY <1>1, <2>1 DEF TextIsCovered
  <2>3. dict[k].org \in Tenants /\ dict[k].name \in Names /\ spells[dict[k].name] \in People
    BY <2>1, <2>2 DEF Entry
  <2>4. digest[<<dict[k].org, spells[dict[k].name]>>] = k
    BY <2>2 DEF IdentityInv
  <2>5. OnlyOneHas(k) => dict[k].org = ingest[i].tenant /\ spells[dict[k].name] = p
    BY <1>1, <2>1, <2>2, <2>3, <2>4 DEF OnlyOneHas
  <2> QED
    BY <2>2, <2>4, <2>5 DEF DeriveToken, Canonicalise
<1> QED
  BY <1>1 DEF ReturnedTextIsReversible

--------------------------------------------------------------------------------
(* Keys and encrypted rows.                                                 *)

DataKey == [domain : Types, id : Nat]
Cell == {v \in [depth : 0 .. 1, key : DataKey \cup {NoKey}, text : 0 .. MaxEdits, by : Nat] : v.depth = 0 => v.by = 0}
StoreCall == [pc : {"idle", "derive", "write", "update"}, type : Types \cup {NoKey}, row : Rows \cup {0},
              key : DataKey \cup {NoKey}, was : Cell]
ReadRow == [row : Rows, was : Cell]

(* A stored value opens with the key in use: always with the local backend, *)
(* with any for what this run of the server encrypted.                      *)
CellOpens(t, v) ==
    /\ v.by <= epoch /\ (v.by = epoch => enabled)
    /\ backend = "local" /\ v.depth > 0 => v.key = GenerateLocal(t)
    /\ v.by = epoch /\ ~raced => v.key \in DataKey /\ v.key = cache[t]

(* A request that derives is the only one for its type, and nothing is      *)
(* cached yet; one that inserts has the key in the cache, or none; one that *)
(* updates has read a value that opens.                                     *)
CallIsCurrent(q) ==
    /\ q.pc # "idle" => q.type \in Types /\ q.row \in Rows
    /\ q.pc = "write" /\ q.key # NoKey => /\ enabled
                                          /\ backend = "local" => q.key = GenerateLocal(q.type)
                                          /\ ~raced => q.key = cache[q.type]
    /\ q.pc = "derive" => enabled /\ (~raced => cache[q.type] = NoKey)
    /\ q.pc = "update" => CellOpens(q.type, q.was)

KeysInv ==
    /\ backend \in {"local", "aws", "vault"} /\ generated \in 0 .. MaxKeys /\ epoch \in Nat \ {0}
    /\ cell \in [Types -> [Rows -> Cell]] /\ cache \in [Types -> DataKey \cup {NoKey}]
    /\ req \in [Calls -> StoreCall]
    /\ \A t \in Types : cache[t] # NoKey => cache[t].domain = t /\ (backend = "local" => cache[t] = GenerateLocal(t))
    /\ \A t \in Types, r \in Rows : CellOpens(t, cell[t][r])
    /\ \A c \in Calls : CallIsCurrent(req[c])
    /\ ~raced => \A c, d \in Calls : req[c].pc = "derive" /\ req[d].pc = "derive" /\ req[c].type = req[d].type => c = d

(* A row that is not there, is encrypted or was left in the clear by the    *)
(* server since the backfill began.                                         *)
Settled(v, t, r, b) == ~Stored(v) \/ IsEncrypted(v) \/ <<t, r>> \in b
Reached(f) == IF f.pc = "done" THEN Rows ELSE 1 .. f.cursor
Accounts(f) == f.pc # "off" /\ f.mode = "write" /\ f.read.type \in listed

(* A backfill that writes has settled the rows up to its cursor, but for    *)
(* those of the batch in hand and those it failed at; rows once settled     *)
(* stay so.                                                                 *)
FillInv ==
    /\ fill.pc \in {"off", "run", "done"} /\ fill.cursor \in 0 .. MaxRow
    /\ fill.errors \in Nat /\ DOMAIN fill = {"pc", "cursor", "read", "errors", "mode"}
    /\ fill.pc # "off" => fill.read \in [type : Types, rows : SUBSET ReadRow]
    /\ fill.pc = "done" => fill.read.rows = {}
    /\ Accounts(fill) =>
          /\ \A x \in fill.read.rows : IsEncrypted(x.was) => Settled(cell[fill.read.type][x.row], fill.read.type, x.row, bare)
          /\ fill.errors = 0 => \A r \in Reached(fill) :
                Settled(cell[fill.read.type][r], fill.read.type, r, bare) \/ \E x \in fill.read.rows : x.row = r

KeyInv == KeysInv /\ FillInv

(* The keys a backend generates.                                            *)
LEMMA Generated ==
    ASSUME KeysInv, NEW t \in Types
    PROVE  /\ KmsGenerateDataKey(backend, t) \in DataKey /\ KmsGenerateDataKey(backend, t).domain = t
           /\ GenerateLocal(t) \in DataKey /\ GenerateLocal(t).domain = t
           /\ backend = "local" => KmsGenerateDataKey(backend, t) = GenerateLocal(t)
  BY KeyStoreAssumption DEF KeysInv, KmsGenerateDataKey, GenerateLocal, GenerateAws, GenerateVault, DataKey

(* The values written are cells.                                            *)
LEMMA CellForms ==
    /\ NoKey \notin DataKey
    /\ \A v \in 0 .. MaxEdits : Plain(v) \in Cell /\ Plain(v).by = 0 /\ Plain(v).depth = 0 /\ Plain(v).text = v
    /\ Idle \in StoreCall /\ Idle.pc = "idle"
<1>1. NoKey \notin DataKey
  BY KeyStoreAssumption DEF DataKey
<1>2. \A v \in 0 .. MaxEdits : Plain(v) \in Cell /\ Plain(v).by = 0 /\ Plain(v).depth = 0 /\ Plain(v).text = v
  BY DEF Plain, Cell
<1>3. Plain(0) \in Cell
  BY <1>2, KeyStoreAssumption
<1>4. Idle \in StoreCall /\ Idle.pc = "idle"
  BY <1>3 DEF Idle, StoreCall
<1> QED
  BY <1>1, <1>2, <1>4

(* One request moves on, and nothing else.                                  *)
LEMMA StoreMove ==
    ASSUME KeysInv, NEW c \in Calls, NEW q \in StoreCall, req' = [req EXCEPT ![c] = q],
           UNCHANGED <<backend, enabled, generated, cell, cache, epoch>>, ~raced' => ~raced,
           q.pc # "idle" => q.type \in Types /\ q.row \in Rows,
           q.pc = "write" /\ q.key # NoKey => enabled /\ q.key = cache[q.type],
           q.pc = "derive" => enabled /\ cache[q.type] = NoKey,
           q.pc = "derive" /\ ~raced' => \A d \in Calls \ {c} : ~(req[d].pc = "derive" /\ req[d].type = q.type),
           q.pc = "update" => CellOpens(q.type, q.was)
    PROVE  KeysInv'
<1>1. /\ req' \in [Calls -> StoreCall]
      /\ \A d \in Calls : req'[d] = IF d = c THEN q ELSE req[d]
  BY DEF KeysInv
<1>2. q.pc = "write" /\ q.key # NoKey /\ backend = "local" => q.key = GenerateLocal(q.type)
  BY DEF KeysInv
<1>0. ASSUME NEW t, NEW v, CellOpens(t, v) PROVE CellOpens(t, v)'
  BY <1>0 DEF CellOpens, GenerateLocal
<1>3. \A d \in Calls : CallIsCurrent(req[d])'
  <2> SUFFICES ASSUME NEW d \in Calls PROVE CallIsCurrent(req[d])'
    OBVIOUS
  <2>1. CASE d = c
    <3>1. req'[d] = q /\ GenerateLocal(q.type)' = GenerateLocal(q.type)
      BY <1>1, <2>1 DEF GenerateLocal
    <3>2. q.pc = "update" => CellOpens(q.type, q.was)'
      BY <1>0
    <3> QED
      BY <1>2, <3>1, <3>2 DEF CallIsCurrent
  <2>2. CASE d # c
    <3>1. req'[d] = req[d] /\ CallIsCurrent(req[d])
      BY <1>1, <2>2 DEF KeysInv
    <3>2. req[d].pc = "update" => CellOpens(req[d].type, req[d].was)
      BY <3>1 DEF CallIsCurrent
    <3> QED
      BY <3>1, <3>2 DEF CallIsCurrent, GenerateLocal, CellOpens
  <2> QED
    BY <2>1, <2>2
<1>4. \A t \in Types, r \in Rows : CellOpens(t, cell[t][r])'
  BY DEF KeysInv, CellOpens, GenerateLocal
<1>5. ~raced' => \A a, d \in Calls : req'[a].pc = "derive" /\ req'[d].pc = "derive" /\ req'[a].type = req'[d].type => a = d
  BY <1>1 DEF KeysInv
<1>6. \A t \in Types : cache'[t] # NoKey => cache'[t].domain = t /\ (backend' = "local" => cache'[t] = GenerateLocal(t)')
  BY DEF KeysInv, GenerateLocal
<1> QED
  BY <1>1, <1>3, <1>4, <1>5, <1>6 DEF KeysInv

(* Rows are overwritten one at a time.                                      *)
LEMMA CellMove ==
    ASSUME KeysInv, NEW t \in Types, NEW r \in Rows, NEW v \in Cell, cell' = [cell EXCEPT ![t][r] = v],
           UNCHANGED <<backend, enabled, cache, epoch, raced>>, CellOpens(t, v)
    PROVE  /\ cell' \in [Types -> [Rows -> Cell]]
           /\ \A a \in Types, b \in Rows : cell'[a][b] = IF a = t /\ b = r THEN v ELSE cell[a][b]
           /\ \A a \in Types, b \in Rows : CellOpens(a, cell[a][b])'
<1>1. cell \in [Types -> [Rows -> Cell]]
  BY DEF KeysInv
<1>2. /\ cell' \in [Types -> [Rows -> Cell]]
      /\ \A a \in Types, b \in Rows : cell'[a][b] = IF a = t /\ b = r THEN v ELSE cell[a][b]
  BY <1>1
<1>3. ASSUME NEW a \in Types, NEW b \in Rows PROVE CellOpens(a, cell[a][b])'
  <2>1. CASE a = t /\ b = r
    <3>1. cell'[a][b] = v
      BY <1>2, <2>1
    <3> QED
      BY <2>1, <3>1 DEF CellOpens, GenerateLocal
  <2>2. CASE ~(a = t /\ b = r)
    <3>1. cell'[a][b] = cell[a][b] /\ CellOpens(a, cell[a][b])
      BY <1>2, <2>2 DEF KeysInv
    <3> QED
      BY <3>1 DEF CellOpens, GenerateLocal
  <2> QED
    BY <2>1, <2>2
<1> QED
  BY <1>2, <1>3

(* Rows once settled stay so, and the backfill keeps its account.           *)
LEMMA FillStays ==
    ASSUME FillInv, fill' = fill, listed' = listed,
           \A t \in Types, r \in Rows : Settled(cell[t][r], t, r, bare) => Settled(cell'[t][r], t, r, bare')
    PROVE  FillInv'
<1>1. ASSUME Accounts(fill)
      PROVE  /\ \A x \in fill.read.rows :
                   IsEncrypted(x.was) => Settled(cell'[fill.read.type][x.row], fill.read.type, x.row, bare')
             /\ fill.errors = 0 => \A r \in Reached(fill) :
                   Settled(cell'[fill.read.type][r], fill.read.type, r, bare') \/ \E x \in fill.read.rows : x.row = r
  <2>1. fill.read.type \in Types /\ fill.read.rows \subseteq ReadRow /\ Reached(fill) \subseteq Rows
    BY <1>1, KeyStoreAssumption DEF FillInv, Rows, Reached, Accounts
  <2>2. \A x \in fill.read.rows : IsEncrypted(x.was) => Settled(cell'[fill.read.type][x.row], fill.read.type, x.row, bare')
    BY <1>1, <2>1 DEF FillInv, ReadRow
  <2> QED
    BY <1>1, <2>1, <2>2 DEF FillInv
<1>2. Accounts(fill)' <=> Accounts(fill)
  BY DEF Accounts
<1>3. Reached(fill)' = Reached(fill)
  BY DEF Reached, Rows
<1> QED
  BY <1>1, <1>2, <1>3 DEF FillInv, IsEncrypted, Settled, Stored

(* Nothing is cached or under way.                                          *)
LEMMA KeyStart == KeyInit => KeyInv
<1> SUFFICES ASSUME KeyInit PROVE KeyInv
  OBVIOUS
<1>1. {Plain(0), Plain(1)} \subseteq Cell /\ \A v \in {Plain(0), Plain(1)} : v.by = 0 /\ v.depth = 0
  BY CellForms, KeyStoreAssumption
<1>2. cell \in [Types -> [Rows -> Cell]] /\ \A t \in Types, r \in Rows : cell[t][r] \in {Plain(0), Plain(1)}
  BY <1>1 DEF KeyInit
<1>3. req \in [Calls -> StoreCall] /\ \A c \in Calls : req[c].pc = "idle"
  BY CellForms DEF KeyInit
<1>4. \A c \in Calls : CallIsCurrent(req[c])
  BY <1>3 DEF CallIsCurrent
<1>5. \A t \in Types, r \in Rows : CellOpens(t, cell[t][r])
  BY <1>1, <1>2 DEF CellOpens, KeyInit
<1>6. cache \in [Types -> DataKey \cup {NoKey}] /\ \A t \in Types : cache[t] = NoKey
  BY DEF KeyInit
<1>7. KeysInv
  BY <1>2, <1>3, <1>4, <1>5, <1>6, KeyStoreAssumption DEF KeysInv, KeyInit
<1>8. FillInv
  BY KeyStoreAssumption DEF KeyInit, NoFill, FillInv, Accounts
<1> QED
  BY <1>7, <1>8 DEF KeyInv

(* A request that has done its last step leaves the others as they are.     *)
LEMMA CallsRest ==
    ASSUME KeysInv, NEW c \in Calls, req' = [req EXCEPT ![c] = Idle],
           UNCHANGED <<backend, enabled, cache, epoch, raced>>
    PROVE  /\ req' \in [Calls -> StoreCall] /\ \A d \in Calls : CallIsCurrent(req[d])'
           /\ ~raced' => \A a, d \in Calls : req'[a].pc = "derive" /\ req'[d].pc = "derive" /\ req'[a].type = req'[d].type => a = d
<1> HIDE DEF Idle
<1>1. req' \in [Calls -> StoreCall] /\ \A d \in Calls : req'[d] = IF d = c THEN Idle ELSE req[d]
  BY CellForms DEF KeysInv
<1>2. ASSUME NEW d \in Calls PROVE CallIsCurrent(req[d])'
  <2>1. CASE d = c
    BY <1>1, <2>1, CellForms DEF CallIsCurrent
  <2>2. CASE d # c
    <3>1. req'[d] = req[d] /\ CallIsCurrent(req[d])
      BY <1>1, <2>2 DEF KeysInv
    <3> QED
      BY <3>1 DEF CallIsCurrent, CellOpens, GenerateLocal
  <2> QED
    BY <2>1, <2>2
<1>3. ~raced' => \A a, d \in Calls : req'[a].pc = "derive" /\ req'[d].pc = "derive" /\ req'[a].type = req'[d].type => a = d
  BY <1>1, CellForms DEF KeysInv
<1> QED
  BY <1>1, <1>2, <1>3

(* A request writes its row and is done.                                    *)
LEMMA PutMove ==
    ASSUME KeyInv, NEW c \in Calls, NEW t \in Types, NEW r \in Rows, NEW v \in Cell, CellOpens(t, v), Put(t, r, v),
           req' = [req EXCEPT ![c] = Idle], UNCHANGED <<backend, enabled, listed, generated, cache, epoch, fill, raced>>
    PROVE  KeyInv'
<1>0. KeysInv /\ FillInv /\ cell' = [cell EXCEPT ![t][r] = v] /\ bare' = IF v.depth = 0 THEN bare \cup {<<t, r>>} ELSE bare
  BY DEF KeyInv, Put
<1>1. /\ cell' \in [Types -> [Rows -> Cell]]
      /\ \A a \in Types, b \in Rows : cell'[a][b] = IF a = t /\ b = r THEN v ELSE cell[a][b]
      /\ \A a \in Types, b \in Rows : CellOpens(a, cell[a][b])'
  BY <1>0, CellMove
<1>2. /\ req' \in [Calls -> StoreCall] /\ \A d \in Calls : CallIsCurrent(req[d])'
      /\ ~raced' => \A a, d \in Calls : req'[a].pc = "derive" /\ req'[d].pc = "derive" /\ req'[a].type = req'[d].type => a = d
  BY <1>0, CallsRest
<1>3. \A x \in Types : cache'[x] # NoKey => cache'[x].domain = x /\ (backend' = "local" => cache'[x] = GenerateLocal(x)')
  BY <1>0 DEF KeysInv, GenerateLocal
<1>4. KeysInv'
  BY <1>0, <1>1, <1>2, <1>3 DEF KeysInv
<1>5. \A a \in Types, b \in Rows : Settled(cell[a][b], a, b, bare) => Settled(cell'[a][b], a, b, bare')
  <2> SUFFICES ASSUME NEW a \in Types, NEW b \in Rows, Settled(cell[a][b], a, b, bare) PROVE Settled(cell'[a][b], a, b, bare')
    OBVIOUS
  <2>1. CASE a = t /\ b = r
    <3>1. cell'[a][b] = v /\ v.depth \in 0 .. 1
      BY <1>1, <2>1 DEF Cell
    <3>2. v.depth # 0 => v.depth > 0
      BY <3>1
    <3>3. v.depth = 0 => <<a, b>> \in bare'
      BY <1>0, <2>1
    <3> QED
      BY <3>1, <3>2, <3>3 DEF Settled, IsEncrypted
  <2>2. CASE ~(a = t /\ b = r)
    <3>1. cell'[a][b] = cell[a][b] /\ bare \subseteq bare'
      BY <1>0, <1>1, <2>2
    <3> QED
      BY <3>1 DEF Settled
  <2> QED
    BY <2>1, <2>2
<1>6. FillInv'
  BY <1>0, <1>5, FillStays
<1> QED
  BY <1>4, <1>6 DEF KeyInv

(* The requests of the server keep the invariant.                           *)
LEMMA RequestSteps ==
    ASSUME KeyInv, NEW c \in Calls,
           RequestFails(c) \/ \E t \in Types, r \in Rows : BeginInsert(c, t, r) \/ BeginUpdate(c, t, r)
    PROVE  KeyInv'
<1>0. /\ KeysInv /\ FillInv /\ cell \in [Types -> [Rows -> Cell]] /\ cache \in [Types -> DataKey \cup {NoKey}]
      /\ NoKey \notin DataKey /\ Plain(0) \in Cell
  BY CellForms, KeyStoreAssumption DEF KeyInv, KeysInv
<1>1. ASSUME NEW q \in StoreCall, req' = [req EXCEPT ![c] = q],
             UNCHANGED <<backend, enabled, listed, generated, cell, cache, epoch, fill, bare>>, ~raced' => ~raced,
             q.pc # "idle" => q.type \in Types /\ q.row \in Rows,
             q.pc = "write" /\ q.key # NoKey => enabled /\ q.key = cache[q.type],
             q.pc = "derive" => enabled /\ cache[q.type] = NoKey,
             q.pc = "derive" /\ ~raced' => \A d \in Calls \ {c} : ~(req[d].pc = "derive" /\ req[d].type = q.type),
             q.pc = "update" => CellOpens(q.type, q.was)
      PROVE  KeyInv'
  <2>1. UNCHANGED <<backend, enabled, generated, cell, cache, epoch>>
    BY <1>1
  <2>2. KeysInv'
    BY <1>0, <1>1, <2>1, StoreMove
  <2>3. FillInv'
    BY <1>0, <1>1, FillStays
  <2> QED
    BY <2>2, <2>3 DEF KeyInv
<1>2. CASE RequestFails(c)
  <2>1. PICK q \in StoreCall : q = Idle
    BY CellForms
  <2>2. /\ req' = [req EXCEPT ![c] = q] /\ q.pc = "idle"
        /\ UNCHANGED <<backend, enabled, listed, generated, cell, cache, epoch, fill, bare>> /\ raced' = raced
    BY <1>2, <2>1, CellForms DEF RequestFails
  <2> QED
    BY <1>1, <2>2
<1>3. ASSUME NEW t \in Types, NEW r \in Rows, BeginInsert(c, t, r) PROVE KeyInv'
  <2>1. PICK q : q = [pc |-> IF Seals(t) /\ cache[t] = NoKey THEN "derive" ELSE "write", type |-> t,
                      row |-> r, key |-> IF Seals(t) THEN cache[t] ELSE NoKey, was |-> Plain(0)]
    OBVIOUS
  <2>2. /\ req' = [req EXCEPT ![c] = q]
        /\ raced' = (raced \/ \E d \in Calls : req[d].pc = "derive" /\ req[d].type = t)
        /\ UNCHANGED <<backend, enabled, listed, generated, cell, cache, epoch, fill, bare>>
    BY <1>3, <2>1 DEF BeginInsert
  <2>3. cache[t] \in DataKey \cup {NoKey}
    BY <1>0
  <2>4. /\ q \in StoreCall /\ q.type = t /\ q.row = r /\ q.pc \in {"derive", "write"}
        /\ q.pc = "derive" => enabled /\ cache[t] = NoKey
        /\ q.key # NoKey => enabled /\ q.key = cache[t]
    BY <1>0, <2>1, <2>3 DEF StoreCall, Seals
  <2>5. ~raced' => ~raced /\ \A d \in Calls : ~(req[d].pc = "derive" /\ req[d].type = t)
    BY <2>2
  <2> QED
    BY <1>1, <2>2, <2>4, <2>5
<1>4. ASSUME NEW t \in Types, NEW r \in Rows, BeginUpdate(c, t, r) PROVE KeyInv'
  <2>1. PICK q : q = [pc |-> "update", type |-> t, row |-> r, key |-> NoKey, was |-> cell[t][r]]
    OBVIOUS
  <2>2. req' = [req EXCEPT ![c] = q] /\ UNCHANGED <<backend, enabled, listed, generated, cell, cache, epoch, fill, bare, raced>>
    BY <1>4, <2>1 DEF BeginUpdate
  <2>3. cell[t][r] \in Cell /\ CellOpens(t, cell[t][r])
    BY <1>0 DEF KeysInv
  <2>4. q \in StoreCall /\ q.type = t /\ q.row = r /\ q.pc = "update" /\ q.was = cell[t][r]
    BY <2>1, <2>3 DEF StoreCall
  <2> QED
    BY <1>1, <2>2, <2>3, <2>4
<1> QED
  BY <1>2, <1>3, <1>4

LEMMA WriteSteps ==
    ASSUME KeyInv, NEW c \in Calls, Store(c) \/ \E erases \in BOOLEAN : Update(c, erases)
    PROVE  KeyInv'
<1>0. /\ KeysInv /\ req[c] \in StoreCall /\ CallIsCurrent(req[c]) /\ epoch \in Nat \ {0}
      /\ MaxEdits \in Nat \ {0}
  BY KeyStoreAssumption DEF KeyInv, KeysInv
<1>1. PICK q : q = req[c]
  OBVIOUS
<1>2. CASE Store(c)
  <2>1. PICK v : v = IF q.key = NoKey THEN Plain(1) ELSE Encrypted(Plain(1), q.key, epoch)
    OBVIOUS
  <2>2. /\ q.pc = "write" /\ Put(q.type, q.row, v) /\ req' = [req EXCEPT ![c] = Idle]
        /\ UNCHANGED <<backend, enabled, listed, generated, cache, epoch, fill, raced>>
    BY <1>1, <1>2, <2>1 DEF Store
  <2>3. /\ q.type \in Types /\ q.row \in Rows /\ q.key \in DataKey \cup {NoKey}
        /\ q.key # NoKey => /\ enabled /\ (backend = "local" => q.key = GenerateLocal(q.type))
                            /\ ~raced => q.key = cache[q.type]
    BY <1>0, <1>1, <2>2 DEF CallIsCurrent, StoreCall
  <2>4. v \in Cell /\ CellOpens(q.type, v)
    <3>1. CASE q.key = NoKey
      <4>1. v \in Cell /\ v.by = 0 /\ v.depth = 0
        BY <1>0, <2>1, <3>1, CellForms
      <4> QED
        BY <1>0, <4>1 DEF CellOpens
    <3>2. CASE q.key # NoKey
      <4>1. v = [depth |-> 1, key |-> q.key, text |-> 1, by |-> epoch]
        BY <2>1, <3>2 DEF Encrypted, Plain
      <4>2. v \in Cell /\ v.by = epoch /\ v.key = q.key
        BY <1>0, <2>3, <4>1 DEF Cell
      <4> QED
        BY <1>0, <2>3, <3>2, <4>2 DEF CellOpens
    <3> QED
      BY <3>1, <3>2
  <2> QED
    BY <2>2, <2>3, <2>4, PutMove
<1>3. ASSUME NEW erases \in BOOLEAN, Update(c, erases) PROVE KeyInv'
  <2>1. PICK v : v = IF erases THEN Plain(q.was.text + 1) ELSE q.was
    OBVIOUS
  <2>2. /\ q.pc = "update" /\ (erases => q.was.text < MaxEdits) /\ Put(q.type, q.row, v) /\ req' = [req EXCEPT ![c] = Idle]
        /\ UNCHANGED <<backend, enabled, listed, generated, cache, epoch, fill, raced>>
    BY <1>1, <1>3, <2>1 DEF Update
  <2>3. q.type \in Types /\ q.row \in Rows /\ CellOpens(q.type, q.was) /\ q.was \in Cell /\ q.was.text \in 0 .. MaxEdits
    BY <1>0, <1>1, <2>2 DEF CallIsCurrent, StoreCall, Cell
  <2>4. v \in Cell /\ CellOpens(q.type, v)
    <3>1. CASE erases
      <4>1. q.was.text + 1 \in 0 .. MaxEdits
        BY <1>0, <2>2, <2>3, <3>1
      <4>2. v \in Cell /\ v.by = 0 /\ v.depth = 0
        BY <2>1, <3>1, <4>1, CellForms
      <4> QED
        BY <1>0, <4>2 DEF CellOpens
    <3>2. CASE ~erases
      BY <2>1, <2>3, <3>2
    <3> QED
      BY <3>1, <3>2
  <2> QED
    BY <2>2, <2>3, <2>4, PutMove
<1> QED
  BY <1>2, <1>3

(* A key is derived and cached.                                             *)
LEMMA DeriveStep ==
    ASSUME KeyInv, NEW c \in Calls, GetDerivedKey(c)
    PROVE  KeyInv'
<1>0. /\ KeysInv /\ FillInv /\ req[c] \in StoreCall /\ CallIsCurrent(req[c])
      /\ cache \in [Types -> DataKey \cup {NoKey}] /\ NoKey \notin DataKey
  BY CellForms DEF KeyInv, KeysInv
<1>1. PICK t, key, o : t = req[c].type /\ key = KmsGenerateDataKey(backend, t) /\ o = req[c]
  OBVIOUS
<1>2. /\ o.pc = "derive" /\ generated < MaxKeys /\ CountKey(backend) /\ cache' = [cache EXCEPT ![t] = key]
      /\ req' = [req EXCEPT ![c] = [o EXCEPT !.pc = "write", !.key = key]]
      /\ UNCHANGED <<backend, enabled, listed, cell, epoch, fill, raced, bare>>
  BY <1>1 DEF GetDerivedKey
<1>3. t \in Types /\ o.row \in Rows /\ o \in StoreCall /\ enabled
  BY <1>0, <1>1, <1>2 DEF CallIsCurrent
<1>4. key \in DataKey /\ key.domain = t /\ (backend = "local" => key = GenerateLocal(t))
  BY <1>0, <1>1, <1>3, Generated
<1>5. PICK q : q = [o EXCEPT !.pc = "write", !.key = key]
  OBVIOUS
<1>6. q \in StoreCall /\ q.pc = "write" /\ q.key = key /\ q.type = t /\ q.row = o.row
  BY <1>1, <1>3, <1>4, <1>5 DEF StoreCall
<1>7. /\ req' \in [Calls -> StoreCall] /\ \A d \in Calls : req'[d] = IF d = c THEN q ELSE req[d]
      /\ cache' \in [Types -> DataKey \cup {NoKey}] /\ \A x \in Types : cache'[x] = IF x = t THEN key ELSE cache[x]
  BY <1>0, <1>2, <1>4, <1>5, <1>6 DEF KeysInv
<1>8. generated' \in 0 .. MaxKeys
  BY <1>0, <1>2, KeyStoreAssumption DEF CountKey, KeysInv
<1>9. ~raced => cache[t] = NoKey
  BY <1>0, <1>1, <1>2 DEF CallIsCurrent
<1>10. ASSUME NEW x \in Types, NEW v, CellOpens(x, v) PROVE CellOpens(x, v)'
  <2>1. v.by = epoch /\ ~raced => cache'[x] = cache[x]
    BY <1>0, <1>7, <1>9, <1>10 DEF CellOpens
  <2> QED
    BY <1>2, <1>10, <2>1 DEF CellOpens, GenerateLocal
<1>11. ASSUME NEW d \in Calls PROVE CallIsCurrent(req[d])'
  <2>1. CASE d = c
    <3>1. req'[d] = q
      BY <1>7, <2>1
    <3>2. cache'[t] = key /\ GenerateLocal(t)' = GenerateLocal(t) /\ backend' = backend /\ enabled'
      BY <1>2, <1>3, <1>7 DEF GenerateLocal
    <3>3. /\ q.pc # "idle" => q.type \in Types /\ q.row \in Rows
          /\ q.pc = "write" => /\ enabled'
                               /\ backend' = "local" => q.key = GenerateLocal(q.type)'
                               /\ q.key = cache'[q.type]
          /\ q.pc # "derive" /\ q.pc # "update"
      BY <1>3, <1>4, <1>6, <3>2 DEF GenerateLocal
    <3> QED
      BY <3>1, <3>3 DEF CallIsCurrent
  <2>2. CASE d # c
    <3>1. req'[d] = req[d] /\ CallIsCurrent(req[d]) /\ req[d] \in StoreCall
      BY <1>0, <1>7, <2>2 DEF KeysInv
    <3>2. CASE req[d].pc = "derive"
      <4>1. ~raced => req[d].type # t
        BY <1>0, <1>1, <1>2, <2>2, <3>2 DEF KeysInv
      <4>2. req[d].type \in Types /\ enabled /\ (~raced => cache[req[d].type] = NoKey)
        BY <3>1, <3>2 DEF CallIsCurrent
      <4>3. ~raced => cache'[req[d].type] = NoKey
        BY <1>7, <4>1, <4>2
      <4> QED
        BY <1>2, <3>1, <3>2, <4>2, <4>3 DEF CallIsCurrent
    <3>3. CASE req[d].pc = "write"
      <4>1. req[d].type \in Types /\ req[d].row \in Rows
        BY <3>1, <3>3 DEF CallIsCurrent
      <4>2. ~raced /\ req[d].key # NoKey => cache'[req[d].type] = cache[req[d].type]
        BY <1>7, <1>9, <3>1, <3>3, <4>1 DEF CallIsCurrent
      <4> QED
        BY <1>2, <3>1, <3>3, <4>1, <4>2 DEF CallIsCurrent, GenerateLocal
    <3>4. CASE req[d].pc = "update"
      <4>1. req[d].type \in Types /\ req[d].row \in Rows /\ CellOpens(req[d].type, req[d].was)
        BY <3>1, <3>4 DEF CallIsCurrent
      <4>2. CellOpens(req[d].type, req[d].was)'
        <5>1. PICK x \in Types, v \in Cell : x = req[d].type /\ v = req[d].was
          BY <3>1, <4>1 DEF StoreCall
        <5>2. CellOpens(x, v)'
          BY <1>10, <4>1, <5>1
        <5>3. req'[d].type = x /\ req'[d].was = v
          BY <3>1, <5>1
        <5> QED
          BY <5>2, <5>3 DEF CellOpens, GenerateLocal
      <4> QED
        BY <3>1, <3>4, <4>1, <4>2 DEF CallIsCurrent
    <3>5. CASE req[d].pc = "idle"
      BY <3>1, <3>5 DEF CallIsCurrent
    <3> QED
      BY <3>1, <3>2, <3>3, <3>4, <3>5 DEF StoreCall
  <2> QED
    BY <2>1, <2>2
<1>12. \A x \in Types, r \in Rows : CellOpens(x, cell[x][r])'
  <2> SUFFICES ASSUME NEW x \in Types, NEW r \in Rows PROVE CellOpens(x, cell[x][r])'
    OBVIOUS
  <2>1. CellOpens(x, cell[x][r]) /\ cell' = cell
    BY <1>0, <1>2 DEF KeysInv
  <2>2. PICK v : v = cell[x][r]
    OBVIOUS
  <2>3. CellOpens(x, v)'
    BY <1>10, <2>1, <2>2
  <2> QED
    BY <2>1, <2>2, <2>3 DEF CellOpens, GenerateLocal
<1>13. \A x \in Types : cache'[x] # NoKey => cache'[x].domain = x /\ (backend' = "local" => cache'[x] = GenerateLocal(x)')
  BY <1>0, <1>2, <1>4, <1>7 DEF KeysInv, GenerateLocal
<1>14. ~raced => \A a, d \in Calls : req'[a].pc = "derive" /\ req'[d].pc = "derive" /\ req'[a].type = req'[d].type => a = d
  BY <1>0, <1>6, <1>7 DEF KeysInv
<1>15. KeysInv'
  BY <1>0, <1>2, <1>7, <1>8, <1>11, <1>12, <1>13, <1>14 DEF KeysInv
<1>16. FillInv'
  BY <1>0, <1>2, FillStays
<1> QED
  BY <1>15, <1>16 DEF KeyInv

(* A restart forgets the cache and the requests; the rows stay.             *)
LEMMA RestartStep == KeyInv /\ RestartServer => KeyInv'
<1> SUFFICES ASSUME KeyInv, RestartServer PROVE KeyInv'
  OBVIOUS
<1>0. KeysInv /\ FillInv /\ Idle \in StoreCall /\ Idle.pc = "idle"
  BY CellForms DEF KeyInv
<1> HIDE DEF Idle
<1>1. /\ cache' \in [Types -> DataKey \cup {NoKey}] /\ \A t \in Types : cache'[t] = NoKey
      /\ req' \in [Calls -> StoreCall] /\ \A c \in Calls : req'[c] = Idle
      /\ epoch' = epoch + 1 /\ epoch \in Nat /\ UNCHANGED <<backend, enabled, listed, generated, cell, fill, bare>>
  BY <1>0 DEF RestartServer, KeysInv
<1>2. \A c \in Calls : CallIsCurrent(req[c])'
  BY <1>0, <1>1 DEF CallIsCurrent
<1>3. \A t \in Types, r \in Rows : CellOpens(t, cell[t][r])'
  <2> SUFFICES ASSUME NEW t \in Types, NEW r \in Rows PROVE CellOpens(t, cell[t][r])'
    OBVIOUS
  <2>1. cell[t][r] \in Cell /\ CellOpens(t, cell[t][r])
    BY <1>0 DEF KeysInv
  <2>2. cell[t][r].by # epoch' /\ cell[t][r].by <= epoch'
    BY <1>1, <2>1 DEF Cell, CellOpens
  <2> QED
    BY <1>1, <2>1, <2>2 DEF CellOpens, GenerateLocal
<1>4. KeysInv'
  BY <1>0, <1>1, <1>2, <1>3 DEF KeysInv
<1>5. FillInv'
  BY <1>0, <1>1, FillStays
<1> QED
  BY <1>4, <1>5 DEF KeyInv

(* Nothing of the server moves.                                             *)
LEMMA ServerRests ==
    ASSUME KeysInv, UNCHANGED <<backend, enabled, cell, cache, epoch, req, raced>>, generated' \in 0 .. MaxKeys
    PROVE  KeysInv'
<1>1. \A t \in Types, r \in Rows : CellOpens(t, cell[t][r])'
  BY DEF KeysInv, CellOpens, GenerateLocal
<1>2. \A c \in Calls : CallIsCurrent(req[c])'
  BY DEF KeysInv, CallIsCurrent, CellOpens, GenerateLocal
<1>3. \A t \in Types : cache'[t] # NoKey => cache'[t].domain = t /\ (backend' = "local" => cache'[t] = GenerateLocal(t)')
  BY DEF KeysInv, GenerateLocal
<1> QED
  BY <1>1, <1>2, <1>3 DEF KeysInv

(* The next batch of the rows ahead: it takes them in their order.          *)
NextOf(S) == {r \in S : Cardinality({s \in S : s < r}) < Batch}
LEMMA BatchRead ==
    ASSUME NEW S \in SUBSET Rows, NEW next, next = NextOf(S)
    PROVE  /\ next \subseteq S /\ (next = {} => S = {})
           /\ next # {} => \E m \in next : (\A s \in next : s <= m) /\ (\A r \in S : r <= m => r \in next)
<1>0. MaxRow \in Nat /\ Batch \in Nat \ {0} /\ S \subseteq Nat
  BY KeyStoreAssumption DEF Rows
<1>1. IsFiniteSet(1 .. MaxRow) /\ S \in SUBSET (1 .. MaxRow)
  BY <1>0, FS_Interval DEF Rows
<1>2. IsFiniteSet(S)
  BY <1>1, FS_Subset
<1>3. next \subseteq S
  BY DEF NextOf
<1>4. ASSUME next = {} PROVE S = {}
  <2> SUFFICES ASSUME S # {} PROVE FALSE
    OBVIOUS
  <2>1. PICK x \in S : \A y \in S : x <= y
    BY <1>0, Least
  <2>2. \A s \in S : ~(s < x)
    BY <1>0, <2>1
  <2>3. {s \in S : s < x} = {}
    BY <2>2
  <2>4. Cardinality({s \in S : s < x}) = 0
    BY <2>3, FS_EmptySet
  <2>5. x \in next
    BY <1>0, <2>4 DEF NextOf
  <2> QED
    BY <1>4, <2>5
<1>5. ASSUME next # {} PROVE \E m \in next : (\A s \in next : s <= m) /\ (\A r \in S : r <= m => r \in next)
  <2>1. next \in SUBSET (0 .. MaxRow)
    <3>1. \A s \in 1 .. MaxRow : s \in 0 .. MaxRow
      BY <1>0
    <3> QED
      BY <1>1, <1>3, <3>1
  <2>2. PICK m \in next : \A s \in next : s <= m
    BY <1>0, <1>5, <2>1, Greatest
  <2>3. ASSUME NEW r \in S, r <= m PROVE r \in next
    <3>1. PICK U, V : U = {s \in S : s < r} /\ V = {s \in S : s < m}
      OBVIOUS
    <3>2. m \in Nat /\ r \in Nat
      BY <1>0, <1>3
    <3>3. U \in SUBSET V /\ V \in SUBSET S
      <4>1. \A s \in S : s < r => s < m
        BY <1>0, <2>3, <3>2
      <4> QED
        BY <3>1, <4>1
    <3>4. IsFiniteSet(V)
      BY <1>2, <3>3, FS_Subset
    <3>5. IsFiniteSet(U) /\ Cardinality(U) <= Cardinality(V)
      BY <3>3, <3>4, FS_Subset
    <3>6. Cardinality(U) \in Nat /\ Cardinality(V) \in Nat
      BY <3>4, <3>5, FS_CardinalityType
    <3>7. Cardinality(V) < Batch
      BY <3>1 DEF NextOf
    <3>8. Cardinality(U) < Batch
      BY <1>0, <3>5, <3>6, <3>7
    <3> QED
      BY <3>1, <3>8 DEF NextOf
  <2> QED
    BY <2>2, <2>3
<1> QED
  BY <1>3, <1>4, <1>5

(* The backfill starts, stops or reads on: no row changes.                  *)
LEMMA ReadSteps ==
    ASSUME KeyInv,
           ReadBatch \/ StopBackfill \/ \E t \in Types, mode \in {"dry", "off", "write"} : StartBackfill(t, mode)
    PROVE  KeyInv'
<1>0. KeysInv /\ FillInv /\ generated \in 0 .. MaxKeys /\ cell \in [Types -> [Rows -> Cell]]
  BY DEF KeyInv, KeysInv
<1>1. CASE StopBackfill
  <2>1. fill' = NoFill /\ UNCHANGED <<backend, enabled, generated, cell, cache, epoch, req, raced>>
    BY <1>1 DEF StopBackfill
  <2>2. FillInv'
    BY <2>1, KeyStoreAssumption DEF FillInv, NoFill, Accounts
  <2>3. KeysInv'
    BY <1>0, <2>1, ServerRests
  <2> QED
    BY <2>2, <2>3 DEF KeyInv
<1>2. ASSUME NEW t \in Types, NEW mode \in {"dry", "off", "write"}, StartBackfill(t, mode) PROVE KeyInv'
  <2>1. /\ UNCHANGED <<backend, enabled, generated, cell, cache, epoch, req, raced>>
        /\ fill' = [NoFill EXCEPT !.pc = "run", !.mode = mode, !.read = [type |-> t, rows |-> {}]]
    BY <1>2 DEF StartBackfill
  <2>2. /\ fill'.pc = "run" /\ fill'.cursor = 0 /\ fill'.errors = 0 /\ fill'.read = [type |-> t, rows |-> {}]
        /\ DOMAIN fill' = {"pc", "cursor", "read", "errors", "mode"}
    BY <2>1 DEF NoFill
  <2>3. 1 .. 0 = {} /\ fill'.read \in [type : Types, rows : SUBSET ReadRow] /\ fill'.read.rows = {}
    BY <2>2
  <2>4. FillInv'
    BY <2>2, <2>3, KeyStoreAssumption DEF FillInv, Reached
  <2>5. KeysInv'
    BY <1>0, <2>1, ServerRests
  <2> QED
    BY <2>4, <2>5 DEF KeyInv
<1>3. CASE ReadBatch
  <2> DEFINE t == fill.read.type
             ahead == {r \in Rows : r > fill.cursor /\ Stored(cell[t][r])}
             next == {r \in ahead : Cardinality({s \in ahead : s < r}) < Batch}
  <2>1. /\ fill.pc = "run" /\ fill.read.rows = {}
        /\ UNCHANGED <<backend, enabled, listed, generated, cell, cache, epoch, req, raced, bare>>
        /\ IF next = {}
           THEN fill' = [fill EXCEPT !.pc = "done"]
           ELSE fill' = [fill EXCEPT !.cursor = CHOOSE r \in next : \A s \in next : s <= r,
                              !.read = [type |-> t, rows |-> {[row |-> r, was |-> cell[t][r]] : r \in next}]]
    BY <1>3, Zenon DEF ReadBatch, BackfillNext
  <2>0. /\ t = fill.read.type /\ ahead = {r \in Rows : r > fill.cursor /\ Stored(cell[t][r])}
        /\ next = NextOf(ahead)
    BY DEF NextOf
  <2> HIDE DEF t, ahead, next
  <2>2. /\ fill.cursor \in 0 .. MaxRow /\ t \in Types /\ fill.errors \in Nat
        /\ DOMAIN fill = {"pc", "cursor", "read", "errors", "mode"}
        /\ fill.read \in [type : Types, rows : SUBSET ReadRow]
        /\ Accounts(fill) /\ fill.errors = 0 => \A r \in 1 .. fill.cursor : Settled(cell[t][r], t, r, bare)
    BY <1>0, <2>0, <2>1 DEF FillInv, Reached
  <2>3. /\ next \subseteq ahead /\ (next = {} => ahead = {})
        /\ next # {} => \E m \in next : (\A s \in next : s <= m) /\ (\A r \in ahead : r <= m => r \in next)
    <3>1. ahead \in SUBSET Rows /\ next = NextOf(ahead)
      BY <2>0
    <3> QED
      BY <3>1, BatchRead
  <2>4. \A r \in Rows : r <= fill.cursor \/ r \in ahead \/ Settled(cell[t][r], t, r, bare)
    BY <2>0, <2>2 DEF Settled, Rows
  <2>5. ASSUME next = {} PROVE FillInv'
    <3>1. /\ fill'.pc = "done" /\ fill'.cursor = fill.cursor /\ fill'.read = fill.read /\ fill'.errors = fill.errors
          /\ fill'.mode = fill.mode /\ DOMAIN fill' = DOMAIN fill
      BY <2>1, <2>2, <2>5
    <3>2. Accounts(fill) /\ fill.errors = 0 => \A r \in Rows : Settled(cell[t][r], t, r, bare)
      BY <2>2, <2>3, <2>4, <2>5, KeyStoreAssumption DEF Rows
    <3>3. (Accounts(fill)' <=> Accounts(fill)) /\ Reached(fill)' = Rows
      BY <2>1, <3>1 DEF Accounts, Reached, Rows
    <3>4. Accounts(fill)' /\ fill'.errors = 0 => \A r \in Rows : Settled(cell'[t][r], t, r, bare')
      BY <2>1, <3>1, <3>2, <3>3
    <3> QED
      BY <2>0, <2>1, <2>2, <3>1, <3>3, <3>4 DEF FillInv, Settled, IsEncrypted, Stored
  <2>6. ASSUME next # {} PROVE FillInv'
    <3>0. PICK m, new : /\ m = (CHOOSE r \in next : \A s \in next : s <= r)
                        /\ new = {[row |-> r, was |-> cell[t][r]] : r \in next}
      OBVIOUS
    <3>1. m \in next /\ \A s \in next : s <= m
      BY <2>3, <2>6, <3>0
    <3>2. next \subseteq Rows /\ m \in 0 .. MaxRow
      BY <2>0, <2>3, <3>1, KeyStoreAssumption DEF Rows
    <3>3. \A r \in ahead : r <= m => r \in next
      <4>1. PICK n \in next : (\A s \in next : s <= n) /\ (\A r \in ahead : r <= n => r \in next)
        BY <2>3, <2>6
      <4>2. n \in Nat /\ m \in Nat /\ n <= m /\ m <= n
        BY <3>1, <3>2, <4>1, KeyStoreAssumption DEF Rows
      <4>3. n = m
        BY <4>2
      <4> QED
        BY <4>1, <4>3
    <3>4. /\ fill'.pc = "run" /\ fill'.cursor = m /\ fill'.read = [type |-> t, rows |-> new] /\ fill'.errors = fill.errors
          /\ fill'.mode = fill.mode /\ DOMAIN fill' = DOMAIN fill
      BY <2>1, <2>2, <2>6, <3>0
    <3>5. new \subseteq ReadRow
      BY <1>0, <2>2, <3>0, <3>2 DEF ReadRow
    <3>6. \A x \in new : x.was = cell[t][x.row]
      BY <3>0
    <3>7. \A r \in next : \E x \in new : x.row = r
      <4> SUFFICES ASSUME NEW r \in next PROVE \E x \in new : x.row = r
        OBVIOUS
      <4>1. [row |-> r, was |-> cell[t][r]] \in new
        BY <3>0
      <4>2. [row |-> r, was |-> cell[t][r]].row = r
        OBVIOUS
      <4> QED
        BY <4>1, <4>2, Zenon
    <3>8. fill'.read.type = t /\ fill'.read.rows = new /\ fill'.read \in [type : Types, rows : SUBSET ReadRow]
      BY <2>2, <3>4, <3>5
    <3> HIDE <3>0
    <3>9. Accounts(fill) /\ fill.errors = 0 =>
              \A r \in 1 .. m : Settled(cell[t][r], t, r, bare) \/ \E x \in new : x.row = r
      <4> SUFFICES ASSUME Accounts(fill), fill.errors = 0, NEW r \in 1 .. m
                   PROVE  Settled(cell[t][r], t, r, bare) \/ \E x \in new : x.row = r
        OBVIOUS
      <4>1. r \in Rows /\ r <= m /\ (r <= fill.cursor => r \in 1 .. fill.cursor)
        BY <2>2, <3>2, KeyStoreAssumption DEF Rows
      <4> QED
        BY <2>2, <2>4, <3>3, <3>7, <4>1
    <3>10. (Accounts(fill)' <=> Accounts(fill)) /\ Reached(fill)' = 1 .. m
      BY <2>1, <2>0, <3>4, <3>8 DEF Accounts, Reached
    <3>11. \A x \in new : IsEncrypted(x.was) => Settled(cell'[t][x.row], t, x.row, bare')
      BY <2>1, <3>6 DEF Settled
    <3>12. Accounts(fill)' /\ fill'.errors = 0 =>
              \A r \in 1 .. m : Settled(cell'[t][r], t, r, bare') \/ \E x \in new : x.row = r
      BY <2>1, <3>4, <3>9, <3>10
    <3> QED
      BY <2>2, <3>2, <3>4, <3>8, <3>10, <3>11, <3>12 DEF FillInv, Settled, IsEncrypted, Stored
  <2>7. KeysInv'
    BY <1>0, <2>1, ServerRests
  <2> QED
    BY <2>5, <2>6, <2>7 DEF KeyInv
<1> QED
  BY <1>1, <1>2, <1>3

(* The backfill is done with one row of its batch.                          *)
LEMMA RewriteStep ==
    ASSUME KeyInv, fill.pc = "run", NEW x \in fill.read.rows, NEW fails \in BOOLEAN, BackfillRow(x, fails)
    PROVE  KeyInv'
<1>0. KeysInv /\ FillInv /\ cell \in [Types -> [Rows -> Cell]] /\ generated \in 0 .. MaxKeys /\ epoch \in Nat \ {0}
  BY DEF KeyInv, KeysInv
<1>1. PICK t, v, rewrites : /\ t = fill.read.type
                            /\ v = IF fill.mode = "write" THEN EncryptPlaintextFields(t, x.was) ELSE x.was
                            /\ rewrites = (NeedsBackfill(t, x.was) /\ ~fails /\ fill.mode # "dry")
  OBVIOUS
<1>2. /\ fails => NeedsBackfill(t, x.was) /\ fill.errors = 0
      /\ fill' = [fill EXCEPT !.read.rows = @ \ {x}, !.errors = IF fails THEN @ + 1 ELSE @]
      /\ cell' = IF rewrites THEN [cell EXCEPT ![t][x.row] = v] ELSE cell
      /\ UNCHANGED <<backend, enabled, listed, generated, cache, epoch, req, raced, bare>>
  BY <1>1 DEF BackfillRow
<1>3. /\ fill.cursor \in 0 .. MaxRow /\ t \in Types /\ fill.errors \in Nat
      /\ DOMAIN fill = {"pc", "cursor", "read", "errors", "mode"}
      /\ fill.read \in [type : Types, rows : SUBSET ReadRow]
      /\ x \in ReadRow /\ x.row \in Rows /\ x.was \in Cell
  BY <1>0, <1>1 DEF FillInv, ReadRow
<1>4. /\ fill'.pc = "run" /\ fill'.cursor = fill.cursor /\ fill'.mode = fill.mode /\ DOMAIN fill' = DOMAIN fill
      /\ fill'.errors = IF fails THEN fill.errors + 1 ELSE fill.errors
      /\ fill'.read = [type |-> t, rows |-> fill.read.rows \ {x}]
  BY <1>1, <1>2, <1>3
<1>5. ASSUME rewrites
      PROVE  KeysInv' /\ (\A a \in Types, b \in Rows : cell'[a][b] = IF a = t /\ b = x.row THEN v ELSE cell[a][b])
             /\ (fill.mode = "write" => IsEncrypted(v))
  <2>0. ~IsEncrypted(x.was)
    BY <1>1, <1>5, Zenon DEF NeedsBackfill
  <2>1. x.was.depth = 0 /\ x.was.by = 0 /\ ~IsEncrypted(x.was)
    BY <1>3, <2>0 DEF IsEncrypted, Cell
  <2>2. v \in Cell /\ CellOpens(t, v) /\ (fill.mode = "write" => IsEncrypted(v))
    <3>1. CASE fill.mode = "write"
      <4>1. v = [depth |-> 1, key |-> GenerateLocal(t), text |-> x.was.text, by |-> 0]
        BY <1>1, <2>1, <3>1 DEF EncryptPlaintextFields, Encrypted
      <4>2. GenerateLocal(t) \in DataKey
        BY <1>3 DEF GenerateLocal, DataKey
      <4>3. v \in Cell /\ v.depth = 1 /\ v.by = 0 /\ v.key = GenerateLocal(t)
        BY <1>0, <1>3, <4>1, <4>2 DEF Cell
      <4> QED
        BY <1>0, <4>3 DEF CellOpens, IsEncrypted
    <3>2. CASE fill.mode # "write"
      BY <1>0, <1>1, <1>3, <2>1, <3>2 DEF CellOpens
    <3> QED
      BY <3>1, <3>2
  <2>3. cell' = [cell EXCEPT ![t][x.row] = v] /\ UNCHANGED <<backend, enabled, cache, epoch, raced>>
    BY <1>2, <1>5
  <2>4. /\ cell' \in [Types -> [Rows -> Cell]]
        /\ \A a \in Types, b \in Rows : cell'[a][b] = IF a = t /\ b = x.row THEN v ELSE cell[a][b]
        /\ \A a \in Types, b \in Rows : CellOpens(a, cell[a][b])'
    BY <1>0, <1>3, <2>2, <2>3, CellMove
  <2>5. \A c \in Calls : CallIsCurrent(req[c])'
    BY <1>0, <1>2 DEF KeysInv, CallIsCurrent, CellOpens, GenerateLocal
  <2>6. \A y \in Types : cache'[y] # NoKey => cache'[y].domain = y /\ (backend' = "local" => cache'[y] = GenerateLocal(y)')
    BY <1>0, <1>2 DEF KeysInv, GenerateLocal
  <2>7. KeysInv'
    BY <1>0, <1>2, <2>4, <2>5, <2>6 DEF KeysInv
  <2> QED
    BY <2>2, <2>4, <2>7
<1>6. ASSUME ~rewrites PROVE KeysInv' /\ cell' = cell
  <2>1. cell' = cell /\ UNCHANGED <<backend, enabled, cell, cache, epoch, req, raced>> /\ generated' \in 0 .. MaxKeys
    BY <1>0, <1>2, <1>6
  <2> QED
    BY <1>0, <2>1, ServerRests
<1>7. /\ KeysInv'
      /\ Accounts(fill) => \A a \in Types, b \in Rows : Settled(cell[a][b], a, b, bare) => Settled(cell'[a][b], a, b, bare)
      /\ Accounts(fill) /\ fill'.errors = 0 => Settled(cell'[t][x.row], t, x.row, bare)
  <2>1. CASE rewrites
    BY <1>3, <1>5, <2>1 DEF Settled, Accounts
  <2>2. CASE ~rewrites
    <3>1. Accounts(fill) /\ fill'.errors = 0 => IsEncrypted(x.was)
      <4>1. fill'.errors = 0 => ~fails
        BY <1>3, <1>4
      <4> QED
        BY <1>1, <2>2, <4>1 DEF Accounts, NeedsBackfill
    <3>2. Accounts(fill) /\ IsEncrypted(x.was) => Settled(cell[t][x.row], t, x.row, bare)
      BY <1>0, <1>1 DEF FillInv
    <3> QED
      BY <1>6, <2>2, <3>1, <3>2
  <2> QED
    BY <2>1, <2>2
<1>8. PICK left : left = fill.read.rows \ {x}
  OBVIOUS
<1>9. /\ fill'.read.type = t /\ fill'.read.rows = left /\ fill'.read \in [type : Types, rows : SUBSET ReadRow]
      /\ fill'.errors \in Nat
  BY <1>3, <1>4, <1>8
<1>10. Accounts(fill) => \A y \in left : IsEncrypted(y.was) => Settled(cell'[t][y.row], t, y.row, bare)
  BY <1>0, <1>1, <1>3, <1>7, <1>8 DEF FillInv, ReadRow
<1>11. ASSUME Accounts(fill), fill'.errors = 0, NEW r \in 1 .. fill.cursor
       PROVE  Settled(cell'[t][r], t, r, bare) \/ \E y \in left : y.row = r
  <2>1. fill.errors = 0 /\ r \in Rows
    BY <1>3, <1>4, <1>11, KeyStoreAssumption DEF Rows
  <2>2. Settled(cell[t][r], t, r, bare) \/ \E y \in fill.read.rows : y.row = r
    BY <1>0, <1>1, <1>11, <2>1 DEF FillInv, Reached
  <2> QED
    BY <1>3, <1>7, <1>8, <1>11, <2>1, <2>2
<1>12. (Accounts(fill)' <=> Accounts(fill)) /\ Reached(fill)' = 1 .. fill.cursor
  BY <1>1, <1>2, <1>4, <1>9 DEF Accounts, Reached
<1>13. Accounts(fill)' =>
         /\ \A y \in fill'.read.rows : IsEncrypted(y.was) => Settled(cell'[fill'.read.type][y.row], fill'.read.type, y.row, bare')
         /\ fill'.errors = 0 => \A r \in Reached(fill)' :
               Settled(cell'[fill'.read.type][r], fill'.read.type, r, bare') \/ \E y \in fill'.read.rows : y.row = r
  BY <1>2, <1>9, <1>10, <1>11, <1>12
<1>14. FillInv'
  BY <1>3, <1>4, <1>9, <1>13 DEF FillInv, Settled, IsEncrypted, Stored
<1> QED
  BY <1>7, <1>14 DEF KeyInv

(* Every step of the keys keeps the invariant, and so does a step of the    *)
(* other services.                                                          *)
LEMMA KeySteps == KeyInv /\ (KeyNext \/ UNCHANGED keyVars) => KeyInv'
<1>1. ASSUME KeyInv, RotateAllDomains PROVE KeyInv'
  <2>1. /\ KeysInv /\ FillInv /\ generated' \in 0 .. MaxKeys
        /\ UNCHANGED <<backend, enabled, listed, cell, cache, epoch, req, fill, raced, bare>>
    BY <1>1, KeyStoreAssumption DEF RotateAllDomains, CountKey, KeyInv, KeysInv
  <2>2. FillInv'
    BY <2>1, FillStays
  <2>3. KeysInv'
    BY <2>1, ServerRests
  <2> QED
    BY <2>2, <2>3 DEF KeyInv
<1>2. ASSUME KeyInv, UNCHANGED keyVars PROVE KeyInv'
  <2>1. /\ KeysInv /\ FillInv /\ UNCHANGED <<backend, enabled, listed, cell, cache, epoch, req, fill, raced, bare>>
        /\ generated \in 0 .. MaxKeys /\ generated' = generated
    BY <1>2 DEF keyVars, KeyInv, KeysInv
  <2>2. FillInv'
    BY <2>1, FillStays
  <2>3. KeysInv'
    BY <2>1, ServerRests
  <2> QED
    BY <2>2, <2>3 DEF KeyInv
<1>3. ASSUME KeyInv, KeyNext PROVE KeyInv'
  BY <1>1, <1>3, RequestSteps, WriteSteps, DeriveStep, RestartStep, ReadSteps, RewriteStep DEF KeyNext
<1> QED
  BY <1>2, <1>3

(* What the invariant promises.                                             *)
LEMMA KeyPromise ==
    ASSUME KeyInv
    PROVE  /\ KeyTypeOK /\ LocalRowsStayReadable /\ ServerReadsItsOwnRows
           /\ EncryptedOnce /\ BackfillLeavesNoPlaintext
<1>0. KeysInv /\ FillInv /\ NoKey \notin DataKey
  BY KeyStoreAssumption DEF KeyInv, DataKey
<1>1. \A t \in Types, r \in Rows : cell[t][r] \in Cell /\ CellOpens(t, cell[t][r])
  BY <1>0 DEF KeysInv
<1>2. KeyTypeOK
  BY <1>0, <1>1 DEF KeyTypeOK, KeysInv, FillInv, Cell
<1>3. EncryptedOnce
  BY <1>1 DEF EncryptedOnce, Cell
<1>4. LocalRowsStayReadable
  <2> SUFFICES ASSUME backend = "local", enabled, NEW t \in Types, NEW r \in Rows PROVE DecryptField(t, cell[t][r])
    BY DEF LocalRowsStayReadable
  <2>1. KeyInUse(t) = GenerateLocal(t)
    BY <1>0, Generated DEF KeyInUse, KeysInv
  <2>2. cell[t][r].depth = 0 \/ cell[t][r].key = GenerateLocal(t)
    BY <1>1 DEF CellOpens, Cell
  <2> QED
    BY <2>1, <2>2 DEF DecryptField
<1>5. ServerReadsItsOwnRows
  BY <1>0, <1>1 DEF ServerReadsItsOwnRows, CellOpens, DecryptField, KeyInUse
<1>6. BackfillLeavesNoPlaintext
  BY <1>0 DEF BackfillLeavesNoPlaintext, FillInv, Accounts, Reached, Settled
<1> QED
  BY <1>2, <1>3, <1>4, <1>5, <1>6

--------------------------------------------------------------------------------
(* The entity.                                                              *)

RowValue == [Fields -> Value]
DeskFields == {"pc", "op", "read", "after", "todo"}

(* What a request makes of the row it read, and the events it still has to  *)
(* write of it.                                                             *)
Effect(q) ==
    /\ q.read \in RowValue
    /\ \/ /\ q.op.name = "patch" /\ q.op.fields \in SUBSET Fields /\ q.op.value \in Value
          /\ q.after = Merge(q.read, q.op.fields, q.op.value)
       \/ q.op.name = "erase" /\ q.after = AnonymizeRecord(q.read)
       \/ q.op.name = "delete" /\ q.after = Gone
    /\ q.pc = "audit" => q.todo \subseteq Fields /\ q.todo # {} /\ (~Single(q) => q.todo = Fields)

InAudit(S) == \E d \in Desks \ S : desk[d].pc = "audit"

(* The events replay to what the request had read where its events are not  *)
(* written yet, and to what it wrote where they are.                        *)
ToldUpTo(q) == told \in RowValue /\ \A f \in Fields : told[f] = IF f \in q.todo THEN q.read[f] ELSE q.after[f]

(* A request writes what it made of the row it read; the row is what was    *)
(* meant; the events replay to the row, or tell of the only request that    *)
(* still has some to write what it has written.                             *)
EntityInv ==
    /\ props \in RowValue \cup {Gone} /\ intended \in RowValue
    /\ DOMAIN desk = Desks
    /\ \A d \in Desks :
          /\ DOMAIN desk[d] = DeskFields
          /\ desk[d].pc \in {"idle", "write", "audit", "answered", "refused"}
          /\ desk[d].pc \in {"write", "audit"} => Effect(desk[d])
    /\ ~crossed /\ props # Gone => props = intended
    /\ ~crossed /\ ~unaudited =>
          /\ ~contradicted
          /\ ~InAudit({}) => told = props
          /\ \A d \in Desks : desk[d].pc = "audit" /\ ~InAudit({d}) => desk[d].after = props /\ ToldUpTo(desk[d])

(* Anonymising gives a row again, and so does setting some fields.          *)
LEMMA MaskedIsRow == ASSUME NEW p \in RowValue PROVE AnonymizeRecord(p) \in RowValue
<1>1. ASSUME NEW v \in Value PROVE Masked(v) \in Value
  <2>1. [v EXCEPT !.masks = @ + 1] \in Value
    BY DEF Value
  <2>2. Null \in Value
    BY AdminAssumption DEF Value, Null
  <2> QED
    BY <2>1, <2>2 DEF Masked
<1> QED
  BY <1>1 DEF AnonymizeRecord, RowValue

LEMMA MergedIsRow ==
    ASSUME NEW p \in RowValue, NEW F \in SUBSET Fields, NEW v \in Value
    PROVE  Merge(p, F, v) \in RowValue /\ \A f \in Fields : Merge(p, F, v)[f] = IF f \in F THEN v ELSE p[f]
  BY DEF Merge, RowValue

(* What a request leaves, by its name.                                      *)
LEMMA EffectIsRow ==
    ASSUME NEW q, Effect(q)
    PROVE  /\ q.op.name = "patch" => q.after \in RowValue
           /\ q.op.name = "erase" => q.after \in RowValue
           /\ q.op.name = "delete" => q.after = Gone
<1>1. CASE q.op.name = "patch"
  <2>1. /\ q.read \in RowValue /\ q.op.fields \in SUBSET Fields /\ q.op.value \in Value
        /\ q.after = Merge(q.read, q.op.fields, q.op.value)
    BY <1>1 DEF Effect
  <2>2. Merge(q.read, q.op.fields, q.op.value) \in RowValue
    BY <2>1 DEF Merge, RowValue
  <2> QED
    BY <1>1, <2>1, <2>2
<1>2. CASE q.op.name = "erase"
  <2>1. q.read \in RowValue /\ q.after = AnonymizeRecord(q.read)
    BY <1>2 DEF Effect
  <2> QED
    BY <1>2, <2>1, MaskedIsRow
<1>3. CASE q.op.name \notin {"patch", "erase"}
  BY <1>3 DEF Effect
<1> QED
  BY <1>1, <1>2, <1>3 DEF Effect

(* A deleted entity is no row.                                              *)
LEMMA GoneIsNoRow == Gone \notin RowValue
<1>1. RowValue \subseteq [Fields -> [raw : Nat, masks : Nat]]
  <2>1. Value \subseteq [raw : Nat, masks : Nat]
    BY AdminAssumption DEF Value
  <2> QED
    BY <2>1 DEF RowValue
<1> QED
  BY <1>1, AdminAssumption

(* Rows with the same fields are the same.                                  *)
LEMMA SameRow ==
    ASSUME NEW p \in RowValue, NEW r \in RowValue, \A f \in Fields : p[f] = r[f]
    PROVE  p = r
  BY DEF RowValue

(* The entity begins unedited.                                              *)
LEMMA EntityStart == AdminInit => EntityInv
<1> SUFFICES ASSUME AdminInit PROVE EntityInv
  OBVIOUS
<1>1. props \in RowValue /\ intended = props
  BY AdminAssumption DEF AdminInit, RowValue, Value
<1>2. told = props /\ ~contradicted
  BY DEF AdminInit
<1>3. \A d \in Desks : desk[d] = AtRest /\ desk[d].pc = "idle"
  BY DEF AdminInit, AtRest
<1>4. DOMAIN desk = Desks /\ DOMAIN AtRest = DeskFields
  BY DEF AdminInit, AtRest, DeskFields
<1> QED
  BY <1>1, <1>2, <1>3, <1>4 DEF EntityInv, InAudit

(* A request begins or is refused: nobody's event is written.               *)
LEMMA DeskMove ==
    ASSUME EntityInv, NEW d \in Desks, NEW q, desk' = [desk EXCEPT ![d] = q],
           UNCHANGED <<kind, props, told, contradicted, intended, crossed, unaudited>>,
           DOMAIN q = DeskFields, q.pc \in {"write", "refused"}, q.pc = "write" => Effect(q),
           desk[d].pc = "idle"
    PROVE  EntityInv'
<1>1. DOMAIN desk' = Desks /\ \A e \in Desks : desk'[e] = IF e = d THEN q ELSE desk[e]
  BY DEF EntityInv
<1>2. ASSUME NEW e \in Desks
      PROVE  /\ DOMAIN desk'[e] = DeskFields
             /\ desk'[e].pc \in {"idle", "write", "audit", "answered", "refused"}
             /\ desk'[e].pc \in {"write", "audit"} => Effect(desk[e])'
  <2>1. PICK o : o = desk'[e]
    OBVIOUS
  <2>2. /\ DOMAIN o = DeskFields /\ o.pc \in {"idle", "write", "audit", "answered", "refused"}
        /\ o.pc \in {"write", "audit"} => Effect(o)
    BY <1>1, <2>1 DEF EntityInv
  <2>3. kind' = kind
    OBVIOUS
  <2>4. Effect(o) => Effect(desk[e])'
    BY <2>1, <2>3 DEF Effect, Single
  <2> QED
    BY <2>1, <2>2, <2>4
<1>3. \A e \in Desks : desk'[e].pc = "audit" <=> desk[e].pc = "audit"
  BY <1>1
<1>4. InAudit({})' <=> InAudit({})
  BY <1>3 DEF InAudit
<1>5. \A e \in Desks : InAudit({e})' <=> InAudit({e})
  BY <1>3 DEF InAudit
<1>6. ASSUME ~crossed, ~unaudited, NEW e \in Desks, desk'[e].pc = "audit", ~InAudit({e})
      PROVE  desk'[e].after = props /\ ToldUpTo(desk[e])'
  <2>1. desk'[e] = desk[e] /\ desk[e].pc = "audit"
    BY <1>1, <1>6
  <2>2. desk[e].after = props /\ ToldUpTo(desk[e])
    BY <1>6, <2>1 DEF EntityInv
  <2> QED
    BY <2>1, <2>2 DEF ToldUpTo
<1>7. /\ crossed' <=> crossed
      /\ unaudited' <=> unaudited
      /\ contradicted' <=> contradicted
  OBVIOUS
<1>8. ~crossed' /\ ~unaudited' =>
          /\ ~contradicted'
          /\ ~InAudit({})' => told' = props'
          /\ \A e \in Desks : desk'[e].pc = "audit" /\ ~InAudit({e})' => desk'[e].after = props' /\ ToldUpTo(desk[e])'
  BY <1>4, <1>5, <1>6, <1>7, Zenon DEF EntityInv
<1>9. /\ props' \in RowValue \cup {Gone} /\ intended' \in RowValue
      /\ ~crossed' /\ props' # Gone => props' = intended'
  BY DEF EntityInv
<1> QED
  BY <1>1, <1>2, <1>8, <1>9 DEF EntityInv

(* The requests that begin.                                                 *)
LEMMA BeginSteps ==
    ASSUME EntityInv, NEW d \in Desks,
           \/ \E F \in SUBSET Fields, n \in 0 .. MaxValue :
                 PatchCrmEntity(d, F, [raw |-> n, masks |-> 0]) \/ PatchUser(d, F, [raw |-> n, masks |-> 0])
           \/ HandleErasure(d) \/ DeleteCrmEntity(d) \/ NotFound(d)
    PROVE  EntityInv'
<1>0. props \in RowValue \cup {Gone} /\ DOMAIN desk[d] = DeskFields
  BY DEF EntityInv
<1>1. ASSUME NEW op, NEW after, Begin(d, op, after), props \in RowValue,
             \/ /\ op.name = "patch" /\ op.fields \in SUBSET Fields /\ op.value \in Value
                /\ after = Merge(props, op.fields, op.value)
             \/ op.name = "erase" /\ after = AnonymizeRecord(props)
             \/ op.name = "delete" /\ after = Gone
      PROVE  EntityInv'
  <2>1. PICK q : q = [pc |-> "write", op |-> op, read |-> props, after |-> after, todo |-> {}]
    OBVIOUS
  <2>2. /\ desk' = [desk EXCEPT ![d] = q] /\ desk[d].pc = "idle"
        /\ UNCHANGED <<kind, props, told, contradicted, intended, crossed, unaudited>>
    BY <1>1, <2>1 DEF Begin
  <2>3. DOMAIN q = DeskFields /\ q.pc \in {"write", "refused"} /\ q.pc = "write"
    BY <2>1 DEF DeskFields
  <2>4. Effect(q)
    BY <1>1, <2>1 DEF Effect
  <2> QED
    BY <2>2, <2>3, <2>4, DeskMove, Zenon
<1>2. ASSUME Refuse(d) PROVE EntityInv'
  <2>1. PICK q : q = [desk[d] EXCEPT !.pc = "refused"]
    OBVIOUS
  <2>2. /\ desk' = [desk EXCEPT ![d] = q] /\ desk[d].pc = "idle"
        /\ UNCHANGED <<kind, props, told, contradicted, intended, crossed, unaudited>>
    BY <1>2, <2>1 DEF Refuse
  <2>3. DOMAIN q = DeskFields /\ q.pc \in {"write", "refused"} /\ (q.pc = "write" => Effect(q))
    BY <1>0, <2>1 DEF DeskFields
  <2> QED
    BY <2>2, <2>3, DeskMove, Zenon
<1>3. ASSUME NEW F \in SUBSET Fields, NEW n \in 0 .. MaxValue, NEW v, v = [raw |-> n, masks |-> 0],
             PatchCrmEntity(d, F, v) \/ PatchUser(d, F, v)
      PROVE  EntityInv'
  <2>1. v \in Value
    BY <1>3 DEF Value
  <2>2. props \in RowValue
    BY <1>0, <1>3 DEF PatchCrmEntity, PatchUser
  <2>3. PICK op, after : op = [name |-> "patch", fields |-> F, value |-> v] /\ after = Merge(props, F, v)
    OBVIOUS
  <2>4. op.name = "patch" /\ op.fields \in SUBSET Fields /\ op.value \in Value /\ after = Merge(props, op.fields, op.value)
    BY <2>1, <2>3
  <2>5. Begin(d, op, after) \/ Refuse(d)
    BY <1>3, <2>3 DEF PatchCrmEntity, PatchUser
  <2> QED
    BY <1>1, <1>2, <2>2, <2>4, <2>5
<1>4. CASE HandleErasure(d)
  <2>1. PICK op, after : op = [name |-> "erase", fields |-> Sensitive, value |-> Null] /\ after = AnonymizeRecord(props)
    OBVIOUS
  <2>2. props \in RowValue /\ Begin(d, op, after) /\ op.name = "erase"
    BY <1>0, <1>4, <2>1 DEF HandleErasure
  <2> QED
    BY <1>1, <2>1, <2>2
<1>5. CASE DeleteCrmEntity(d)
  <2>1. PICK op, after : op = [name |-> "delete", fields |-> {}, value |-> Null] /\ after = Gone
    OBVIOUS
  <2>2. props \in RowValue /\ Begin(d, op, after) /\ op.name = "delete"
    BY <1>0, <1>5, <2>1 DEF DeleteCrmEntity
  <2> QED
    BY <1>1, <2>1, <2>2
<1>6. CASE NotFound(d)
  BY <1>2, <1>6 DEF NotFound
<1> QED
  BY <1>3, <1>4, <1>5, <1>6

(* The row is written back.                                                 *)
LEMMA WriteBackStep ==
    ASSUME EntityInv, NEW d \in Desks, WriteBack(d)
    PROVE  EntityInv'
<1>1. PICK o, S, q : /\ o = desk[d] /\ S = ToRecord(o)
                     /\ q = [o EXCEPT !.pc = IF S = {} THEN "answered" ELSE "audit", !.todo = S]
  OBVIOUS
<1>2. /\ o.pc = "write" /\ desk' = [desk EXCEPT ![d] = q] /\ props' = IF props = Gone THEN Gone ELSE o.after
      /\ intended' = Intends(o.op) /\ UNCHANGED <<kind, told, contradicted, unaudited>>
  BY <1>1 DEF WriteBack
<1>3. crossed' = (crossed \/ props # o.read)
  BY <1>1 DEF WriteBack
<1>4. /\ Effect(o) /\ intended \in RowValue /\ props \in RowValue \cup {Gone} /\ Gone \notin RowValue
      /\ DOMAIN o = DeskFields
  BY <1>1, <1>2, GoneIsNoRow DEF EntityInv
<1>5. /\ q.pc = IF S = {} THEN "answered" ELSE "audit"
      /\ q.read = o.read /\ q.after = o.after /\ q.op = o.op /\ q.todo = S /\ DOMAIN q = DeskFields
  BY <1>1, <1>4 DEF DeskFields
<1>6. S \in SUBSET Fields /\ (~Single(o) => S = Fields)
  BY <1>1, <1>4 DEF ToRecord, Effect, Single
<1>7. Effect(q)
  BY <1>4, <1>5, <1>6 DEF Effect, Single
<1>8. o.after \in RowValue \cup {Gone} /\ o.read \in RowValue /\ (o.op.name # "delete" => o.after \in RowValue)
  <2>1. /\ o.op.name = "patch" => o.after \in RowValue
        /\ o.op.name = "erase" => o.after \in RowValue
        /\ o.op.name = "delete" => o.after = Gone
    BY <1>4, EffectIsRow
  <2>2. o.read \in RowValue /\ o.op.name \in {"patch", "erase", "delete"}
    BY <1>4 DEF Effect
  <2> QED
    BY <2>1, <2>2
<1>9. \A f \in Fields \ S : o.after \in RowValue /\ o.after[f] = o.read[f]
  <2> SUFFICES ASSUME NEW f \in Fields \ S PROVE o.after \in RowValue /\ o.after[f] = o.read[f]
    OBVIOUS
  <2>1. Single(o)
    BY <1>6
  <2>2. /\ o.op.name = "patch" /\ o.op.fields \in SUBSET Fields /\ o.op.value \in Value
        /\ o.after = Merge(o.read, o.op.fields, o.op.value)
    BY <1>4, <2>1 DEF Effect, Single
  <2>3. f \in o.op.fields => o.after[f] = o.read[f]
    BY <1>1, <2>1 DEF ToRecord
  <2>4. f \notin o.op.fields => o.after[f] = o.read[f]
    BY <1>8, <2>2, MergedIsRow
  <2> QED
    BY <1>8, <2>2, <2>3, <2>4
<1>10. /\ o.op.name = "patch" => intended' = Merge(intended, o.op.fields, o.op.value)
       /\ o.op.name = "erase" => intended' = AnonymizeRecord(intended)
       /\ o.op.name = "delete" => intended' = intended
  BY <1>2 DEF Intends, AnonymizeRecord
<1>11. intended' \in RowValue
  <2>1. CASE o.op.name = "patch"
    <3>1. o.op.fields \in SUBSET Fields /\ o.op.value \in Value
      BY <1>4, <2>1 DEF Effect
    <3>2. Merge(intended, o.op.fields, o.op.value) \in RowValue
      BY <1>4, <3>1 DEF Merge, RowValue
    <3> QED
      BY <1>10, <2>1, <3>2
  <2>2. CASE o.op.name = "erase"
    BY <1>4, <1>10, <2>2, MaskedIsRow
  <2>3. CASE o.op.name = "delete"
    BY <1>4, <1>10, <2>3
  <2> QED
    BY <1>4, <2>1, <2>2, <2>3 DEF Effect
<1>12. ~crossed' => ~crossed /\ props = o.read
  BY <1>3, Zenon
<1>13. ~crossed' => props \in RowValue /\ props' = o.after
  BY <1>2, <1>4, <1>8, <1>12
<1>14. ~crossed' /\ props' # Gone => props' = intended'
  <2> SUFFICES ASSUME ~crossed', props' # Gone PROVE props' = intended'
    OBVIOUS
  <2>1. props = intended /\ props = o.read
    BY <1>4, <1>12, <1>13 DEF EntityInv
  <2> QED
    BY <1>4, <1>10, <1>13, <2>1 DEF Effect
<1>15. DOMAIN desk' = Desks /\ \A e \in Desks : desk'[e] = IF e = d THEN q ELSE desk[e]
  BY <1>2 DEF EntityInv
<1>16. ASSUME NEW e \in Desks
       PROVE  /\ DOMAIN desk'[e] = DeskFields
              /\ desk'[e].pc \in {"idle", "write", "audit", "answered", "refused"}
              /\ desk'[e].pc \in {"write", "audit"} => Effect(desk[e])'
  <2>1. PICK x : x = desk'[e]
    OBVIOUS
  <2>2. /\ DOMAIN x = DeskFields /\ x.pc \in {"idle", "write", "audit", "answered", "refused"}
        /\ x.pc \in {"write", "audit"} => Effect(x)
    BY <1>5, <1>7, <1>15, <2>1 DEF EntityInv
  <2>3. Effect(x) => Effect(desk[e])'
    BY <1>2, <2>1 DEF Effect, Single
  <2> QED
    BY <2>1, <2>2, <2>3
<1>17. ASSUME ~crossed', ~unaudited'
       PROVE  /\ ~contradicted'
              /\ ~InAudit({})' => told' = props'
              /\ \A e \in Desks : desk'[e].pc = "audit" /\ ~InAudit({e})' => desk'[e].after = props' /\ ToldUpTo(desk[e])'
  <2>1. /\ ~crossed /\ ~unaudited /\ props = o.read /\ props' = o.after /\ told' = told
        /\ ~contradicted'
    <3>1. (unaudited' <=> unaudited) /\ (contradicted' <=> contradicted)
      BY <1>2
    <3> QED
      BY <1>2, <1>12, <1>13, <1>17, <3>1, Zenon DEF EntityInv
  <2>2. \A e \in Desks \ {d} : desk'[e] = desk[e]
    BY <1>15
  <2>3. CASE S = {}
    <3>1. o.after = o.read
      BY <1>8, <1>9, <2>3, AdminAssumption, SameRow
    <3>2. desk'[d].pc # "audit" /\ desk[d].pc # "audit"
      BY <1>1, <1>2, <1>5, <1>15, <2>3
    <3>3. \A T : InAudit(T)' <=> InAudit(T)
      BY <2>2, <3>2 DEF InAudit
    <3>4. ASSUME NEW e \in Desks, desk'[e].pc = "audit", ~InAudit({e})
          PROVE  desk'[e].after = props' /\ ToldUpTo(desk[e])'
      <4>1. desk'[e] = desk[e] /\ desk[e].pc = "audit"
        BY <2>2, <3>2, <3>4
      <4>2. desk[e].after = props /\ ToldUpTo(desk[e])
        BY <2>1, <3>4, <4>1 DEF EntityInv
      <4> QED
        BY <2>1, <3>1, <4>1, <4>2 DEF ToldUpTo
    <3>5. ~InAudit({}) => told = props
      BY <2>1 DEF EntityInv
    <3> QED
      BY <2>1, <3>1, <3>3, <3>4, <3>5
  <2>4. CASE S # {}
    <3>1. desk'[d] = q /\ q.pc = "audit" /\ desk[d].pc # "audit"
      BY <1>1, <1>2, <1>5, <1>15, <2>4
    <3>2. InAudit({})'
      BY <3>1 DEF InAudit
    <3>3. ASSUME NEW e \in Desks, desk'[e].pc = "audit", ~InAudit({e})'
          PROVE  desk'[e].after = props' /\ ToldUpTo(desk[e])'
      <4>1. e = d
        BY <3>1, <3>3 DEF InAudit
      <4>2. ~InAudit({})
        <5>1. \A g \in Desks \ {d} : desk[g].pc # "audit"
          BY <2>2, <3>3, <4>1 DEF InAudit
        <5> QED
          BY <3>1, <5>1 DEF InAudit
      <4>3. told = props
        BY <2>1, <4>2 DEF EntityInv
      <4>4. told \in RowValue /\ \A f \in Fields : told[f] = IF f \in q.todo THEN q.read[f] ELSE q.after[f]
        BY <1>5, <1>8, <1>9, <2>1, <4>3
      <4> QED
        BY <1>5, <2>1, <3>1, <4>1, <4>4 DEF ToldUpTo
    <3> QED
      BY <2>1, <3>2, <3>3
  <2> QED
    BY <2>3, <2>4
<1>18. props' \in RowValue \cup {Gone}
  BY <1>2, <1>8
<1> QED
  BY <1>11, <1>14, <1>15, <1>16, <1>17, <1>18 DEF EntityInv

(* An event is written.                                                     *)
LEMMA WriteAuditStep ==
    ASSUME EntityInv, NEW d \in Desks, NEW fails \in BOOLEAN, WriteAudit(d, fails)
    PROVE  EntityInv'
<1>1. PICK o, F, q : /\ o = desk[d] /\ F = Recorded(o)
                     /\ q = [o EXCEPT !.pc = IF o.todo = F THEN "answered" ELSE "audit", !.todo = @ \ F]
  OBVIOUS
<1>2. /\ o.pc = "audit" /\ desk' = [desk EXCEPT ![d] = q] /\ told' = IF fails THEN told ELSE Replayed(F, o.after)
      /\ UNCHANGED <<kind, props, intended, crossed>>
  BY <1>1 DEF WriteAudit
<1>3. /\ contradicted' = (contradicted \/ (~fails /\ (told = Gone \/ \E f \in F : told[f] # o.read[f])))
      /\ unaudited' = (unaudited \/ fails \/ InAudit({d}))
  BY <1>1 DEF WriteAudit, InAudit
<1>4. Effect(o) /\ Gone \notin RowValue /\ DOMAIN o = DeskFields
  BY <1>1, <1>2, GoneIsNoRow DEF EntityInv
<1>5. /\ q.pc = IF o.todo = F THEN "answered" ELSE "audit"
      /\ q.read = o.read /\ q.after = o.after /\ q.op = o.op /\ q.todo = o.todo \ F /\ DOMAIN q = DeskFields
  BY <1>1, <1>4 DEF DeskFields
<1>6. o.todo \subseteq Fields /\ o.todo # {} /\ F \subseteq o.todo /\ (~Single(o) => F = o.todo /\ o.todo = Fields)
  <2>1. o.todo \subseteq Fields /\ o.todo # {} /\ (~Single(o) => o.todo = Fields)
    BY <1>2, <1>4 DEF Effect
  <2>2. CASE Single(o)
    <3>1. PICK g : g \in o.todo
      BY <2>1
    <3>2. (CHOOSE f \in o.todo : TRUE) \in o.todo
      BY <3>1
    <3> QED
      BY <1>1, <2>1, <2>2, <3>2 DEF Recorded
  <2>3. CASE ~Single(o)
    BY <1>1, <2>1, <2>3 DEF Recorded
  <2> QED
    BY <2>1, <2>2, <2>3
<1>7. q.pc = "audit" => Effect(q)
  <2> SUFFICES ASSUME q.pc = "audit" PROVE Effect(q)
    OBVIOUS
  <2>1. Single(o) /\ q.todo \subseteq Fields /\ q.todo # {}
    BY <1>5, <1>6
  <2> QED
    BY <1>4, <1>5, <2>1 DEF Effect, Single
<1>8. DOMAIN desk' = Desks /\ \A e \in Desks : desk'[e] = IF e = d THEN q ELSE desk[e]
  BY <1>2 DEF EntityInv
<1>9. ASSUME NEW e \in Desks
      PROVE  /\ DOMAIN desk'[e] = DeskFields
             /\ desk'[e].pc \in {"idle", "write", "audit", "answered", "refused"}
             /\ desk'[e].pc \in {"write", "audit"} => Effect(desk[e])'
  <2>1. PICK x : x = desk'[e]
    OBVIOUS
  <2>2. /\ DOMAIN x = DeskFields /\ x.pc \in {"idle", "write", "audit", "answered", "refused"}
        /\ x.pc \in {"write", "audit"} => Effect(x)
    BY <1>5, <1>7, <1>8, <2>1 DEF EntityInv
  <2>3. Effect(x) => Effect(desk[e])'
    BY <1>2, <2>1 DEF Effect, Single
  <2> QED
    BY <2>1, <2>2, <2>3
<1>10. ~unaudited' => ~unaudited /\ ~fails /\ ~InAudit({d})
  BY <1>3, Zenon
<1>11. ASSUME ~crossed', ~unaudited'
       PROVE  /\ ~contradicted'
              /\ ~InAudit({})' => told' = props'
              /\ \A e \in Desks : desk'[e].pc = "audit" /\ ~InAudit({e})' => desk'[e].after = props' /\ ToldUpTo(desk[e])'
  <2>1. ~crossed /\ ~unaudited /\ ~fails /\ ~InAudit({d})
    BY <1>2, <1>10, <1>11
  <2>2. /\ ~contradicted /\ o.after = props
        /\ told \in RowValue /\ \A f \in Fields : told[f] = IF f \in o.todo THEN o.read[f] ELSE o.after[f]
    BY <1>1, <1>2, <2>1 DEF EntityInv, ToldUpTo
  <2>3. told # Gone /\ \A f \in F : told[f] = o.read[f]
    BY <1>4, <1>6, <2>2
  <2>4. ~contradicted'
    BY <1>3, <2>2, <2>3, Zenon
  <2>5. told' = Replayed(F, o.after)
    BY <1>2, <2>1
  <2>6. \A e \in Desks \ {d} : desk'[e].pc # "audit"
    BY <1>8, <2>1 DEF InAudit
  <2>7. CASE o.after = Gone
    <3>1. ~Single(o)
      BY <1>4, <2>7, EffectIsRow DEF Single
    <3>2. q.pc = "answered" /\ told' = Gone
      BY <1>5, <1>6, <2>5, <2>7, <3>1 DEF Replayed
    <3>3. \A e \in Desks : desk'[e].pc # "audit"
      BY <1>8, <2>6, <3>2
    <3> QED
      BY <1>2, <2>2, <2>4, <2>7, <3>2, <3>3
  <2>8. CASE o.after # Gone
    <3>1. o.after \in RowValue
      <4>1. o.op.name \in {"patch", "erase", "delete"}
        BY <1>4 DEF Effect
      <4> QED
        BY <1>4, <2>8, <4>1, EffectIsRow
    <3>2. told' = [f \in Fields |-> IF f \in F THEN o.after[f] ELSE told[f]]
      BY <2>3, <2>5, <2>8 DEF Replayed
    <3>3. told' \in RowValue /\ \A f \in Fields : told'[f] = IF f \in q.todo THEN q.read[f] ELSE q.after[f]
      BY <1>5, <1>6, <2>2, <3>1, <3>2 DEF RowValue
    <3>4. q.pc # "audit" => told' = props'
      <4>1. q.pc # "audit" => q.todo = {}
        BY <1>5
      <4>2. q.pc # "audit" => \A f \in Fields : told'[f] = o.after[f]
        BY <1>5, <3>3, <4>1
      <4> QED
        BY <1>2, <2>2, <3>1, <3>3, <4>2, SameRow
    <3>5. desk'[d] = q
      BY <1>8
    <3>6. ~InAudit({})' => told' = props'
      BY <3>4, <3>5 DEF InAudit
    <3>7. ASSUME NEW e \in Desks, desk'[e].pc = "audit" PROVE desk'[e].after = props' /\ ToldUpTo(desk[e])'
      <4>1. e = d /\ desk'[e] = q
        BY <2>6, <3>5, <3>7
      <4> QED
        BY <1>2, <1>5, <2>2, <3>3, <4>1 DEF ToldUpTo
    <3> QED
      BY <2>4, <3>6, <3>7
  <2> QED
    BY <2>7, <2>8
<1>12. /\ props' \in RowValue \cup {Gone} /\ intended' \in RowValue
       /\ ~crossed' /\ props' # Gone => props' = intended'
  BY <1>2 DEF EntityInv
<1> QED
  BY <1>8, <1>9, <1>11, <1>12 DEF EntityInv

(* Every step on the entity keeps the invariant.                            *)
LEMMA EntitySteps == EntityInv /\ (EntityNext \/ UNCHANGED entityVars) => EntityInv'
<1>1. ASSUME EntityInv, UNCHANGED entityVars PROVE EntityInv'
  <2>1. UNCHANGED <<kind, props, desk, told, contradicted, intended, crossed, unaudited>>
    BY <1>1 DEF entityVars
  <2>2. \A T : InAudit(T)' <=> InAudit(T)
    BY <2>1 DEF InAudit
  <2>3. \A d \in Desks : (Effect(desk[d])' <=> Effect(desk[d])) /\ (ToldUpTo(desk[d])' <=> ToldUpTo(desk[d]))
    BY <2>1 DEF Effect, Single, ToldUpTo
  <2> QED
    BY <1>1, <2>1, <2>2, <2>3 DEF EntityInv
<1>2. ASSUME EntityInv, EntityNext PROVE EntityInv'
  BY <1>2, BeginSteps, WriteBackStep, WriteAuditStep DEF EntityNext
<1> QED
  BY <1>1, <1>2

(* What the invariant of the entity promises.                               *)
LEMMA EntityPromise ==
    ASSUME EntityInv
    PROVE  /\ props = Gone \/ props \in [Fields -> Value]
           /\ \A d \in Desks : desk[d].pc \in {"idle", "write", "audit", "answered", "refused"}
           /\ EditsAddUp /\ TrailReplays
<1>1. TrailReplays
  BY DEF EntityInv, TrailReplays, InAudit
<1> QED
  BY <1>1 DEF EntityInv, EditsAddUp, RowValue

--------------------------------------------------------------------------------
(* The tenant's settings.                                                   *)

Enabling(s) == setter[s].pc = "write" /\ setter[s].enable

(* While the tenant is regulated and no request raced, none is about to     *)
(* enable the legacy path, and if it is on, one is about to disable it.     *)
SettingInv ==
    /\ DOMAIN setter = Setters
    /\ \A s \in Setters :
          /\ DOMAIN setter[s] = {"pc", "enable"}
          /\ setter[s].pc \in {"idle", "check", "disable", "write", "done", "refused"}
    /\ regulated /\ ~setRaced =>
          /\ \A s \in Setters : ~Enabling(s)
          /\ legacy => \E s \in Setters : setter[s].pc \in {"check", "disable"}

(* The settings are on or off.                                              *)
Switches == regulated \in BOOLEAN /\ legacy \in BOOLEAN /\ \A s \in Setters : setter[s].enable \in BOOLEAN

(* The tenant begins unregulated.                                           *)
LEMMA SettingStart == AdminInit => SettingInv /\ Switches
<1> SUFFICES ASSUME AdminInit PROVE SettingInv /\ Switches
  OBVIOUS
<1>1. SettingInv
  BY DEF AdminInit, SettingInv, NoSetter
<1>2. /\ regulated = FALSE /\ legacy \in BOOLEAN
      /\ \A s \in Setters : setter[s].enable = FALSE
  BY DEF AdminInit, NoSetter
<1> QED
  BY <1>1, <1>2, Zenon DEF Switches

(* Every step on the settings keeps the invariant.                          *)
LEMMA SettingSteps == SettingInv /\ (SettingNext \/ UNCHANGED settingVars) => SettingInv'
<1> SUFFICES ASSUME SettingInv, SettingNext \/ UNCHANGED settingVars PROVE SettingInv'
  OBVIOUS
<1>1. CASE UNCHANGED settingVars
  BY <1>1 DEF settingVars, SettingInv, Enabling
<1>2. ASSUME NEW s \in Setters, NEW pc \in {"check", "disable", "done"}, Step(s, pc)
      PROVE  /\ DOMAIN setter' = Setters
             /\ \A t \in Setters : /\ DOMAIN setter'[t] = {"pc", "enable"} /\ setter'[t].enable = setter[t].enable
                                   /\ setter'[t].pc = IF t = s THEN pc ELSE setter[t].pc
                                   /\ setter'[t].pc \in {"idle", "check", "disable", "write", "done", "refused"}
  BY <1>2 DEF Step, SettingInv
<1>3. ASSUME NEW s \in Setters, NEW on \in BOOLEAN, SetTenantRegulated(s, on) PROVE SettingInv'
  <2>1. PICK pc \in {"check", "done"} : Step(s, pc) /\ pc = IF on THEN "check" ELSE "done"
    BY <1>3 DEF SetTenantRegulated
  <2>2. /\ regulated' = on /\ UNCHANGED legacy
        /\ setRaced' = (setRaced \/ (on /\ \E t \in Setters : Enabling(t)))
    BY <1>3 DEF SetTenantRegulated, Enabling
  <2>3. regulated' /\ ~setRaced' => setter'[s].pc = "check" /\ \A t \in Setters : ~Enabling(t)
    BY <1>2, <2>1, <2>2
  <2>4. regulated' /\ ~setRaced' => \A t \in Setters : ~Enabling(t)'
    BY <1>2, <2>1, <2>3 DEF Enabling
  <2> QED
    BY <1>2, <2>1, <2>3, <2>4 DEF SettingInv
<1>4. ASSUME NEW s \in Setters, NEW on \in BOOLEAN, SetAssemblyAiLegacyEnabled(s, on) PROVE SettingInv'
  <2>1. PICK q : q = [pc |-> IF on /\ regulated THEN "refused" ELSE "write", enable |-> on]
    OBVIOUS
  <2>2. /\ setter[s].pc = "idle" /\ setter' = [setter EXCEPT ![s] = q]
        /\ regulated' = regulated /\ legacy' = legacy /\ setRaced' = setRaced
    BY <1>4, <2>1 DEF SetAssemblyAiLegacyEnabled
  <2>3. q.pc \in {"refused", "write"} /\ q.enable = on /\ DOMAIN q = {"pc", "enable"} /\ (q.pc = "write" => ~(on /\ regulated))
    BY <2>1
  <2>4. DOMAIN setter' = Setters /\ \A t \in Setters : setter'[t] = IF t = s THEN q ELSE setter[t]
    BY <2>2 DEF SettingInv
  <2>5. \A t \in Setters : DOMAIN setter'[t] = {"pc", "enable"} /\ setter'[t].pc \in {"idle", "check", "disable", "write", "done", "refused"}
    BY <2>3, <2>4 DEF SettingInv
  <2>6. regulated /\ ~setRaced => \A t \in Setters : ~Enabling(t)'
    BY <2>2, <2>3, <2>4 DEF SettingInv, Enabling
  <2>7. \A t \in Setters : setter[t].pc \in {"check", "disable"} => setter'[t].pc \in {"check", "disable"}
    BY <2>2, <2>4
  <2> QED
    BY <2>2, <2>4, <2>5, <2>6, <2>7 DEF SettingInv
<1>5. ASSUME NEW s \in Setters, CheckLegacy(s) PROVE SettingInv'
  <2>1. PICK pc \in {"disable", "done"} : Step(s, pc) /\ pc = IF legacy THEN "disable" ELSE "done"
    BY <1>5 DEF CheckLegacy
  <2>2. regulated' = regulated /\ legacy' = legacy /\ setRaced' = setRaced
    BY <1>5 DEF CheckLegacy
  <2>3. regulated /\ ~setRaced => \A t \in Setters : ~Enabling(t)'
    BY <1>2, <2>1 DEF SettingInv, Enabling
  <2>4. legacy => setter'[s].pc = "disable"
    BY <1>2, <2>1
  <2> QED
    BY <1>2, <2>1, <2>2, <2>3, <2>4 DEF SettingInv
<1>6. ASSUME NEW s \in Setters, Step(s, "done"), regulated' = regulated, setRaced' = setRaced,
             regulated /\ ~setRaced => ~legacy'
      PROVE  SettingInv'
  <2>1. regulated /\ ~setRaced => \A t \in Setters : ~Enabling(t)'
    BY <1>2, <1>6 DEF SettingInv, Enabling
  <2> QED
    BY <1>2, <1>6, <2>1 DEF SettingInv
<1>7. ASSUME NEW s \in Setters, DisableLegacy(s) PROVE SettingInv'
  <2>1. Step(s, "done") /\ legacy' = FALSE /\ regulated' = regulated /\ setRaced' = setRaced
    BY <1>7 DEF DisableLegacy
  <2> QED
    BY <1>6, <2>1
<1>8. ASSUME NEW s \in Setters, UpsertLegacy(s) PROVE SettingInv'
  <2>1. Step(s, "done") /\ legacy' = setter[s].enable /\ regulated' = regulated /\ setRaced' = setRaced /\ setter[s].pc = "write"
    BY <1>8 DEF UpsertLegacy
  <2>2. regulated /\ ~setRaced => ~legacy'
    BY <2>1 DEF SettingInv, Enabling
  <2> QED
    BY <1>6, <2>1, <2>2
<1>9. ASSUME NEW s \in Setters, SetterStops(s) PROVE SettingInv'
  <2>1. /\ Step(s, "done") /\ regulated' = regulated /\ legacy' = legacy /\ setter[s].pc \in {"check", "disable", "write"}
        /\ setRaced' = (setRaced \/ setter[s].pc # "write")
    BY <1>9 DEF SetterStops
  <2>2. ~setRaced' => ~setRaced /\ setter[s].pc = "write"
    BY <2>1
  <2>3. regulated /\ ~setRaced => \A t \in Setters : ~Enabling(t)'
    BY <1>2, <2>1 DEF SettingInv, Enabling
  <2>4. ~setRaced' => \A t \in Setters : setter[t].pc \in {"check", "disable"} => setter'[t].pc = setter[t].pc
    BY <1>2, <2>1, <2>2
  <2> QED
    BY <1>2, <2>1, <2>2, <2>3, <2>4 DEF SettingInv
<1> QED
  BY <1>1, <1>3, <1>4, <1>5, <1>7, <1>8, <1>9 DEF SettingNext

(* The settings stay switches.                                              *)
LEMMA SwitchSteps == Switches /\ SettingInv /\ (SettingNext \/ UNCHANGED settingVars) => Switches'
<1> SUFFICES ASSUME Switches, SettingInv, SettingNext \/ UNCHANGED settingVars PROVE Switches'
  OBVIOUS
<1>1. CASE UNCHANGED settingVars
  BY <1>1 DEF settingVars, Switches
<1>2. ASSUME NEW s \in Setters, NEW pc, Step(s, pc)
      PROVE  \A t \in Setters : setter'[t].enable = setter[t].enable
  BY <1>2 DEF Step, SettingInv
<1>3. ASSUME NEW s \in Setters, NEW on \in BOOLEAN, SetTenantRegulated(s, on) PROVE Switches'
  <2>1. regulated' = on /\ legacy' = legacy /\ Step(s, IF on THEN "check" ELSE "done")
    BY <1>3 DEF SetTenantRegulated
  <2>2. \A t \in Setters : setter'[t].enable = setter[t].enable
    BY <1>2, <2>1
  <2> QED
    BY <1>3, <2>1, <2>2, Zenon DEF Switches
<1>4. ASSUME NEW s \in Setters, NEW on \in BOOLEAN, SetAssemblyAiLegacyEnabled(s, on) PROVE Switches'
  <2>1. PICK q : q = [pc |-> IF on /\ regulated THEN "refused" ELSE "write", enable |-> on]
    OBVIOUS
  <2>2. /\ setter' = [setter EXCEPT ![s] = q] /\ regulated' = regulated /\ legacy' = legacy /\ q.enable = on
    BY <1>4, <2>1 DEF SetAssemblyAiLegacyEnabled
  <2>3. \A t \in Setters : setter'[t] = IF t = s THEN q ELSE setter[t]
    BY <2>2 DEF SettingInv
  <2>4. \A t \in Setters : setter'[t] = q \/ setter'[t] = setter[t]
    BY <2>3
  <2>5. \A t \in Setters : setter'[t].enable = on \/ setter'[t].enable = setter[t].enable
    BY <2>2, <2>4
  <2>6. ASSUME NEW t \in Setters PROVE setter'[t].enable \in BOOLEAN
    <3>1. setter'[t].enable = on \/ setter'[t].enable = setter[t].enable
      BY <2>5
    <3>2. setter[t].enable \in BOOLEAN
      BY Zenon DEF Switches
    <3> QED
      BY <1>4, <3>1, <3>2, Zenon
  <2> QED
    BY <2>2, <2>6, Zenon DEF Switches
<1>5. ASSUME NEW s \in Setters, CheckLegacy(s) \/ SetterStops(s) \/ DisableLegacy(s) \/ UpsertLegacy(s) PROVE Switches'
  <2>1. PICK pc : Step(s, pc)
    BY <1>5 DEF CheckLegacy, SetterStops, DisableLegacy, UpsertLegacy
  <2>2. \A t \in Setters : setter'[t].enable = setter[t].enable
    BY <1>2, <2>1
  <2>3. regulated' = regulated /\ (legacy' = legacy \/ legacy' = FALSE \/ legacy' = setter[s].enable)
    BY <1>5 DEF CheckLegacy, SetterStops, DisableLegacy, UpsertLegacy
  <2> QED
    BY <2>2, <2>3, Zenon DEF Switches
<1> QED
  BY <1>1, <1>3, <1>4, <1>5 DEF SettingNext

(* What the invariant of the settings promises.                             *)
LEMMA SettingPromise ==
    ASSUME SettingInv
    PROVE  /\ RegulatedHasNoLegacy
           /\ \A s \in Setters : setter[s].pc \in {"idle", "check", "disable", "write", "done", "refused"}
  BY DEF SettingInv, RegulatedHasNoLegacy, SettledDown

--------------------------------------------------------------------------------
(* The cron jobs.                                                           *)

JobKey == [job : Daily, day : 1 .. MaxDay, at : Servers \cup {Never}]
Delivery == [pc : {"off", "send", "row"}, day : 0 .. MaxDay, due : SUBSET Reports, left : SUBSET Reports,
             sent : SUBSET Reports, failed : SUBSET Reports]
Sweep == [pc : {"off", "disable"}, due : SUBSET Flags, stale : SUBSET Flags]

(* A task row has the key of its job, and that of a delivery its account.   *)
RowIsTrue(r, m) ==
    /\ r.key \in JobKey /\ (r.key.job # "scan" => r.key.at = Never)
    /\ r.key.job = "reports" =>
          /\ r.payload \in Delivery
          /\ r.payload.due = r.payload.sent \cup r.payload.failed /\ r.payload.sent \cap r.payload.failed = {}
          /\ \A x \in r.payload.sent : m[x][r.key.day] > 0

(* A delivery has sent, failed at, or still to send every report due.       *)
DeliveryIsTrue(q, m) ==
    /\ q \in Delivery /\ q.due = q.left \cup q.sent \cup q.failed
    /\ q.left \cap q.sent = {} /\ q.left \cap q.failed = {} /\ q.sent \cap q.failed = {}
    /\ q.pc # "off" => q.day \in 1 .. MaxDay /\ \A x \in q.sent : m[x][q.day] > 0
    /\ q.pc = "row" => q.left = {}

JobsInv ==
    /\ day \in 1 .. MaxDay /\ up \subseteq Servers /\ report \subseteq Reports
    /\ mailed \in [Reports -> [1 .. MaxDay -> Nat]]
    /\ DOMAIN delivery = Servers /\ \A s \in Servers : DeliveryIsTrue(delivery[s], mailed)
    /\ \A r \in rows : RowIsTrue(r, mailed)
    /\ \A r, q \in rows : r.key = q.key => r = q

(* A flag that a sweep is to switch off and that was not edited since was   *)
(* due, and still is, or another sweep was faster.                          *)
FlagsInv ==
    /\ flagEdits \in Nat /\ flag \in [Flags -> [state : States, at : 1 .. MaxDay \cup {Never}]]
    /\ sweep \in [Servers -> Sweep]
    /\ \A s \in Servers : /\ sweep[s].stale \subseteq sweep[s].due
                          /\ \A f \in sweep[s].due \ sweep[s].stale : DueForDisable(f) \/ flag[f].state = "disabled"

CronInv == JobsInv /\ FlagsInv

(* A server that delivers nothing claims nothing.                           *)
LEMMA OffIsTrue == ASSUME NEW m PROVE DeliveryIsTrue(Off, m)
  BY CronAssumption DEF DeliveryIsTrue, Off, Delivery

(* Nor does one that sweeps no flags.                                       *)
LEMMA NoSweepIsOne == NoSweep \in Sweep /\ NoSweep.due = {} /\ NoSweep.stale = {} /\ NoSweep.pc = "off"
  BY DEF NoSweep, Sweep

(* The servers begin with no job.                                           *)
LEMMA CronStart == CronInit => CronInv
<1> SUFFICES ASSUME CronInit PROVE CronInv
  OBVIOUS
<1>1. \A s \in Servers : delivery[s] = Off
  BY DEF CronInit
<1>2. \A s \in Servers : DeliveryIsTrue(delivery[s], mailed)
  BY <1>1, OffIsTrue
<1>3. mailed \in [Reports -> [1 .. MaxDay -> Nat]]
  BY DEF CronInit
<1>4. JobsInv
  BY <1>2, <1>3, CronAssumption DEF CronInit, JobsInv
<1>5. FlagsInv
  BY NoSweepIsOne DEF CronInit, FlagsInv, States
<1> QED
  BY <1>4, <1>5 DEF CronInv

(* A row is added under a key that no row has.                              *)
LEMMA RowAdded ==
    ASSUME NEW m, NEW key, NEW payload, EnqueueCronTask(key, payload),
           \A r \in rows : RowIsTrue(r, m), \A r, q \in rows : r.key = q.key => r = q,
           RowIsTrue([key |-> key, payload |-> payload], m)
    PROVE  (\A r \in rows' : RowIsTrue(r, m)) /\ \A r, q \in rows' : r.key = q.key => r = q
<1>1. PICK n : n = [key |-> key, payload |-> payload]
  OBVIOUS
<1>2. n.key = key /\ RowIsTrue(n, m)
  BY <1>1
<1>3. rows' = rows \/ (rows' = rows \cup {n} /\ \A r \in rows : r.key # key)
  BY <1>1 DEF EnqueueCronTask
<1> QED
  BY <1>2, <1>3

(* The steps of the daily jobs.                                             *)
LEMMA JobSteps ==
    ASSUME JobsInv, ReportNext \/ TickNext \/ FlagNext \/ UNCHANGED cronVars
    PROVE  JobsInv'
<1>0. /\ day \in 1 .. MaxDay /\ mailed \in [Reports -> [1 .. MaxDay -> Nat]]
      /\ \A s \in Servers : DeliveryIsTrue(delivery[s], mailed)
      /\ \A r \in rows : RowIsTrue(r, mailed)
      /\ \A r, q \in rows : r.key = q.key => r = q
      /\ "scan" \in Daily /\ "cleanup" \in Daily /\ "reports" \in Daily
  BY DEF JobsInv, Daily
<1>1. ASSUME UNCHANGED <<rows, mailed, delivery>>, day' \in 1 .. MaxDay, up' \subseteq Servers, report' \subseteq Reports PROVE JobsInv'
  BY <1>1 DEF JobsInv
<1>2. ASSUME UNCHANGED cronVars PROVE JobsInv'
  BY <1>0, <1>1, <1>2 DEF cronVars, JobsInv
<1>3. ASSUME NextDay PROVE JobsInv'
  BY <1>0, <1>1, <1>3, CronAssumption DEF NextDay, JobsInv
<1>4. ASSUME NEW r \in Reports, CreateReport(r) \/ DeleteReport(r) PROVE JobsInv'
  BY <1>0, <1>1, <1>4 DEF CreateReport, DeleteReport, JobsInv
<1>5. ASSUME NEW s \in Servers, StartCronScheduler(s) PROVE JobsInv'
  BY <1>0, <1>1, <1>5 DEF StartCronScheduler, JobsInv
<1>6. ASSUME NEW s \in Servers, NEW q, delivery' = [delivery EXCEPT ![s] = q], DeliveryIsTrue(q, mailed),
             UNCHANGED <<day, rows, report, mailed>>, up' \subseteq Servers
      PROVE  JobsInv'
  <2>1. \A t \in Servers : delivery'[t] = IF t = s THEN q ELSE delivery[t]
    BY <1>6 DEF JobsInv
  <2>2. \A t \in Servers : DeliveryIsTrue(delivery'[t], mailed)
    BY <1>0, <1>6, <2>1
  <2> QED
    BY <1>0, <1>6, <2>2 DEF JobsInv
<1>7. ASSUME NEW s \in Servers, StopCronScheduler(s) PROVE JobsInv'
  BY <1>0, <1>6, <1>7, OffIsTrue DEF StopCronScheduler, JobsInv
<1>8. ASSUME NEW s \in Servers, StartDelivery(s) PROVE JobsInv'
  <2>1. PICK due, q : due = {r \in report : IsDeliveryDue(r, day)} /\ q = [Off EXCEPT !.pc = "send", !.day = day, !.due = due, !.left = due]
    OBVIOUS
  <2>2. /\ delivery' = [delivery EXCEPT ![s] = IF due = {} THEN Off ELSE q]
        /\ UNCHANGED <<day, up, rows, report, mailed>>
    BY <1>8, <2>1 DEF StartDelivery
  <2>3. q = [pc |-> "send", day |-> day, due |-> due, left |-> due, sent |-> {}, failed |-> {}] /\ due \subseteq Reports
    BY <2>1 DEF Off, JobsInv
  <2>4. DeliveryIsTrue(q, mailed)
    BY <1>0, <2>3, CronAssumption DEF DeliveryIsTrue, Delivery
  <2>5. PICK n : n = (IF due = {} THEN Off ELSE q)
    OBVIOUS
  <2>6. DeliveryIsTrue(n, mailed) /\ up' \subseteq Servers
    BY <2>2, <2>4, <2>5, OffIsTrue DEF JobsInv
  <2> QED
    BY <1>6, <2>2, <2>5, <2>6
<1>9. ASSUME NEW s \in Servers, FinishDelivery(s) PROVE JobsInv'
  <2>1. PICK q, key : q = delivery[s] /\ key = KeyOf(s, "reports", q.day)
    OBVIOUS
  <2>2. /\ q.pc = "row" /\ EnqueueCronTask(key, q) /\ delivery' = [delivery EXCEPT ![s] = Off]
        /\ UNCHANGED <<day, up, report, mailed>>
    BY <1>9, <2>1 DEF FinishDelivery
  <2>3. DeliveryIsTrue(q, mailed)
    BY <1>0, <2>1
  <2>4. key = [job |-> "reports", day |-> q.day, at |-> Never] /\ q.day \in 1 .. MaxDay
    BY <2>1, <2>2, <2>3 DEF KeyOf, DeliveryIsTrue
  <2>5. key \in JobKey /\ key.at = Never /\ key.day = q.day /\ key.job = "reports"
    BY <1>0, <2>4 DEF JobKey
  <2>6. RowIsTrue([key |-> key, payload |-> q], mailed)
    BY <2>2, <2>3, <2>5 DEF RowIsTrue, DeliveryIsTrue
  <2>7. (\A r \in rows' : RowIsTrue(r, mailed)) /\ \A r, p \in rows' : r.key = p.key => r = p
    BY <1>0, <2>2, <2>6, RowAdded
  <2>8. \A t \in Servers : delivery'[t] = IF t = s THEN Off ELSE delivery[t]
    BY <2>2 DEF JobsInv
  <2>9. \A t \in Servers : DeliveryIsTrue(delivery'[t], mailed)
    BY <1>0, <2>8, OffIsTrue
  <2> QED
    BY <2>2, <2>7, <2>9 DEF JobsInv
<1>10. ASSUME NEW s \in Servers, NEW j \in {"cleanup", "scan"}, EnqueueCronTask(KeyOf(s, j, day), Off),
              UNCHANGED <<day, up, report, mailed, delivery>>
       PROVE  JobsInv'
  <2>1. PICK key : key = KeyOf(s, j, day)
    OBVIOUS
  <2>2. key \in JobKey /\ key.job = j /\ (j # "scan" => key.at = Never) /\ j # "reports"
    BY <1>0, <1>10, <2>1 DEF KeyOf, JobKey
  <2>3. RowIsTrue([key |-> key, payload |-> Off], mailed)
    BY <2>2 DEF RowIsTrue
  <2>4. (\A r \in rows' : RowIsTrue(r, mailed)) /\ \A r, p \in rows' : r.key = p.key => r = p
    BY <1>0, <1>10, <2>1, <2>3, RowAdded
  <2> QED
    BY <1>10, <2>4 DEF JobsInv
<1>11. ASSUME NEW s \in Servers, CodeCleanup(s) \/ SecurityScanner(s) PROVE JobsInv'
  BY <1>10, <1>11 DEF CodeCleanup, SecurityScanner
<1>12. ASSUME NEW s \in Servers, NEW r \in Reports, NEW fails \in BOOLEAN, SendReportEmail(s, r, fails) PROVE JobsInv'
  <2>1. PICK o : o = delivery[s]
    OBVIOUS
  <2>2. PICK q : q = [o EXCEPT !.left = @ \ {r}, !.sent = IF fails THEN @ ELSE @ \cup {r},
                               !.failed = IF fails THEN @ \cup {r} ELSE @,
                               !.pc = IF o.left = {r} THEN "row" ELSE "send"]
    OBVIOUS
  <2>3. /\ o.pc = "send" /\ r \in o.left /\ delivery' = [delivery EXCEPT ![s] = q]
        /\ mailed' = IF fails THEN mailed ELSE [mailed EXCEPT ![r][o.day] = @ + 1]
        /\ UNCHANGED <<day, up, rows, report>>
    BY <1>12, <2>1, <2>2 DEF SendReportEmail
  <2>4. DeliveryIsTrue(o, mailed) /\ o.day \in 1 .. MaxDay
    BY <1>0, <2>1, <2>3 DEF DeliveryIsTrue
  <2>5. q = [pc |-> IF o.left = {r} THEN "row" ELSE "send", day |-> o.day, due |-> o.due, left |-> o.left \ {r},
             sent |-> IF fails THEN o.sent ELSE o.sent \cup {r}, failed |-> IF fails THEN o.failed \cup {r} ELSE o.failed]
    BY <2>2, <2>4 DEF DeliveryIsTrue, Delivery
  <2>6. /\ mailed' \in [Reports -> [1 .. MaxDay -> Nat]]
        /\ \A x \in Reports, d \in 1 .. MaxDay : mailed'[x][d] >= mailed[x][d]
        /\ ~fails => mailed'[r][o.day] > 0
    <3>0. \A x \in Reports, d \in 1 .. MaxDay : mailed[x][d] \in Nat
      BY <1>0
    <3>1. CASE fails
      <4>1. mailed' = mailed
        BY <2>3, <3>1
      <4> QED
        BY <1>0, <3>0, <3>1, <4>1
    <3>2. CASE ~fails
      <4>6. PICK n \in Nat : n = mailed[r][o.day] + 1
        BY <2>4, <3>0
      <4>1. mailed' = [mailed EXCEPT ![r][o.day] = n]
        BY <2>3, <3>2, <4>6
      <4>2. /\ mailed' \in [Reports -> [1 .. MaxDay -> Nat]]
            /\ \A x \in Reports, d \in 1 .. MaxDay : mailed'[x][d] = IF x = r /\ d = o.day THEN n ELSE mailed[x][d]
        BY <1>0, <2>4, <4>1
      <4>3. mailed'[r][o.day] = mailed[r][o.day] + 1 /\ mailed[r][o.day] \in Nat
        BY <2>4, <3>0, <4>2, <4>6
      <4>4. ASSUME NEW x \in Reports, NEW d \in 1 .. MaxDay PROVE mailed'[x][d] >= mailed[x][d]
        <5>1. mailed[x][d] \in Nat /\ mailed'[x][d] = IF x = r /\ d = o.day THEN mailed[r][o.day] + 1 ELSE mailed[x][d]
          BY <3>0, <4>2, <4>6
        <5> QED
          BY <4>3, <5>1
      <4>5. mailed'[r][o.day] > 0
        BY <4>3
      <4> QED
        BY <4>2, <4>4, <4>5
    <3> QED
      BY <3>1, <3>2
  <2>16. \A x \in Reports, d \in 1 .. MaxDay : mailed[x][d] > 0 => mailed'[x][d] > 0
    <3> SUFFICES ASSUME NEW x \in Reports, NEW d \in 1 .. MaxDay, mailed[x][d] > 0 PROVE mailed'[x][d] > 0
      OBVIOUS
    <3>1. mailed[x][d] \in Nat /\ mailed'[x][d] \in Nat /\ mailed'[x][d] >= mailed[x][d]
      BY <1>0, <2>6
    <3> QED
      BY <3>1
  <2>7. ASSUME NEW p, DeliveryIsTrue(p, mailed) PROVE DeliveryIsTrue(p, mailed')
    <3>1. p.sent \subseteq Reports
      BY <2>7 DEF DeliveryIsTrue, Delivery
    <3>2. p.pc # "off" => p.day \in 1 .. MaxDay /\ \A x \in p.sent : mailed[x][p.day] > 0
      BY <2>7 DEF DeliveryIsTrue
    <3>3. p.pc # "off" => \A x \in p.sent : mailed'[x][p.day] > 0
      BY <2>16, <3>1, <3>2
    <3> QED
      BY <2>7, <3>2, <3>3 DEF DeliveryIsTrue
  <2>8. ASSUME NEW p, RowIsTrue(p, mailed) PROVE RowIsTrue(p, mailed')
    <3>1. p.key.job = "reports" => p.payload.sent \subseteq Reports /\ p.key.day \in 1 .. MaxDay
      BY <2>8 DEF RowIsTrue, Delivery, JobKey
    <3>2. p.key.job = "reports" => \A x \in p.payload.sent : mailed'[x][p.key.day] > 0
      BY <2>8, <2>16, <3>1 DEF RowIsTrue
    <3> QED
      BY <2>8, <3>2 DEF RowIsTrue
  <2>9. DeliveryIsTrue(o, mailed')
    BY <2>4, <2>7
  <2>10. q \in Delivery /\ q.day = o.day /\ q.due = o.due /\ q.left = o.left \ {r} /\ q.pc = (IF o.left = {r} THEN "row" ELSE "send")
         /\ q.sent = (IF fails THEN o.sent ELSE o.sent \cup {r}) /\ q.failed = (IF fails THEN o.failed \cup {r} ELSE o.failed)
    BY <2>4, <2>5 DEF DeliveryIsTrue, Delivery
  <2>11. \A x \in q.sent : mailed'[x][q.day] > 0
    BY <2>3, <2>6, <2>9, <2>10 DEF DeliveryIsTrue
  <2>12. DeliveryIsTrue(q, mailed')
    BY <2>3, <2>4, <2>9, <2>10, <2>11 DEF DeliveryIsTrue
  <2>13. \A t \in Servers : delivery'[t] = IF t = s THEN q ELSE delivery[t]
    BY <2>3 DEF JobsInv
  <2>14. \A t \in Servers : DeliveryIsTrue(delivery'[t], mailed')
    BY <1>0, <2>7, <2>12, <2>13
  <2>15. \A p \in rows' : RowIsTrue(p, mailed')
    BY <1>0, <2>3, <2>8
  <2> QED
    BY <2>3, <2>6, <2>14, <2>15 DEF JobsInv
<1>13. ASSUME NEW f, NEW new, Edit(f, new) PROVE JobsInv'
  BY <1>0, <1>1, <1>13 DEF Edit, JobsInv
<1>14. ASSUME NEW s \in Servers, StartSweep(s) \/ SweepFails(s) \/ \E f \in Flags : DisableFlag(s, f) PROVE JobsInv'
  BY <1>0, <1>1, <1>14 DEF StartSweep, SweepFails, DisableFlag, JobsInv
<1>15. CASE ReportNext
  BY <1>3, <1>4, <1>5, <1>7, <1>8, <1>9, <1>12, <1>15 DEF ReportNext
<1>16. CASE TickNext
  BY <1>3, <1>5, <1>7, <1>11, <1>16 DEF TickNext
<1>17. CASE FlagNext
  BY <1>3, <1>5, <1>7, <1>13, <1>14, <1>17 DEF FlagNext, UpsertFlag, SetFlagState
<1> QED
  BY <1>2, <1>15, <1>16, <1>17

(* A sweep ends or begins, or a flag is due longer.                         *)
LEMMA SweepMove ==
    ASSUME FlagsInv, NEW s \in Servers, NEW q \in Sweep, sweep' = [sweep EXCEPT ![s] = q], UNCHANGED <<flag, day, flagEdits>>,
           q.stale = {}, \A f \in q.due : DueForDisable(f)
    PROVE  FlagsInv'
<1>1. sweep' \in [Servers -> Sweep] /\ \A t \in Servers : sweep'[t] = IF t = s THEN q ELSE sweep[t]
  BY DEF FlagsInv
<1>2. \A f \in Flags : DueForDisable(f)' <=> DueForDisable(f)
  BY DEF DueForDisable
<1>3. ASSUME NEW t \in Servers
      PROVE  /\ sweep'[t].stale \subseteq sweep'[t].due
             /\ \A f \in sweep'[t].due \ sweep'[t].stale : DueForDisable(f)' \/ flag'[f].state = "disabled"
  BY <1>1, <1>2 DEF FlagsInv, Sweep
<1> QED
  BY <1>1, <1>3 DEF FlagsInv

(* Flags and sweeps follow each other.                                      *)
LEMMA FlagSteps ==
    ASSUME FlagsInv, JobsInv, ReportNext \/ TickNext \/ FlagNext \/ UNCHANGED cronVars
    PROVE  FlagsInv'
<1>0. /\ flag \in [Flags -> [state : States, at : 1 .. MaxDay \cup {Never}]] /\ sweep \in [Servers -> Sweep]
      /\ day \in 1 .. MaxDay
      /\ \A s \in Servers : /\ sweep[s].stale \subseteq sweep[s].due
                            /\ \A f \in sweep[s].due \ sweep[s].stale : DueForDisable(f) \/ flag[f].state = "disabled"
  BY DEF FlagsInv, JobsInv
<1>1. ASSUME UNCHANGED <<flag, sweep, flagEdits>>, day' \in Nat, day' >= day PROVE FlagsInv'
  <2>1. ASSUME NEW f \in Flags, DueForDisable(f) PROVE DueForDisable(f)'
    <3>1. flag[f].at \in 1 .. MaxDay
      BY <1>0, <2>1 DEF DueForDisable
    <3> QED
      BY <1>0, <1>1, <2>1, <3>1 DEF DueForDisable
  <2>2. ASSUME NEW s \in Servers
        PROVE  \A f \in sweep[s].due \ sweep[s].stale : DueForDisable(f)' \/ flag'[f].state = "disabled"
    BY <1>0, <1>1, <2>1 DEF Sweep
  <2> QED
    BY <1>0, <1>1, <2>2 DEF FlagsInv
<1>2. ASSUME UNCHANGED <<flag, sweep, day, flagEdits>> PROVE FlagsInv'
  BY <1>0, <1>1, <1>2
<1>3. ASSUME NextDay PROVE FlagsInv'
  BY <1>0, <1>1, <1>3 DEF NextDay
<1>4. ASSUME NEW s \in Servers,
             \/ StartCronScheduler(s) \/ StartDelivery(s) \/ FinishDelivery(s) \/ CodeCleanup(s) \/ SecurityScanner(s)
             \/ \E r \in Reports, fails \in BOOLEAN : SendReportEmail(s, r, fails)
      PROVE  FlagsInv'
  BY <1>2, <1>4 DEF StartCronScheduler, StartDelivery, FinishDelivery, CodeCleanup, SecurityScanner, SendReportEmail
<1>5. ASSUME NEW r \in Reports, CreateReport(r) \/ DeleteReport(r) PROVE FlagsInv'
  BY <1>2, <1>5 DEF CreateReport, DeleteReport
<1>6. ASSUME UNCHANGED cronVars PROVE FlagsInv'
  BY <1>2, <1>6 DEF cronVars
<1>7. ASSUME NEW s \in Servers, StopCronScheduler(s) \/ SweepFails(s) PROVE FlagsInv'
  <2>1. sweep' = [sweep EXCEPT ![s] = NoSweep] /\ UNCHANGED <<flag, day, flagEdits>>
    BY <1>7 DEF StopCronScheduler, SweepFails
  <2>2. PICK q \in Sweep : q = NoSweep /\ q.due = {} /\ q.stale = {}
    BY NoSweepIsOne
  <2> QED
    BY <2>1, <2>2, SweepMove
<1>8. ASSUME NEW s \in Servers, StartSweep(s) PROVE FlagsInv'
  <2>1. PICK q : q = [pc |-> "disable", due |-> GetFlagsDueForDisable, stale |-> {}]
    OBVIOUS
  <2>2. sweep' = [sweep EXCEPT ![s] = q] /\ UNCHANGED <<flag, day, flagEdits>>
    BY <1>8, <2>1 DEF StartSweep
  <2>3. GetFlagsDueForDisable \subseteq Flags /\ \A f \in GetFlagsDueForDisable : DueForDisable(f)
    BY DEF GetFlagsDueForDisable
  <2>4. q \in Sweep /\ q.stale = {} /\ \A f \in q.due : DueForDisable(f)
    BY <2>1, <2>3 DEF Sweep
  <2> QED
    BY <2>2, <2>4, SweepMove
<1>9. ASSUME NEW g \in Flags, NEW new \in [state : States, at : 1 .. MaxDay \cup {Never}], Edit(g, new) PROVE FlagsInv'
  <2>1. /\ flag' = [flag EXCEPT ![g] = new] /\ day' = day /\ flagEdits' = flagEdits + 1
        /\ sweep' = [s \in Servers |-> [sweep[s] EXCEPT !.stale = IF g \in sweep[s].due THEN @ \cup {g} ELSE @]]
    BY <1>9 DEF Edit
  <2>2. /\ flag' \in [Flags -> [state : States, at : 1 .. MaxDay \cup {Never}]]
        /\ \A f \in Flags \ {g} : flag'[f] = flag[f]
    BY <1>0, <2>1
  <2>3. \A f \in Flags \ {g} : DueForDisable(f)' <=> DueForDisable(f)
    BY <2>1, <2>2 DEF DueForDisable
  <2>4. ASSUME NEW s \in Servers
        PROVE  /\ sweep'[s] \in Sweep /\ sweep'[s].due = sweep[s].due
               /\ sweep'[s].stale = IF g \in sweep[s].due THEN sweep[s].stale \cup {g} ELSE sweep[s].stale
    <3>1. sweep'[s] = [sweep[s] EXCEPT !.stale = IF g \in sweep[s].due THEN sweep[s].stale \cup {g} ELSE sweep[s].stale]
      BY <2>1
    <3>2. sweep[s] \in Sweep
      BY <1>0
    <3> QED
      BY <3>1, <3>2 DEF Sweep
  <2>5. sweep' \in [Servers -> Sweep]
    BY <2>1, <2>4
  <2>6. ASSUME NEW s \in Servers
        PROVE  /\ sweep'[s].stale \subseteq sweep'[s].due
               /\ \A f \in sweep'[s].due \ sweep'[s].stale : DueForDisable(f)' \/ flag'[f].state = "disabled"
    <3>1. sweep[s].due \subseteq Flags
      BY <1>0 DEF Sweep
    <3> QED
      BY <1>0, <2>2, <2>3, <2>4, <3>1, ZenonT(40)
  <2>7. flagEdits' \in Nat
    BY <2>1 DEF FlagsInv
  <2> QED
    BY <2>2, <2>5, <2>6, <2>7 DEF FlagsInv
<1>10. ASSUME NEW s \in Servers, NEW g \in Flags, DisableFlag(s, g) PROVE FlagsInv'
  <2>1. PICK o, q : o = sweep[s] /\ q = (IF o.due = {g} THEN NoSweep ELSE [o EXCEPT !.due = @ \ {g}, !.stale = @ \ {g}])
    OBVIOUS
  <2>2. /\ flag' = [flag EXCEPT ![g].state = "disabled"] /\ day' = day /\ flagEdits' = flagEdits /\ sweep' = [sweep EXCEPT ![s] = q]
    <3>1. sweep' = [sweep EXCEPT ![s] = IF sweep[s].due = {g} THEN NoSweep
                                        ELSE [sweep[s] EXCEPT !.due = @ \ {g}, !.stale = @ \ {g}]]
      BY <1>10 DEF DisableFlag
    <3> QED
      BY <1>10, <2>1, <3>1 DEF DisableFlag
  <2>3. /\ flag' \in [Flags -> [state : States, at : 1 .. MaxDay \cup {Never}]]
        /\ (\A f \in Flags \ {g} : flag'[f] = flag[f]) /\ flag'[g].state = "disabled"
    BY <1>0, <2>2 DEF States
  <2>4. \A f \in Flags \ {g} : DueForDisable(f)' <=> DueForDisable(f)
    BY <2>2, <2>3 DEF DueForDisable
  <2>5. q \in Sweep /\ q.due \subseteq o.due /\ q.stale \subseteq q.due /\ \A f \in q.due \ q.stale : f \in o.due \ o.stale
    <3>1. o \in Sweep /\ o.stale \subseteq o.due
      BY <1>0, <2>1
    <3>2. CASE o.due = {g}
      BY <2>1, <3>2, NoSweepIsOne
    <3>3. CASE o.due # {g}
      <4>1. q = [o EXCEPT !.due = o.due \ {g}, !.stale = o.stale \ {g}]
        BY <2>1, <3>3
      <4>2. q \in Sweep /\ q.due = o.due \ {g} /\ q.stale = o.stale \ {g}
        BY <3>1, <4>1 DEF Sweep
      <4> QED
        BY <3>1, <4>2
    <3> QED
      BY <3>2, <3>3
  <2>6. sweep' \in [Servers -> Sweep] /\ \A t \in Servers : sweep'[t] = IF t = s THEN q ELSE sweep[t]
    BY <1>0, <2>2, <2>5
  <2>7. ASSUME NEW t \in Servers
        PROVE  /\ sweep'[t].stale \subseteq sweep'[t].due
               /\ \A f \in sweep'[t].due \ sweep'[t].stale : DueForDisable(f)' \/ flag'[f].state = "disabled"
    <3>1. sweep[t].due \subseteq Flags
      BY <1>0 DEF Sweep
    <3>2. \A f \in sweep'[t].due \ sweep'[t].stale : f \in sweep[t].due \ sweep[t].stale
      BY <2>1, <2>5, <2>6
    <3>3. \A f \in sweep'[t].due \ sweep'[t].stale : f \in Flags /\ (DueForDisable(f) \/ flag[f].state = "disabled")
      BY <1>0, <3>1, <3>2
    <3>4. \A f \in sweep'[t].due \ sweep'[t].stale : DueForDisable(f)' \/ flag'[f].state = "disabled"
      BY <2>3, <2>4, <3>3
    <3>5. sweep'[t].stale \subseteq sweep'[t].due
      BY <1>0, <2>5, <2>6
    <3> QED
      BY <3>4, <3>5
  <2> QED
    BY <2>2, <2>3, <2>6, <2>7 DEF FlagsInv
<1>11. ASSUME NEW f \in Flags, NEW at \in 1 .. MaxDay \cup {Never}, UpsertFlag(f, at) PROVE FlagsInv'
  <2>1. [state |-> "enabled", at |-> at] \in [state : States, at : 1 .. MaxDay \cup {Never}]
    BY <1>11 DEF States
  <2> QED
    BY <1>9, <1>11, <2>1 DEF UpsertFlag
<1>12. ASSUME NEW f \in Flags, NEW state \in States, SetFlagState(f, state) PROVE FlagsInv'
  <2>1. [flag[f] EXCEPT !.state = state] \in [state : States, at : 1 .. MaxDay \cup {Never}]
    BY <1>0, <1>12
  <2> QED
    BY <1>9, <1>12, <2>1 DEF SetFlagState
<1>13. CASE ReportNext
  BY <1>3, <1>4, <1>5, <1>7, <1>13 DEF ReportNext
<1>14. CASE TickNext
  BY <1>3, <1>4, <1>7, <1>14 DEF TickNext
<1>15. CASE FlagNext
  BY <1>3, <1>4, <1>7, <1>8, <1>10, <1>11, <1>12, <1>15 DEF FlagNext
<1> QED
  BY <1>6, <1>13, <1>14, <1>15

(* Every step of the cron jobs keeps the invariant.                         *)
LEMMA CronSteps == CronInv /\ (ReportNext \/ TickNext \/ FlagNext \/ UNCHANGED cronVars) => CronInv'
  BY JobSteps, FlagSteps DEF CronInv

(* What the invariants of the jobs promise.                                 *)
LEMMA CronPromise == CronInv => CronTypeOK /\ OneRowPerDay /\ DeliveryAccountsForAll
<1> SUFFICES ASSUME JobsInv, FlagsInv PROVE CronTypeOK /\ OneRowPerDay /\ DeliveryAccountsForAll
  BY DEF CronInv
<1>1. OneRowPerDay
  <2> SUFFICES ASSUME NEW r \in rows, NEW q \in rows, r.key.job = q.key.job, r.key.day = q.key.day, r.key.job # "scan" PROVE r = q
    BY DEF OneRowPerDay
  <2>1. r.key \in JobKey /\ q.key \in JobKey /\ r.key.at = Never /\ q.key.at = Never
    BY DEF JobsInv, RowIsTrue
  <2>2. r.key = q.key
    BY <2>1 DEF JobKey
  <2> QED
    BY <2>2 DEF JobsInv
<1>2. DeliveryAccountsForAll
  BY DEF DeliveryAccountsForAll, JobsInv, RowIsTrue
<1>3. ASSUME NEW s \in Servers PROVE delivery[s].pc \in {"off", "send", "row"} /\ delivery[s].left \subseteq delivery[s].due
  <2>1. DeliveryIsTrue(delivery[s], mailed)
    BY DEF JobsInv
  <2> QED
    BY <2>1 DEF DeliveryIsTrue, Delivery
<1>4. \A r \in Reports, d \in 1 .. MaxDay : mailed[r][d] \in Nat
  BY DEF JobsInv
<1>5. \A f \in Flags : flag[f].state \in States /\ flag[f].at \in 1 .. MaxDay \cup {Never}
  BY DEF FlagsInv
<1>6. \A s \in Servers : sweep[s].pc \in {"off", "disable"} /\ sweep[s].stale \subseteq sweep[s].due
  BY DEF FlagsInv, Sweep
<1> QED
  BY <1>1, <1>2, <1>3, <1>4, <1>5, <1>6 DEF CronTypeOK, JobsInv

(* Only a sweep that found it due, or that it was edited under, switches a  *)
(* flag off.                                                                *)
LEMMA OffOnlyWhenDue ==
    ASSUME CronInv, ReportNext \/ TickNext \/ FlagNext \/ UNCHANGED cronVars, NEW g \in Flags,
           flag[g].state # "disabled", flag'[g].state = "disabled", flagEdits' = flagEdits
    PROVE  DueForDisable(g) \/ \E s \in Servers : g \in sweep[s].stale
<1>0. /\ flag \in [Flags -> [state : States, at : 1 .. MaxDay \cup {Never}]] /\ sweep \in [Servers -> Sweep]
  BY DEF CronInv, FlagsInv
<1>1. flag' # flag
  OBVIOUS
<1>2. ~UNCHANGED cronVars /\ ~ReportNext /\ ~TickNext
  <2>1. UNCHANGED cronVars => flag' = flag
    BY DEF cronVars
  <2>2. ~NextDay /\ \A s \in Servers : ~StartCronScheduler(s) /\ ~StopCronScheduler(s)
    BY <1>1 DEF NextDay, StartCronScheduler, StopCronScheduler
  <2>5. \A r \in Reports : ~CreateReport(r) /\ ~DeleteReport(r)
    BY <1>1 DEF CreateReport, DeleteReport
  <2>6. \A s \in Servers : ~StartDelivery(s) /\ ~FinishDelivery(s)
    BY <1>1 DEF StartDelivery, FinishDelivery
  <2>7. ASSUME NEW s \in Servers, NEW r \in Reports, NEW fails \in BOOLEAN, SendReportEmail(s, r, fails) PROVE FALSE
    <3>1. flag' = flag
      BY <2>7 DEF SendReportEmail
    <3> QED
      BY <1>1, <3>1
  <2>3. ~ReportNext
    BY <2>2, <2>5, <2>6, <2>7, Zenon DEF ReportNext
  <2>4. ~TickNext
    BY <1>1, <2>2 DEF TickNext, CodeCleanup, SecurityScanner
  <2> QED
    BY <1>1, <2>1, <2>3, <2>4, Zenon
<1>3. ASSUME NEW f, NEW new, Edit(f, new) PROVE FALSE
  BY <1>3 DEF Edit, CronInv, FlagsInv
<1>4. PICK s \in Servers, f \in Flags : DisableFlag(s, f)
  BY <1>1, <1>2, <1>3 DEF FlagNext, NextDay, StartCronScheduler, StopCronScheduler, StartSweep, SweepFails, UpsertFlag, SetFlagState
<1>5. f = g
  BY <1>0, <1>4 DEF DisableFlag
<1>6. g \in sweep[s].due
  BY <1>4, <1>5 DEF DisableFlag
<1> QED
  BY <1>6 DEF CronInv, FlagsInv

--------------------------------------------------------------------------------
(* Backup and restore.                                                      *)

AppStages == {"app_dump", "app_file", "app_meta"}
AuditStages == {"audit_dump", "audit_file", "audit_meta", "done"}
Run == [pc : {"idle", "failed"} \cup AppStages \cup AuditStages, at : [Databases -> 0 .. MaxSecond],
        rows : SUBSET Writes, first : Slots \cup {NoFile}]
Opens == Backups \cup {NoFile}
DumpFile == [rows : SUBSET Writes, iv : Opens]
MetaFile == [iv : Opens]
IvOf(b) == IF encrypting THEN b ELSE NoFile
Covered(S, T, ord) == \A x \in S : ord[x] = "event" => x \in T

(* A run chooses the second of a label when it enters it.                   *)
RunShape(q) ==
    /\ q \in Run
    /\ q.pc = "idle" => q.first = NoFile /\ q.at["app"] = 0 /\ q.at["audit"] = 0
    /\ q.pc \in AppStages => q.first = NoFile /\ q.at["app"] # 0 /\ q.at["audit"] = 0
    /\ q.pc \in AuditStages => q.first # NoFile /\ q.at["app"] # 0 /\ q.at["audit"] # 0

(* The files of a run hold what it wrote: the dump of the application no    *)
(* more than was written, the one of the audit log, taken later, every      *)
(* event that came before one of its rows.                                  *)
FilesOf(q, d, m, w, iv, ord) ==
    /\ q.pc = "app_file" => q.rows \subseteq w
    /\ q.pc \in {"app_meta"} \cup AuditStages => d[<<"app", q.at["app"]>>] \in [rows : SUBSET w, iv : {iv}]
    /\ q.pc \in AuditStages => m[<<"app", q.at["app"]>>] = [iv |-> iv]
    /\ q.pc = "audit_file" => Covered(d[<<"app", q.at["app"]>>].rows, q.rows, ord)
    /\ q.pc \in {"audit_meta", "done"} =>
          /\ d[<<"audit", q.at["audit"]>>] \in [rows : SUBSET Writes, iv : {iv}]
          /\ Covered(d[<<"app", q.at["app"]>>].rows, d[<<"audit", q.at["audit"]>>].rows, ord)
    /\ q.pc = "done" => m[<<"audit", q.at["audit"]>>] = [iv |-> iv]

StoreInv ==
    /\ second \in 1 .. MaxSecond /\ written \subseteq Writes /\ audited \subseteq Writes /\ Covered(written, audited, order)
    /\ dump \in [Slots -> DumpFile \cup {NoFile}] /\ meta \in [Slots -> MetaFile \cup {NoFile}]

RunsInv ==
    /\ DOMAIN backup = Backups /\ \A b \in Backups : RunShape(backup[b])
    /\ ~clash =>
          /\ \A b, c \in Backups : b # c => \A l \in Databases : backup[b].at[l] # 0 => backup[b].at[l] # backup[c].at[l]
          /\ \A b \in Backups : FilesOf(backup[b], dump, meta, written, IvOf(b), order)

Loading(x) == x.pc \in {"load", "load_ok", "cleanup"} /\ x.meta.iv # NoFile

(* Cleartext lies there for a restore that will remove it.                  *)
RestoresInv ==
    /\ temp \in [Slots -> {NoFile} \cup SUBSET Writes]
    /\ DOMAIN restore = Restores
    /\ \A r \in Restores :
          /\ DOMAIN restore[r] = {"pc", "slot", "meta", "bytes", "rows"}
          /\ restore[r].pc \in {"idle", "decrypt", "load", "load_ok", "cleanup", "done", "failed"}
          /\ restore[r].pc # "idle" => restore[r].slot \in Slots /\ restore[r].bytes \in DumpFile
    /\ \A s \in Slots : temp[s] # NoFile => \E r \in Restores : Loading(restore[r]) /\ restore[r].slot = s

BackupInv == StoreInv /\ RunsInv /\ RestoresInv

(* What a run has written stays while nobody else writes to its files.      *)
LEMMA FilesKept ==
    ASSUME NEW q, NEW iv, RunShape(q), FilesOf(q, dump, meta, written, iv, order),
           order' = order, written \subseteq written',
           \A l \in Databases : q.at[l] # 0 => /\ dump'[<<l, q.at[l]>>] = dump[<<l, q.at[l]>>]
                                              /\ meta'[<<l, q.at[l]>>] = meta[<<l, q.at[l]>>]
    PROVE  FilesOf(q, dump', meta', written', iv, order)
<1>0. "app" \in Databases /\ "audit" \in Databases
  BY BackupAssumption
<1>1. q.pc = "app_file" => q.rows \subseteq written'
  BY <1>0 DEF FilesOf
<1>2. q.pc \in {"app_meta"} \cup AuditStages =>
        /\ dump'[<<"app", q.at["app"]>>] = dump[<<"app", q.at["app"]>>]
        /\ meta'[<<"app", q.at["app"]>>] = meta[<<"app", q.at["app"]>>]
  BY <1>0 DEF RunShape, AppStages
<1>3. q.pc \in AuditStages =>
        /\ dump'[<<"audit", q.at["audit"]>>] = dump[<<"audit", q.at["audit"]>>]
        /\ meta'[<<"audit", q.at["audit"]>>] = meta[<<"audit", q.at["audit"]>>]
  BY <1>0 DEF RunShape
<1>4. q.pc \in {"app_meta"} \cup AuditStages => dump[<<"app", q.at["app"]>>] \in [rows : SUBSET written', iv : {iv}]
  BY DEF FilesOf
<1> QED
  BY <1>1, <1>2, <1>3, <1>4 DEF FilesOf, AuditStages

(* One run moves on.                                                        *)
LEMMA RunMove ==
    ASSUME RunsInv, NEW b \in Backups, NEW q, backup' = [backup EXCEPT ![b] = q], RunShape(q),
           written' = written, encrypting' = encrypting /\ order' = order, ~clash' => ~clash,
           ~clash' => \A c \in Backups \ {b}, l \in Databases :
                         /\ q.at[l] # 0 => q.at[l] # backup[c].at[l]
                         /\ backup[c].at[l] # 0 => /\ dump'[<<l, backup[c].at[l]>>] = dump[<<l, backup[c].at[l]>>]
                                                   /\ meta'[<<l, backup[c].at[l]>>] = meta[<<l, backup[c].at[l]>>],
           ~clash' => FilesOf(q, dump', meta', written, IvOf(b), order)
    PROVE  RunsInv'
<1>1. DOMAIN backup' = Backups /\ \A c \in Backups : backup'[c] = IF c = b THEN q ELSE backup[c]
  BY DEF RunsInv
<1>2. \A c \in Backups : RunShape(backup'[c])
  BY <1>1 DEF RunsInv
<1>3. \A c \in Backups : IvOf(c)' = IvOf(c)
  BY DEF IvOf
<1>4. ASSUME ~clash', NEW c \in Backups PROVE FilesOf(backup'[c], dump', meta', written, IvOf(c), order)
  <2>1. CASE c = b
    BY <1>1, <1>4, <2>1
  <2>2. CASE c # b
    <3>1. backup'[c] = backup[c] /\ RunShape(backup[c]) /\ FilesOf(backup[c], dump, meta, written, IvOf(c), order)
      BY <1>1, <1>4, <2>2 DEF RunsInv
    <3>2. \A l \in Databases : backup[c].at[l] # 0 =>
              /\ dump'[<<l, backup[c].at[l]>>] = dump[<<l, backup[c].at[l]>>]
              /\ meta'[<<l, backup[c].at[l]>>] = meta[<<l, backup[c].at[l]>>]
      BY <1>4, <2>2
    <3>4. written \subseteq written'
      OBVIOUS
    <3>3. FilesOf(backup[c], dump', meta', written', IvOf(c), order)
      BY <3>1, <3>2, <3>4, FilesKept
    <3> QED
      BY <3>1, <3>3
  <2> QED
    BY <2>1, <2>2
<1>5. ASSUME ~clash', NEW c \in Backups, NEW d \in Backups, c # d, NEW l \in Databases, backup'[c].at[l] # 0
      PROVE  backup'[c].at[l] # backup'[d].at[l]
  <2>1. CASE c = b
    BY <1>1, <1>5, <2>1, ZenonT(40)
  <2>2. CASE d = b
    <3>1. q.at[l] # 0 => q.at[l] # backup[c].at[l]
      BY <1>5, <2>2
    <3> QED
      BY <1>1, <1>5, <2>2, <3>1
  <2>3. CASE c # b /\ d # b
    BY <1>1, <1>5, <2>3 DEF RunsInv
  <2> QED
    BY <2>1, <2>2, <2>3
<1> QED
  BY <1>1, <1>2, <1>3, <1>4, <1>5 DEF RunsInv

(* There is no dump at first.                                               *)
LEMMA BackupStart == BackupInit => BackupInv
<1> SUFFICES ASSUME BackupInit PROVE BackupInv
  OBVIOUS
<1>1. StoreInv
  BY BackupAssumption DEF BackupInit, StoreInv, Covered
<1>2. RunShape(Fresh) /\ Fresh.pc = "idle" /\ \A l \in Databases : Fresh.at[l] = 0
  BY BackupAssumption DEF RunShape, Fresh, Run, AppStages, AuditStages
<1>3. \A b \in Backups : backup[b] = Fresh
  BY DEF BackupInit
<1>4. DOMAIN backup = Backups
  BY DEF BackupInit
<1>5. RunsInv
  BY <1>2, <1>3, <1>4 DEF RunsInv, FilesOf, AppStages, AuditStages
<1>6. RestoresInv
  <2>1. \A r \in Restores : restore[r] = NotYet
    BY DEF BackupInit
  <2>2. NotYet.pc = "idle" /\ DOMAIN NotYet = {"pc", "slot", "meta", "bytes", "rows"}
    BY DEF NotYet
  <2> QED
    BY <2>1, <2>2 DEF BackupInit, RestoresInv
<1> QED
  BY <1>1, <1>5, <1>6 DEF BackupInv

(* The slots of a run that has entered a label.                             *)
LEMMA SlotIsOne ==
    ASSUME NEW q, RunShape(q), NEW l \in Databases, q.at[l] # 0
    PROVE  <<l, q.at[l]>> \in Slots
  BY BackupAssumption DEF RunShape, Run, Slots

(* A file of one run is no file of another.                                 *)
LEMMA SlotsDiffer ==
    ASSUME RunsInv, ~clash, NEW b \in Backups, NEW c \in Backups \ {b}, NEW k \in Databases, NEW l \in Databases,
           backup[b].at[k] # 0, backup[c].at[l] # 0
    PROVE  <<k, backup[b].at[k]>> # <<l, backup[c].at[l]>>
  BY DEF RunsInv

(* The steps of a backup.                                                   *)
LEMMA RunSteps ==
    ASSUME BackupInv, NEW b \in Backups,
           RunScheduledBackup(b) \/ RunPgDump(b) \/ PgDumpFails(b) \/ WriteArtifact(b) \/ WriteMeta(b) \/ BackupStops(b)
    PROVE  StoreInv' /\ RunsInv'
<1>0. /\ StoreInv /\ RunsInv /\ written \subseteq Writes /\ audited \subseteq Writes /\ Covered(written, audited, order)
      /\ second \in 1 .. MaxSecond /\ RunShape(backup[b]) /\ backup[b] \in Run
      /\ dump \in [Slots -> DumpFile \cup {NoFile}] /\ meta \in [Slots -> MetaFile \cup {NoFile}]
      /\ "app" \in Databases /\ "audit" \in Databases
  BY BackupAssumption DEF BackupInv, StoreInv, RunsInv, RunShape
<1>1. PICK o : o = backup[b]
  OBVIOUS
<1>2. /\ o \in Run /\ RunShape(o) /\ (~clash => FilesOf(o, dump, meta, written, IvOf(b), order))
      /\ \A l \in Databases : o.at[l] \in 0 .. MaxSecond
      /\ \A c \in Backups \ {b}, l \in Databases : ~clash /\ o.at[l] # 0 => o.at[l] # backup[c].at[l]
  BY <1>0, <1>1 DEF RunsInv, Run
<1>3. ASSUME NEW q, backup' = [backup EXCEPT ![b] = q], RunShape(q), q.at = o.at, clash' = clash,
             UNCHANGED <<second, order, audited, written, dump, meta>>, encrypting' = encrypting /\ order' = order,
             ~clash => FilesOf(q, dump, meta, written, IvOf(b), order)
      PROVE  StoreInv' /\ RunsInv'
  <2>1. \A c \in Backups \ {b}, l \in Databases :
            /\ ~clash' /\ q.at[l] # 0 => q.at[l] # backup[c].at[l]
            /\ dump'[<<l, backup[c].at[l]>>] = dump[<<l, backup[c].at[l]>>]
            /\ meta'[<<l, backup[c].at[l]>>] = meta[<<l, backup[c].at[l]>>]
    BY <1>2, <1>3
  <2>2. ~clash' => ~clash /\ FilesOf(q, dump', meta', written, IvOf(b), order)
    BY <1>3
  <2>3. RunsInv'
    BY <1>0, <1>3, <2>1, <2>2, RunMove, ZenonT(60)
  <2> QED
    BY <1>0, <1>3, <2>3 DEF StoreInv
<1>4. CASE PgDumpFails(b) \/ BackupStops(b)
  <2>1. PICK q : q = [o EXCEPT !.pc = "failed"]
    OBVIOUS
  <2>2. /\ backup' = [backup EXCEPT ![b] = q] /\ UNCHANGED <<second, order, audited, written, dump, meta>> /\ clash' = clash /\ encrypting' = encrypting /\ order' = order
    BY <1>1, <1>4, <2>1 DEF PgDumpFails, BackupStops
  <2>3. q \in Run /\ q.pc = "failed" /\ q.at = o.at
    BY <1>2, <2>1 DEF Run
  <2>4. RunShape(q) /\ FilesOf(q, dump, meta, written, IvOf(b), order)
    BY <2>3 DEF RunShape, FilesOf, AppStages, AuditStages
  <2> QED
    BY <1>3, <2>2, <2>3, <2>4
<1>5. CASE RunPgDump(b)
  <2>1. (o.pc = "app_dump" /\ o.first = NoFile) \/ (o.pc = "audit_dump" /\ o.first # NoFile)
    BY <1>1, <1>2, <1>5 DEF RunPgDump, Label, DbOrder, Enter, RunShape, AppStages, AuditStages
  <2>2. PICK q : q = [o EXCEPT !.pc = IF o.pc = "app_dump" THEN "app_file" ELSE "audit_file",
                               !.rows = IF o.pc = "app_dump" THEN written ELSE audited]
    OBVIOUS
  <2>3. Label(b) = IF o.pc = "app_dump" THEN "app" ELSE "audit"
    BY <1>1, <2>1 DEF Label, DbOrder
  <2>4. /\ backup' = [backup EXCEPT ![b] = q] /\ UNCHANGED <<second, order, audited, written, dump, meta>> /\ clash' = clash /\ encrypting' = encrypting /\ order' = order
    BY <1>1, <1>5, <2>2, <2>3 DEF RunPgDump
  <2>5. /\ q \in Run /\ q.at = o.at /\ q.first = o.first
        /\ o.pc = "app_dump" => q.pc = "app_file" /\ q.rows = written
        /\ o.pc # "app_dump" => q.pc = "audit_file" /\ q.rows = audited
    BY <1>0, <1>2, <2>2 DEF Run, AppStages, AuditStages
  <2>6. RunShape(q)
    BY <1>2, <2>1, <2>5 DEF RunShape, AppStages, AuditStages
  <2>7. ASSUME ~clash PROVE FilesOf(q, dump, meta, written, IvOf(b), order)
    <3>1. CASE o.pc = "app_dump"
      BY <1>0, <2>5, <3>1 DEF FilesOf, AuditStages
    <3>2. CASE o.pc # "app_dump"
      <4>1. o.pc = "audit_dump" /\ FilesOf(o, dump, meta, written, IvOf(b), order)
        BY <1>2, <2>1, <2>7, <3>2
      <4>2. /\ dump[<<"app", o.at["app"]>>] \in [rows : SUBSET written, iv : {IvOf(b)}]
            /\ meta[<<"app", o.at["app"]>>] = [iv |-> IvOf(b)]
        BY <4>1 DEF FilesOf, AuditStages
      <4>3. Covered(dump[<<"app", o.at["app"]>>].rows, audited, order)
        BY <1>0, <4>2 DEF Covered
      <4> QED
        BY <2>5, <3>2, <4>2, <4>3 DEF FilesOf
    <3> QED
      BY <3>1, <3>2
  <2> QED
    BY <1>3, <2>4, <2>5, <2>6, <2>7
<1>6. CASE RunScheduledBackup(b)
  <2>1. PICK q : q = [o EXCEPT !.pc = "app_dump", !.at["app"] = second]
    OBVIOUS
  <2>2. /\ backup' = [backup EXCEPT ![b] = q] /\ UNCHANGED <<second, order, audited, written, dump, meta>> /\ encrypting' = encrypting /\ order' = order
        /\ o.pc = "idle" /\ clash' = (clash \/ \E c \in Backups \ {b} : backup[c].at["app"] = second)
    BY <1>1, <1>6, <2>1 DEF RunScheduledBackup, DbOrder, Enter
  <2>3. q \in Run /\ q.pc = "app_dump" /\ q.first = o.first /\ q.at["app"] = second /\ q.at["audit"] = o.at["audit"]
    <3>1. PICK n : n = [o.at EXCEPT !["app"] = second]
      OBVIOUS
    <3>2. n \in [Databases -> 0 .. MaxSecond] /\ n["app"] = second /\ n["audit"] = o.at["audit"]
      BY <1>0, <1>2, <3>1 DEF Run
    <3>3. q = [o EXCEPT !.pc = "app_dump", !.at = n]
      BY <1>2, <2>1, <3>1 DEF Run
    <3> QED
      BY <1>2, <3>2, <3>3 DEF Run, AppStages
  <2>4. RunShape(q)
    BY <1>0, <1>2, <2>2, <2>3 DEF RunShape, AppStages, AuditStages
  <2>5. ~clash' => ~clash /\ \A c \in Backups \ {b} : backup[c].at["app"] # second
    BY <2>2
  <2>6. ~clash' => \A c \in Backups \ {b}, l \in Databases :
            /\ q.at[l] # 0 => q.at[l] # backup[c].at[l]
            /\ dump'[<<l, backup[c].at[l]>>] = dump[<<l, backup[c].at[l]>>]
            /\ meta'[<<l, backup[c].at[l]>>] = meta[<<l, backup[c].at[l]>>]
    BY <1>2, <2>2, <2>3, <2>5, BackupAssumption DEF RunShape
  <2>7. FilesOf(q, dump', meta', written, IvOf(b), order)
    BY <2>3 DEF FilesOf, AuditStages
  <2>8. RunsInv'
    BY <1>0, <2>2, <2>4, <2>5, <2>6, <2>7, RunMove
  <2> QED
    BY <1>0, <2>2, <2>8 DEF StoreInv
<1>7. ASSUME NEW l \in Databases, o.at[l] # 0, NEW f
      PROVE  /\ <<l, o.at[l]>> \in Slots
             /\ ~clash => \A c \in Backups \ {b}, k \in Databases : backup[c].at[k] # 0 =>
                   /\ <<k, backup[c].at[k]>> \in Slots
                   /\ <<k, backup[c].at[k]>> # <<l, o.at[l]>>
  <2>1. <<l, o.at[l]>> \in Slots
    BY <1>2, <1>7, SlotIsOne
  <2>2. ASSUME ~clash, NEW c \in Backups \ {b}, NEW k \in Databases, backup[c].at[k] # 0
        PROVE  <<k, backup[c].at[k]>> \in Slots /\ <<k, backup[c].at[k]>> # <<l, o.at[l]>>
    <3>1. RunShape(backup[c])
      BY <1>0 DEF RunsInv
    <3>2. <<k, backup[c].at[k]>> \in Slots
      BY <2>2, <3>1, SlotIsOne
    <3>3. l = k => o.at[l] # backup[c].at[k]
      BY <1>2, <1>7, <2>2
    <3> QED
      BY <3>2, <3>3
  <2> QED
    BY <2>1, <2>2
<1>8. CASE WriteArtifact(b)
  <2>1. (o.pc = "app_file" /\ o.first = NoFile) \/ (o.pc = "audit_file" /\ o.first # NoFile)
    BY <1>1, <1>2, <1>8 DEF WriteArtifact, Label, DbOrder, RunShape, AppStages, AuditStages
  <2>2. PICK l \in Databases : l = Label(b) /\ l = IF o.pc = "app_file" THEN "app" ELSE "audit"
    BY <1>0, <1>1, <2>1 DEF Label, DbOrder
  <2>3. PICK q, s, f : /\ q = [o EXCEPT !.pc = IF l = "app" THEN "app_meta" ELSE "audit_meta"]
                       /\ s = <<l, o.at[l]>> /\ f = [rows |-> o.rows, iv |-> IvOf(b)]
    OBVIOUS
  <2>4. /\ backup' = [backup EXCEPT ![b] = q] /\ UNCHANGED <<second, order, audited, written, meta>> /\ encrypting' = encrypting /\ order' = order
        /\ clash' = clash /\ dump' = [dump EXCEPT ![s] = f]
    BY <1>1, <1>8, <2>2, <2>3 DEF WriteArtifact, IvOf
  <2>5. q \in Run /\ q.at = o.at /\ q.first = o.first /\ q.pc = IF l = "app" THEN "app_meta" ELSE "audit_meta"
    BY <1>2, <2>3 DEF Run, AppStages, AuditStages
  <2>6. o.at[l] # 0 /\ RunShape(q)
    BY <1>2, <2>1, <2>2, <2>5 DEF RunShape, AppStages, AuditStages
  <2>7. f \in DumpFile /\ f.rows = o.rows /\ f.iv = IvOf(b) /\ o.rows \in SUBSET Writes
    BY <1>2, <2>3 DEF DumpFile, Run, Opens, IvOf
  <2>8. s \in Slots /\ dump' \in [Slots -> DumpFile \cup {NoFile}] /\ \A x \in Slots : dump'[x] = IF x = s THEN f ELSE dump[x]
    BY <1>0, <1>7, <2>3, <2>4, <2>6, <2>7
  <2>9. ~clash' => \A c \in Backups \ {b}, k \in Databases :
            /\ q.at[k] # 0 => q.at[k] # backup[c].at[k]
            /\ backup[c].at[k] # 0 => /\ dump'[<<k, backup[c].at[k]>>] = dump[<<k, backup[c].at[k]>>]
                                      /\ meta'[<<k, backup[c].at[k]>>] = meta[<<k, backup[c].at[k]>>]
    BY <1>2, <1>7, <2>3, <2>4, <2>5, <2>6, <2>8
  <2>10. ASSUME ~clash PROVE FilesOf(q, dump', meta', written, IvOf(b), order)
    <3>0. FilesOf(o, dump, meta, written, IvOf(b), order)
      BY <1>2, <2>10
    <3>1. CASE o.pc = "app_file"
      <4>1. o.rows \subseteq written /\ l = "app" /\ q.pc = "app_meta" /\ dump'[<<"app", q.at["app"]>>] = f
        BY <2>2, <2>3, <2>5, <2>8, <3>0, <3>1 DEF FilesOf
      <4>2. f \in [rows : SUBSET written, iv : {IvOf(b)}]
        BY <1>0, <2>3, <2>7, <4>1
      <4> QED
        BY <4>1, <4>2 DEF FilesOf, AuditStages
    <3>2. CASE o.pc # "app_file"
      <4>1. l = "audit" /\ o.pc = "audit_file" /\ q.pc = "audit_meta" /\ s = <<"audit", q.at["audit"]>>
        BY <2>1, <2>2, <2>3, <2>5, <3>2
      <4>2. /\ dump[<<"app", o.at["app"]>>] \in [rows : SUBSET written, iv : {IvOf(b)}]
            /\ meta[<<"app", o.at["app"]>>] = [iv |-> IvOf(b)] /\ Covered(dump[<<"app", o.at["app"]>>].rows, o.rows, order)
        BY <3>0, <4>1 DEF FilesOf, AuditStages
      <4>3. <<"app", o.at["app"]>> \in Slots
        BY <1>0, <1>2, <4>1, SlotIsOne DEF RunShape, AuditStages
      <4>4. dump'[<<"app", o.at["app"]>>] = dump[<<"app", o.at["app"]>>] /\ dump'[<<"audit", q.at["audit"]>>] = f
        BY <2>8, <4>1, <4>3
      <4>5. f \in [rows : SUBSET Writes, iv : {IvOf(b)}]
        BY <2>3, <2>7
      <4> QED
        BY <2>4, <2>5, <2>7, <4>1, <4>2, <4>4, <4>5 DEF FilesOf
    <3> QED
      BY <3>1, <3>2
  <2>12. (~clash' => ~clash) /\ (~clash' => FilesOf(q, dump', meta', written, IvOf(b), order))
    BY <2>4, <2>10
  <2>13. RunsInv /\ written' = written
    BY <1>0, <2>4
  <2>11. RunsInv'
    BY <2>4, <2>6, <2>9, <2>12, <2>13, RunMove, Zenon
  <2> QED
    BY <1>0, <2>4, <2>8, <2>11 DEF StoreInv
<1>9. CASE WriteMeta(b)
  <2>1. (o.pc = "app_meta" /\ o.first = NoFile) \/ (o.pc = "audit_meta" /\ o.first # NoFile)
    BY <1>1, <1>2, <1>9 DEF WriteMeta, Label, DbOrder, RunShape, AppStages, AuditStages
  <2>2. PICK l \in Databases : l = Label(b) /\ l = IF o.pc = "app_meta" THEN "app" ELSE "audit"
    BY <1>0, <1>1, <2>1 DEF Label, DbOrder
  <2>3. PICK s, f : s = <<l, o.at[l]>> /\ f = [iv |-> IvOf(b)]
    OBVIOUS
  <2>4. /\ UNCHANGED <<second, order, audited, written, dump>> /\ encrypting' = encrypting /\ order' = order /\ meta' = [meta EXCEPT ![s] = f]
    BY <1>1, <1>9, <2>2, <2>3 DEF WriteMeta, IvOf
  <2>5. o.at[l] # 0
    BY <1>2, <2>1, <2>2 DEF RunShape, AppStages, AuditStages
  <2>6. f \in MetaFile
    BY <2>3 DEF MetaFile, Opens, IvOf
  <2>7. s \in Slots /\ meta' \in [Slots -> MetaFile \cup {NoFile}] /\ \A x \in Slots : meta'[x] = IF x = s THEN f ELSE meta[x]
    BY <1>0, <1>7, <2>3, <2>4, <2>5, <2>6
  <2>8. ~clash => \A c \in Backups \ {b}, k \in Databases : backup[c].at[k] # 0 =>
            /\ dump'[<<k, backup[c].at[k]>>] = dump[<<k, backup[c].at[k]>>]
            /\ meta'[<<k, backup[c].at[k]>>] = meta[<<k, backup[c].at[k]>>]
    BY <1>7, <2>3, <2>4, <2>5, <2>7
  <2>9. CASE o.pc = "app_meta"
    <3>1. PICK n, q : n = [o.at EXCEPT !["audit"] = second] /\ q = [o EXCEPT !.pc = "audit_dump", !.first = s, !.at = n]
      OBVIOUS
    <3>2. n \in [Databases -> 0 .. MaxSecond] /\ n["audit"] = second /\ n["app"] = o.at["app"]
      BY <1>0, <1>2, <3>1 DEF Run
    <3>3. q \in Run /\ q.pc = "audit_dump" /\ q.first = s /\ q.at = n
      BY <1>2, <2>7, <3>1, <3>2 DEF Run, AuditStages
    <3>4. /\ backup' = [backup EXCEPT ![b] = q]
          /\ clash' = (clash \/ \E c \in Backups \ {b} : backup[c].at["audit"] = second)
      <4>1. o.first = NoFile /\ Label(b) = l
        BY <2>1, <2>2, <2>9
      <4>2. backup' = [backup EXCEPT ![b].pc = "audit_dump", ![b].first = s, ![b].at["audit"] = second]
        BY <1>1, <1>9, <2>3, <4>1 DEF WriteMeta, DbOrder, Enter
      <4>3. backup' = [backup EXCEPT ![b] = [o EXCEPT !.pc = "audit_dump", !.first = s, !.at["audit"] = second]]
        BY <1>1, <4>2
      <4>4. q = [o EXCEPT !.pc = "audit_dump", !.first = s, !.at["audit"] = second]
        BY <1>2, <3>1 DEF Run
      <4> QED
        BY <1>1, <1>9, <4>1, <4>3, <4>4 DEF WriteMeta, DbOrder
    <3>5. ~clash' => ~clash /\ \A c \in Backups \ {b} : backup[c].at["audit"] # second
      BY <3>4
    <3>6. s # NoFile /\ RunShape(q)
      BY <1>0, <1>2, <2>1, <2>2, <2>5, <2>7, <2>9, <3>2, <3>3, BackupAssumption DEF RunShape, AppStages, AuditStages, Slots
    <3>7. ~clash' => \A c \in Backups \ {b}, k \in Databases : q.at[k] # 0 => q.at[k] # backup[c].at[k]
      BY <1>2, <3>2, <3>3, <3>5, BackupAssumption
    <3>8. ASSUME ~clash' PROVE FilesOf(q, dump', meta', written, IvOf(b), order)
      <4>1. dump[<<"app", o.at["app"]>>] \in [rows : SUBSET written, iv : {IvOf(b)}]
        BY <1>2, <2>9, <3>5, <3>8 DEF FilesOf
      <4>2. meta'[<<"app", o.at["app"]>>] = [iv |-> IvOf(b)]
        BY <2>2, <2>3, <2>7, <2>9
      <4> QED
        BY <2>4, <3>2, <3>3, <4>1, <4>2 DEF FilesOf
    <3>9. RunsInv'
      BY <1>0, <2>4, <2>8, <3>4, <3>5, <3>6, <3>7, <3>8, RunMove, ZenonT(60)
    <3> QED
      BY <1>0, <2>4, <2>7, <3>9 DEF StoreInv
  <2>10. CASE o.pc # "app_meta"
    <3>0. o.pc = "audit_meta" /\ o.first # NoFile /\ l = "audit"
      BY <2>1, <2>2, <2>10
    <3>1. PICK q : q = [o EXCEPT !.pc = "done"]
      OBVIOUS
    <3>2. q \in Run /\ q.pc = "done" /\ q.at = o.at /\ q.first = o.first
      BY <1>2, <3>1 DEF Run, AuditStages
    <3>3. backup' = [backup EXCEPT ![b] = q] /\ clash' = clash
      BY <1>1, <1>9, <3>0, <3>1 DEF WriteMeta
    <3>4. RunShape(q)
      BY <1>2, <3>0, <3>2 DEF RunShape, AppStages, AuditStages
    <3>5. ASSUME ~clash' PROVE FilesOf(q, dump', meta', written, IvOf(b), order)
      <4>0. FilesOf(o, dump, meta, written, IvOf(b), order)
        BY <1>2, <3>3, <3>5
      <4>1. <<"app", o.at["app"]>> \in Slots /\ <<"app", o.at["app"]>> # s /\ s = <<"audit", o.at["audit"]>>
        BY <1>0, <1>2, <2>3, <3>0, SlotIsOne DEF RunShape, AuditStages
      <4>2. meta'[<<"app", o.at["app"]>>] = meta[<<"app", o.at["app"]>>] /\ meta'[<<"audit", o.at["audit"]>>] = [iv |-> IvOf(b)]
        BY <2>3, <2>7, <4>1
      <4> QED
        BY <2>4, <3>0, <3>2, <4>0, <4>2 DEF FilesOf, AuditStages
    <3>6. ~clash' => ~clash /\ \A c \in Backups \ {b}, k \in Databases : q.at[k] # 0 => q.at[k] # backup[c].at[k]
      BY <1>2, <3>2, <3>3
    <3>7. RunsInv'
      BY <1>0, <2>4, <2>8, <3>3, <3>4, <3>5, <3>6, RunMove, ZenonT(60)
    <3> QED
      BY <1>0, <2>4, <2>7, <3>7 DEF StoreInv
  <2> QED
    BY <2>9, <2>10
<1> QED
  BY <1>4, <1>5, <1>6, <1>8, <1>9

(* A backup leaves the restores alone.                                      *)
LEMMA RestoresRest == RestoresInv /\ UNCHANGED <<temp, restore>> => RestoresInv'
  BY DEF RestoresInv

(* A step that writes no file and moves no run leaves the runs be.          *)
LEMMA RunsRest ==
    ASSUME RunsInv, UNCHANGED <<backup, dump, meta>>, clash' = clash, encrypting' = encrypting /\ order' = order,
           order' = order, written \subseteq written'
    PROVE  RunsInv'
<1>1. \A b \in Backups : IvOf(b)' = IvOf(b)
  BY DEF IvOf
<1>2. ASSUME ~clash, NEW b \in Backups PROVE FilesOf(backup[b], dump', meta', written', IvOf(b), order)
  <2>1. RunShape(backup[b]) /\ FilesOf(backup[b], dump, meta, written, IvOf(b), order)
    BY <1>2 DEF RunsInv
  <2>2. \A l \in Databases : /\ dump'[<<l, backup[b].at[l]>>] = dump[<<l, backup[b].at[l]>>]
                             /\ meta'[<<l, backup[b].at[l]>>] = meta[<<l, backup[b].at[l]>>]
    OBVIOUS
  <2> QED
    BY <2>1, <2>2, FilesKept
<1> QED
  BY <1>1, <1>2 DEF RunsInv

(* A restore moves on, and the cleartext it no longer needs is gone.        *)
LEMMA RestoreMove ==
    ASSUME RestoresInv, NEW r \in Restores, NEW q, restore' = [restore EXCEPT ![r] = q],
           DOMAIN q = {"pc", "slot", "meta", "bytes", "rows"},
           q.pc \in {"decrypt", "load", "load_ok", "cleanup", "done", "failed"}, q.slot \in Slots, q.bytes \in DumpFile,
           temp' \in [Slots -> {NoFile} \cup SUBSET Writes],
           \A s \in Slots : temp'[s] # NoFile =>
               (Loading(q) /\ q.slot = s) \/ (temp[s] # NoFile /\ ~(Loading(restore[r]) /\ restore[r].slot = s))
    PROVE  RestoresInv'
<1>1. DOMAIN restore' = Restores /\ \A x \in Restores : restore'[x] = IF x = r THEN q ELSE restore[x]
  BY DEF RestoresInv
<1>2. \A x \in Restores :
          /\ DOMAIN restore'[x] = {"pc", "slot", "meta", "bytes", "rows"}
          /\ restore'[x].pc \in {"idle", "decrypt", "load", "load_ok", "cleanup", "done", "failed"}
          /\ restore'[x].pc # "idle" => restore'[x].slot \in Slots /\ restore'[x].bytes \in DumpFile
  BY <1>1 DEF RestoresInv
<1>3. ASSUME NEW s \in Slots, temp'[s] # NoFile PROVE \E x \in Restores : Loading(restore'[x]) /\ restore'[x].slot = s
  <2>1. CASE Loading(q) /\ q.slot = s
    BY <1>1, <2>1
  <2>2. CASE temp[s] # NoFile /\ ~(Loading(restore[r]) /\ restore[r].slot = s)
    <3>1. PICK x \in Restores : Loading(restore[x]) /\ restore[x].slot = s
      BY <2>2 DEF RestoresInv
    <3>2. restore'[x] = restore[x]
      BY <1>1, <2>2, <3>1
    <3> QED
      BY <3>1, <3>2
  <2> QED
    BY <1>3, <2>1, <2>2
<1> QED
  BY <1>1, <1>2, <1>3 DEF RestoresInv

(* The steps of a restore.                                                  *)
LEMMA RestoreSteps == ASSUME BackupInv, RestoreNext PROVE RestoresInv'
<1>0. /\ RestoresInv /\ temp \in [Slots -> {NoFile} \cup SUBSET Writes]
      /\ dump \in [Slots -> DumpFile \cup {NoFile}] /\ meta \in [Slots -> MetaFile \cup {NoFile}]
  BY DEF BackupInv, RestoresInv, StoreInv
<1>1. ASSUME NEW r \in Restores, NEW s \in Slots, RestoreDatabase(r, s) PROVE RestoresInv'
  <2>1. PICK q : q = [pc |-> "decrypt", slot |-> s, meta |-> meta[s], bytes |-> dump[s], rows |-> {}]
    OBVIOUS
  <2>2. restore[r].pc = "idle" /\ dump[s] # NoFile /\ restore' = [restore EXCEPT ![r] = q] /\ temp' = temp
    BY <1>1, <2>1 DEF RestoreDatabase
  <2>3. /\ DOMAIN q = {"pc", "slot", "meta", "bytes", "rows"} /\ q.pc = "decrypt" /\ q.slot \in Slots /\ q.bytes \in DumpFile
    BY <1>0, <2>1, <2>2
  <2>4. ~Loading(restore[r]) /\ temp' \in [Slots -> {NoFile} \cup SUBSET Writes]
    BY <1>0, <2>2 DEF Loading
  <2> QED
    BY <1>0, <2>2, <2>3, <2>4, RestoreMove
<1>2. \A r \in Restores : restore[r].pc # "idle" =>
          /\ DOMAIN restore[r] = {"pc", "slot", "meta", "bytes", "rows"} /\ restore[r].slot \in Slots
          /\ restore[r].bytes \in DumpFile /\ restore[r].bytes.rows \in SUBSET Writes
  BY <1>0 DEF RestoresInv, DumpFile
<1>3. ASSUME NEW r \in Restores, Decrypt(r) PROVE RestoresInv'
  <2>0. PICK x : x = restore[r]
    OBVIOUS
  <2>1. /\ x.pc = "decrypt" /\ x.slot \in Slots /\ x.bytes \in DumpFile /\ x.bytes.rows \in SUBSET Writes
        /\ DOMAIN x = {"pc", "slot", "meta", "bytes", "rows"} /\ ~Loading(x)
    BY <1>2, <1>3, <2>0 DEF Decrypt, Loading
  <2>2. CASE x.meta.iv # x.bytes.iv
    <3>1. PICK q : q = [x EXCEPT !.pc = "failed"]
      OBVIOUS
    <3>2. restore' = [restore EXCEPT ![r] = q] /\ temp' = temp
      BY <1>3, <2>0, <2>2, <3>1 DEF Decrypt
    <3>3. /\ DOMAIN q = {"pc", "slot", "meta", "bytes", "rows"} /\ q.slot \in Slots /\ q.bytes \in DumpFile
          /\ q.pc \in {"decrypt", "load", "load_ok", "cleanup", "done", "failed"}
      BY <2>1, <3>1
    <3>4. \A s \in Slots : temp'[s] # NoFile =>
         (Loading(q) /\ q.slot = s) \/ (temp[s] # NoFile /\ ~(Loading(restore[r]) /\ restore[r].slot = s))
      BY <2>0, <2>1, <3>2
    <3>5. temp' \in [Slots -> {NoFile} \cup SUBSET Writes]
      BY <1>0, <3>2
    <3> QED
      BY <1>0, <3>2, <3>3, <3>4, <3>5, RestoreMove, Zenon
  <2>3. CASE x.meta.iv = x.bytes.iv
    <3>1. PICK q : q = [x EXCEPT !.pc = "load"]
      OBVIOUS
    <3>2. /\ restore' = [restore EXCEPT ![r] = q]
          /\ temp' = IF x.meta.iv = NoFile THEN temp ELSE [temp EXCEPT ![x.slot] = x.bytes.rows]
      BY <1>3, <2>0, <2>3, <3>1 DEF Decrypt
    <3>3. /\ DOMAIN q = {"pc", "slot", "meta", "bytes", "rows"} /\ q.slot \in Slots /\ q.bytes \in DumpFile
          /\ q.pc \in {"decrypt", "load", "load_ok", "cleanup", "done", "failed"}
      BY <2>1, <3>1
    <3>4. \A s \in Slots : temp'[s] # NoFile =>
         (Loading(q) /\ q.slot = s) \/ (temp[s] # NoFile /\ ~(Loading(restore[r]) /\ restore[r].slot = s))
      <4>1. q.pc = "load" /\ q.meta = x.meta /\ q.slot = x.slot
        BY <2>1, <3>1
      <4> QED
        BY <1>0, <2>0, <2>1, <3>2, <4>1 DEF Loading
    <3>5. temp' \in [Slots -> {NoFile} \cup SUBSET Writes]
      BY <1>0, <2>1, <3>2
    <3> QED
      BY <1>0, <3>2, <3>3, <3>4, <3>5, RestoreMove, Zenon
  <2> QED
    BY <2>2, <2>3
<1>4. ASSUME NEW r \in Restores, NEW fails \in BOOLEAN, RunPgRestore(r, fails) PROVE RestoresInv'
  <2>0. PICK x : x = restore[r]
    OBVIOUS
  <2>1. PICK got : got = (IF x.meta.iv # NoFile THEN temp[x.slot] ELSE dump[x.slot].rows)
    OBVIOUS
  <2>2. PICK p, n : /\ p = (IF fails \/ got = NoFile THEN "cleanup" ELSE "load_ok")
                    /\ n = (IF fails \/ got = NoFile THEN x.rows ELSE got)
    OBVIOUS
  <2>3. PICK q : q = [x EXCEPT !.pc = p, !.rows = n]
    OBVIOUS
  <2>4. x.pc = "load" /\ temp' = temp /\ restore' = [restore EXCEPT ![r] = q]
    BY <1>4, <2>0, <2>1, <2>2, <2>3 DEF RunPgRestore
  <2>5. p \in {"cleanup", "load_ok"}
    BY <2>2
  <2>6. x.slot \in Slots /\ x.bytes \in DumpFile /\ DOMAIN x = {"pc", "slot", "meta", "bytes", "rows"}
    BY <1>2, <2>0, <2>4
  <2>7. /\ DOMAIN q = {"pc", "slot", "meta", "bytes", "rows"} /\ q.slot \in Slots /\ q.bytes \in DumpFile
        /\ q.pc \in {"decrypt", "load", "load_ok", "cleanup", "done", "failed"}
    BY <2>3, <2>5, <2>6
  <2>8. \A s \in Slots : temp'[s] # NoFile =>
       (Loading(q) /\ q.slot = s) \/ (temp[s] # NoFile /\ ~(Loading(restore[r]) /\ restore[r].slot = s))
    <3>1. q.pc = p /\ q.meta = x.meta /\ q.slot = x.slot
      BY <2>3, <2>6
    <3> QED
      BY <2>0, <2>4, <2>5, <3>1 DEF Loading
  <2>9. temp' \in [Slots -> {NoFile} \cup SUBSET Writes]
    BY <1>0, <2>4
  <2> QED
    BY <1>0, <2>4, <2>7, <2>8, <2>9, RestoreMove, Zenon
<1>5. ASSUME NEW r \in Restores, RemoveTemp(r) PROVE RestoresInv'
  <2>0. PICK x : x = restore[r]
    OBVIOUS
  <2>1. PICK p : p = (IF x.pc = "load_ok" THEN "done" ELSE "failed")
    OBVIOUS
  <2>2. PICK q : q = [x EXCEPT !.pc = p]
    OBVIOUS
  <2>3. /\ x.pc \in {"cleanup", "load_ok"} /\ restore' = [restore EXCEPT ![r] = q]
        /\ temp' = IF x.meta.iv = NoFile THEN temp ELSE [temp EXCEPT ![x.slot] = NoFile]
    BY <1>5, <2>0, <2>1, <2>2 DEF RemoveTemp
  <2>4. x.slot \in Slots /\ x.bytes \in DumpFile /\ DOMAIN x = {"pc", "slot", "meta", "bytes", "rows"}
    BY <1>2, <2>0, <2>3
  <2>5. p \in {"done", "failed"}
    BY <2>1
  <2>6. /\ DOMAIN q = {"pc", "slot", "meta", "bytes", "rows"} /\ q.slot \in Slots /\ q.bytes \in DumpFile
        /\ q.pc \in {"decrypt", "load", "load_ok", "cleanup", "done", "failed"}
    BY <2>2, <2>4, <2>5
  <2>7. \A s \in Slots : temp'[s] # NoFile =>
       (Loading(q) /\ q.slot = s) \/ (temp[s] # NoFile /\ ~(Loading(restore[r]) /\ restore[r].slot = s))
    BY <1>0, <2>0, <2>3, <2>4 DEF Loading
  <2>8. temp' \in [Slots -> {NoFile} \cup SUBSET Writes]
    BY <1>0, <2>3, <2>4
  <2> QED
    BY <1>0, <2>3, <2>6, <2>7, <2>8, RestoreMove, Zenon
<1> QED
  BY <1>1, <1>3, <1>4, <1>5 DEF RestoreNext

(* Every step of backup and restore keeps the invariant.                    *)
LEMMA BackupSteps == BackupInv /\ (BackupNext \/ RestoreNext \/ UNCHANGED backupVars) => BackupInv'
<1> SUFFICES ASSUME BackupInv, BackupNext \/ RestoreNext \/ UNCHANGED backupVars PROVE BackupInv'
  OBVIOUS
<1>0. StoreInv /\ RunsInv /\ RestoresInv
  BY BackupAssumption DEF BackupInv, StoreInv
<1>1. ASSUME SecondPasses \/ (\E w \in Writes : AuditWrite(w) \/ RowWrite(w)) \/ UNCHANGED backupVars PROVE BackupInv'
  <2>1. UNCHANGED <<backup, dump, meta, restore, temp, order>> /\ clash' = clash /\ encrypting' = encrypting
    BY <1>1 DEF SecondPasses, AuditWrite, RowWrite, backupVars
  <2>2. second' \in 1 .. MaxSecond
    BY <1>0, <1>1, BackupAssumption DEF SecondPasses, AuditWrite, RowWrite, backupVars, StoreInv
  <2>3. /\ written \subseteq written' /\ written' \subseteq Writes /\ audited' \subseteq Writes
        /\ Covered(written', audited', order)
    BY <1>0, <1>1 DEF SecondPasses, AuditWrite, RowWrite, backupVars, StoreInv, Covered
  <2>4. StoreInv'
    BY <1>0, <2>1, <2>2, <2>3 DEF StoreInv
  <2> QED
    BY <1>0, <2>1, <2>3, <2>4, RunsRest, RestoresRest DEF BackupInv
<1>2. ASSUME NEW b \in Backups,
             RunScheduledBackup(b) \/ RunPgDump(b) \/ PgDumpFails(b) \/ WriteArtifact(b) \/ WriteMeta(b) \/ BackupStops(b)
      PROVE  BackupInv'
  <2>1. UNCHANGED <<restore, temp>>
    BY <1>2 DEF RunScheduledBackup, RunPgDump, PgDumpFails, WriteArtifact, WriteMeta, BackupStops
  <2> QED
    BY <1>0, <1>2, <2>1, RunSteps, RestoresRest DEF BackupInv
<1>3. CASE RestoreNext
  <2>1. UNCHANGED <<second, order, audited, written, dump, meta, backup>> /\ clash' = clash /\ encrypting' = encrypting /\ order' = order
    BY <1>3 DEF RestoreNext, RestoreDatabase, Decrypt, RunPgRestore, RemoveTemp
  <2>2. StoreInv'
    BY <1>0, <2>1 DEF StoreInv
  <2>3. RunsInv'
    BY <1>0, <2>1, RunsRest
  <2> QED
    BY <1>3, <2>2, <2>3, RestoreSteps DEF BackupInv
<1> QED
  BY <1>1, <1>2, <1>3 DEF BackupNext

(* What the invariants of files, runs and restores promise.                 *)
LEMMA BackupPromise ==
    ASSUME BackupInv
    PROVE  BackupTypeOK /\ RestoredIsAudited /\ FinishedCanBeRestored /\ CleartextIsRemoved
<1>0. StoreInv /\ RunsInv /\ RestoresInv
  BY DEF BackupInv
<1>1. \A b \in Backups : backup[b] \in Run
  BY <1>0 DEF RunsInv, RunShape
<1>2. BackupTypeOK
  BY <1>0, <1>1 DEF BackupTypeOK, StoreInv, RestoresInv, Run, AppStages, AuditStages
<1>3. RestoredIsAudited
  BY <1>0 DEF RunsInv, FilesOf, RestoredIsAudited, SlotOf, Covered
<1>4. CleartextIsRemoved
  BY <1>0 DEF RestoresInv, CleartextIsRemoved, Loading
<1>5. FinishedCanBeRestored
  <2> SUFFICES ASSUME NEW b \in Backups, NEW l \in Databases, backup[b].pc = "done", ~clash
               PROVE  meta[SlotOf(b, l)] # NoFile /\ dump[SlotOf(b, l)].iv = meta[SlotOf(b, l)].iv
    BY DEF FinishedCanBeRestored
  <2>1. FilesOf(backup[b], dump, meta, written, IvOf(b), order)
    BY <1>0 DEF RunsInv
  <2>2. meta[SlotOf(b, l)] = [iv |-> IvOf(b)] /\ dump[SlotOf(b, l)].iv = IvOf(b)
    BY <2>1, BackupAssumption DEF FilesOf, SlotOf, AuditStages
  <2>3. [iv |-> IvOf(b)] \in [iv : Backups \cup {NoFile}]
    BY DEF IvOf
  <2> QED
    BY <2>2, <2>3, BackupAssumption
<1> QED
  BY <1>2, <1>3, <1>4, <1>5

--------------------------------------------------------------------------------
(* The e-discovery bundle.                                                  *)

(* Rows are told apart by their ids, and a row that is under another has    *)
(* the kind that goes there.                                                *)
Related(K) ==
    /\ K \subseteq Row
    /\ \A x, y \in K : (x.id = y.id => x = y) /\ (x.of = y.id => y.kind = Parent(x.kind))
    /\ \A x \in K : Parent(x.kind) = "none" <=> x.of = NoRow

(* Only an event outlives what it is under.                                 *)
Rooted(T) == \A x \in T : x.kind # "event" /\ x.of # NoRow => \E y \in T : y.id = x.of

Bundle == [pc : {"idle", "done"} \cup Kinds, from : 0 .. MaxInstant, to : 0 .. MaxInstant, rows : SUBSET Row]
Dated(x, b) == x.at >= b.from /\ x.at <= b.to
Closed(R) == \A x \in R : x.of # NoRow => \E y \in R : y.id = x.of /\ y.kind = Parent(x.kind)

(* After its query, the rows of a kind that are to be exported are.         *)
Exported(S, b) ==
    /\ b.pc \in {"version", "thread", "reply", "event", "done"} =>
          \A x \in S : x.kind = "entity" /\ Dated(x, b) => x \in b.rows
    /\ b.pc \in {"thread", "reply", "event", "done"} =>
          \A x \in S : x.kind = "version" /\ Dated(x, b) => x \in b.rows
    /\ b.pc \in {"reply", "event", "done"} =>
          \A x, y \in S : x.kind = "thread" /\ y.id = x.of /\ Dated(y, b) => x \in b.rows
    /\ b.pc \in {"event", "done"} =>
          \A x, y, z \in S : x.kind = "reply" /\ y.id = x.of /\ z.id = y.of /\ Dated(z, b) => x \in b.rows
    /\ b.pc = "done" =>
          \A x, y \in S : x.kind = "event" /\ Dated(x, b) /\ y.id = x.of /\ Dated(y, b) => x \in b.rows

BundleFacts(T, A, b) ==
    /\ b \in Bundle /\ Related(T \cup A \cup b.rows) /\ Rooted(T) /\ Rooted(A)
    /\ Closed(b.rows) /\ Exported(A \cap T, b)

BundleInv == BundleFacts(table, atStart.rows, bundle)

(* A row under nothing, or under a row of the table, is added.              *)
LEMMA AddRowStep ==
    ASSUME BundleInv, instant \in 1 .. MaxInstant, NEW i \in RowIds, NEW k \in Kinds, AddRow(i, k)
    PROVE  BundleInv'
<1>0. PICK K : K = table \cup atStart.rows \cup bundle.rows
  OBVIOUS
<1>1. /\ Related(K) /\ Rooted(table) /\ Rooted(atStart.rows) /\ bundle \in Bundle /\ Closed(bundle.rows)
      /\ Exported(atStart.rows \cap table, bundle)
  BY <1>0 DEF BundleInv, BundleFacts
<1>2. \A x \in K : x.id < i /\ x.of # i
  BY <1>0 DEF AddRow
<1>3. PICK o \in RowIds \cup {NoRow} :
          /\ table' = table \cup {[id |-> i, kind |-> k, of |-> o, at |-> instant]}
          /\ (Parent(k) = "none" /\ o = NoRow) \/ (\E x \in table : x.kind = Parent(k) /\ o = x.id)
  BY <1>1, <1>0 DEF AddRow, Related, Row
<1>4. PICK n : n = [id |-> i, kind |-> k, of |-> o, at |-> instant]
  OBVIOUS
<1>5. n \in Row /\ n.id = i /\ n.kind = k /\ n.of = o
  BY <1>4 DEF Row
<1>6. Related(K \cup {n})
  <2>1. K \cup {n} \subseteq Row
    BY <1>1, <1>5 DEF Related
  <2>2. \A x \in K : x.id # i /\ x.id \in Nat /\ x.of # i
    <3>1. i \in Nat /\ RowIds \subseteq Nat
      BY EvidenceAssumption
    <3>2. \A x \in K : x.id \in Nat
      BY <1>1, <3>1 DEF Related, Row
    <3> QED
      BY <1>2, <3>1, <3>2
  <2>3. o # i
    BY <1>0, <1>3, <2>2, EvidenceAssumption
  <2>4. ASSUME NEW y \in K, o = y.id PROVE y.kind = Parent(k)
    <3>1. y.id \in RowIds
      BY <1>1 DEF Related, Row
    <3>2. PICK x \in table : x.kind = Parent(k) /\ o = x.id
      BY <1>3, <2>4, <3>1, EvidenceAssumption
    <3> QED
      BY <1>0, <1>1, <2>4, <3>2 DEF Related
  <2>5. Parent(k) = "none" <=> o = NoRow
    <3>1. \A x \in table : x.kind \in Kinds /\ x.id \in RowIds
      BY <1>0, <1>1 DEF Related, Row
    <3> QED
      BY <1>3, <3>1, EvidenceAssumption
  <2>6. \A x, y \in K \cup {n} : (x.id = y.id => x = y) /\ (x.of = y.id => y.kind = Parent(x.kind))
    BY <1>1, <1>5, <2>2, <2>3, <2>4 DEF Related
  <2> QED
    BY <1>1, <1>5, <2>1, <2>5, <2>6 DEF Related
<1>7. Rooted(table')
  BY <1>1, <1>3, <1>4, <1>5 DEF Rooted
<1>8. n \notin K
  BY <1>1, <1>2, <1>5, EvidenceAssumption DEF Related, Row
<1>9. table' \cup atStart.rows \cup bundle.rows = K \cup {n} /\ atStart.rows \cap table' = atStart.rows \cap table
  BY <1>0, <1>3, <1>4, <1>8
<1>10. bundle' = bundle /\ atStart' = atStart
  BY DEF AddRow
<1>11. BundleFacts(table', atStart.rows, bundle)
  BY <1>1, <1>6, <1>7, <1>9 DEF BundleFacts
<1> QED
  BY <1>10, <1>11 DEF BundleInv

(* With fewer rows there is no more to export.                              *)
LEMMA ExportedOfLess ==
    ASSUME NEW S, NEW R \in SUBSET S, NEW b, Exported(S, b)
    PROVE  Exported(R, b)
  BY DEF Exported

(* What is under a row, at one or two removes, goes with it, and nothing is *)
(* further below.                                                           *)
LEMMA RemoveRowStep ==
    ASSUME BundleInv, NEW x \in table, RemoveRow(x)
    PROVE  BundleInv'
<1>1. /\ Related(table \cup atStart.rows \cup bundle.rows) /\ Rooted(table) /\ Rooted(atStart.rows)
      /\ bundle \in Bundle /\ Closed(bundle.rows) /\ Exported(atStart.rows \cap table, bundle)
  BY DEF BundleInv, BundleFacts
<1>2. table' = table \ ({x} \cup {y \in Below(x) : y.kind # "event"}) /\ bundle' = bundle /\ atStart' = atStart
  BY DEF RemoveRow
<1>3. table' \subseteq table
  BY <1>2
<1>4. Rooted(table')
  <2> SUFFICES ASSUME NEW y \in table', y.kind # "event", y.of # NoRow
               PROVE  \E z \in table' : z.id = y.of
    BY DEF Rooted
  <2>1. PICK p \in table : p.id = y.of
    BY <1>1, <1>3 DEF Rooted
  <2>2. p \in table'
    <3> SUFFICES ASSUME p \notin table' PROVE FALSE
      OBVIOUS
    <3>1. p # x
      BY <1>2, <1>3, <2>1 DEF Below
    <3>2. p \in Below(x)
      BY <1>2, <3>1
    <3>3. CASE p.of = x.id
      BY <1>2, <1>3, <2>1, <3>3 DEF Below
    <3>4. CASE \E z \in table : z.of = x.id /\ p.of = z.id
      <4>1. PICK z \in table : z.of = x.id /\ p.of = z.id
        BY <3>4
      <4>2. x.kind = Parent(z.kind) /\ z.kind = Parent(p.kind) /\ p.kind = Parent(y.kind)
        BY <1>1, <1>3, <2>1, <4>1 DEF Related
      <4>3. x.kind \in Kinds /\ z.kind \in Kinds /\ p.kind \in Kinds /\ y.kind \in Kinds
        BY <1>1, <1>3, <4>1 DEF Related, Row
      <4> QED
        BY <4>2, <4>3, EvidenceAssumption DEF Parent
    <3> QED
      BY <3>2, <3>3, <3>4 DEF Below
  <2> QED
    BY <2>1, <2>2
<1>5. Exported(atStart.rows \cap table', bundle)
  BY <1>1, <1>3, ExportedOfLess
<1>6. Related(table' \cup atStart.rows \cup bundle.rows)
  BY <1>1, <1>3 DEF Related
<1>7. BundleFacts(table', atStart.rows, bundle)
  BY <1>1, <1>4, <1>5, <1>6 DEF BundleFacts
<1> QED
  BY <1>2, <1>7 DEF BundleInv

(* A bundle is begun empty.                                                 *)
LEMMA BeginBundleStep ==
    ASSUME BundleInv, instant \in 1 .. MaxInstant, NEW from \in 0 .. MaxInstant, BeginBundle(from),
           DOMAIN atStart = {"rows", "events"}
    PROVE  BundleInv'
<1>1. PICK b : b = [pc |-> "entity", from |-> from, to |-> instant, rows |-> {}]
  OBVIOUS
<1>2. bundle' = b /\ table' = table /\ atStart'.rows = table
  BY <1>1 DEF BeginBundle
<1>3. b \in Bundle /\ b.rows = {} /\ b.pc = "entity"
  BY <1>1, EvidenceAssumption DEF Bundle
<1>4. Related(table \cup table \cup b.rows)
  BY <1>3 DEF BundleInv, BundleFacts, Related
<1>5. Closed(b.rows) /\ Exported(table \cap table, b)
  BY <1>3 DEF Closed, Exported
<1>6. Rooted(table)
  BY DEF BundleInv, BundleFacts
<1>7. BundleFacts(table, table, b)
  BY <1>3, <1>4, <1>5, <1>6 DEF BundleFacts
<1> QED
  BY <1>2, <1>7 DEF BundleInv

(* A query adds the rows of one kind that are there now, under rows of the  *)
(* bundle.                                                                  *)
LEMMA QueryRowsStep ==
    ASSUME BundleInv, QueryRows
    PROVE  BundleInv'
<1>0. PICK k \in Kinds : k = bundle.pc
  BY DEF QueryRows
<1>1. /\ Related(table \cup atStart.rows \cup bundle.rows) /\ Rooted(table) /\ Rooted(atStart.rows)
      /\ bundle \in Bundle /\ Closed(bundle.rows) /\ Exported(atStart.rows \cap table, bundle)
  BY DEF BundleInv, BundleFacts
<1>2. PICK N : N = Selected(k)
  OBVIOUS
<1>3. PICK b : b = [bundle EXCEPT !.rows = @ \cup N, !.pc = After(k)]
  OBVIOUS
<1>4. bundle' = b /\ table' = table /\ atStart' = atStart
  BY <1>0, <1>2, <1>3 DEF QueryRows
<1>5. b.rows = bundle.rows \cup N /\ b.pc = After(k) /\ b.from = bundle.from /\ b.to = bundle.to
  BY <1>1, <1>3 DEF Bundle
<1>6. N \subseteq table
  BY <1>2 DEF Selected
<1>7. After(k) \in {"idle", "done"} \cup Kinds
  BY EvidenceAssumption DEF After
<1>8. b \in Bundle
  BY <1>1, <1>3, <1>6, <1>7 DEF Bundle, Related
<1>9. Related(table \cup atStart.rows \cup b.rows)
  <2>1. table \cup atStart.rows \cup b.rows = table \cup atStart.rows \cup bundle.rows
    BY <1>5, <1>6
  <2> QED
    BY <1>1, <2>1
<1>10. Closed(b.rows)
  <2>1. \A x \in N : x.kind = k /\ (Parent(k) # "none" => \E y \in bundle.rows : y.kind = Parent(k) /\ y.id = x.of)
    BY <1>2 DEF Selected
  <2>2. \A x \in N : x.of # NoRow => Parent(x.kind) # "none"
    BY <1>1, <1>6 DEF Related
  <2> QED
    BY <1>1, <1>5, <2>1, <2>2 DEF Closed
<1>11. Exported(atStart.rows \cap table, b)
  <2> DEFINE S == atStart.rows \cap table
  <2>1. \A x : Dated(x, b) <=> Dated(x, bundle)
    BY <1>5 DEF Dated
  <2>2. \A x \in table : (x.kind = k /\ (k \in {"entity", "version", "event"} => Dated(x, bundle))
                          /\ (Parent(k) # "none" => \E y \in bundle.rows : y.kind = Parent(k) /\ y.id = x.of)) => x \in b.rows
    BY <1>2, <1>5 DEF Selected, InPeriod, Dated
  <2>3. \A x, y \in S : y.id = x.of => y.kind = Parent(x.kind)
    BY <1>1 DEF Related
  <2>4. \A x \in bundle.rows : x \in b.rows
    BY <1>5
  <2>5. CASE k = "entity"
    <3>1. b.pc = "version" /\ Parent(k) = "none"
      BY <1>5, <2>5 DEF After, Parent
    <3> QED
      BY <2>1, <2>2, <2>5, <3>1 DEF Exported
  <2>6. CASE k = "version"
    <3>1. b.pc = "thread" /\ Parent(k) = "none"
      BY <1>5, <2>6 DEF After, Parent
    <3> QED
      BY <1>0, <1>1, <2>1, <2>2, <2>4, <2>6, <3>1 DEF Exported
  <2>7. CASE k = "thread"
    <3>1. b.pc = "reply" /\ Parent("thread") = "version"
      BY <1>5, <2>7 DEF After, Parent
    <3>2. \A x, y \in S : x.kind = "thread" /\ y.id = x.of /\ Dated(y, b) => x \in b.rows
      BY <1>0, <1>1, <2>1, <2>2, <2>3, <2>7, <3>1 DEF Exported
    <3> QED
      BY <1>0, <1>1, <2>1, <2>4, <2>7, <3>1, <3>2 DEF Exported
  <2>8. CASE k = "reply"
    <3>1. b.pc = "event" /\ Parent("reply") = "thread"
      BY <1>5, <2>8 DEF After, Parent
    <3>2. ASSUME NEW x \in S, NEW y \in S, NEW z \in S, x.kind = "reply", y.id = x.of, z.id = y.of, Dated(z, b)
          PROVE  x \in b.rows
      <4>1. y.kind = "thread"
        BY <2>3, <3>1, <3>2
      <4>2. y \in bundle.rows
        BY <1>0, <1>1, <2>1, <2>8, <3>2, <4>1 DEF Exported
      <4> QED
        BY <2>2, <2>8, <3>1, <3>2, <4>1, <4>2
    <3> QED
      BY <1>0, <1>1, <2>1, <2>4, <2>8, <3>1, <3>2 DEF Exported
  <2>9. CASE k = "event"
    <3>1. b.pc = "done" /\ Parent("event") = "entity"
      BY <1>5, <2>9 DEF After, Parent
    <3>2. \A x, y \in S : x.kind = "event" /\ Dated(x, b) /\ y.id = x.of /\ Dated(y, b) => x \in b.rows
      BY <1>0, <1>1, <2>1, <2>2, <2>3, <2>9, <3>1 DEF Exported
    <3> QED
      BY <1>0, <1>1, <2>1, <2>4, <2>9, <3>1, <3>2 DEF Exported
  <2> QED
    BY <2>5, <2>6, <2>7, <2>8, <2>9, EvidenceAssumption
<1>12. BundleFacts(table, atStart.rows, b)
  BY <1>1, <1>8, <1>9, <1>10, <1>11 DEF BundleFacts
<1> QED
  BY <1>4, <1>12 DEF BundleInv

(* What the facts about rows promise of a bundle.                           *)
LEMMA BundlePromise ==
    ASSUME BundleInv
    PROVE  /\ BundleIsClosed /\ PresentIsExported /\ table \subseteq Row /\ bundle.rows \subseteq Row
           /\ bundle.pc \in {"idle", "entity", "version", "thread", "reply", "event", "done"}
<1>1. /\ Related(table \cup atStart.rows \cup bundle.rows) /\ Rooted(table) /\ Rooted(atStart.rows)
      /\ bundle \in Bundle /\ Closed(bundle.rows) /\ Exported(atStart.rows \cap table, bundle)
  BY DEF BundleInv, BundleFacts
<1>2. BundleIsClosed
  BY <1>1 DEF Closed, BundleIsClosed
<1>3. PresentIsExported
  <2> DEFINE S == atStart.rows \cap table
  <2> SUFFICES ASSUME bundle.pc = "done", NEW x \in S, InScope(x) PROVE x \in bundle.rows
    BY DEF PresentIsExported
  <2>1. /\ Dated(x, bundle) /\ \A y \in Above(x, S) : Dated(y, bundle)
        /\ x.of # NoRow => \E y \in Above(x, S) : y.id = x.of
    BY DEF InScope, InPeriod, Dated
  <2>2. x.kind \in Kinds /\ (Parent(x.kind) = "none" <=> x.of = NoRow)
    BY <1>1 DEF Related, Row
  <2>3. CASE x.kind \in {"entity", "version"}
    BY <1>1, <2>1, <2>3 DEF Exported
  <2>4. CASE x.kind \in {"thread", "event"}
    <3>1. Parent(x.kind) # "none"
      BY <2>4 DEF Parent
    <3>2. PICK y \in S : y.id = x.of /\ Dated(y, bundle)
      BY <2>1, <2>2, <3>1 DEF Above
    <3> QED
      BY <1>1, <2>1, <2>4, <3>2 DEF Exported
  <2>5. CASE x.kind = "reply"
    <3>1. Parent("reply") = "thread" /\ Parent("thread") = "version"
      BY DEF Parent
    <3>2. PICK y \in S : y.id = x.of
      BY <2>1, <2>2, <2>5, <3>1 DEF Above
    <3>3. y.kind = "thread" /\ y.of # NoRow
      BY <1>1, <2>5, <3>1, <3>2 DEF Related
    <3>4. PICK z \in table : z.id = y.of
      BY <1>1, <3>2, <3>3 DEF Rooted
    <3>5. PICK w \in atStart.rows : w.id = y.of
      BY <1>1, <3>2, <3>3 DEF Rooted
    <3>6. z = w
      BY <1>1, <3>4, <3>5 DEF Related
    <3>7. Dated(z, bundle)
      BY <2>1, <3>2, <3>4, <3>5, <3>6 DEF Above
    <3> QED
      BY <1>1, <2>5, <3>2, <3>4, <3>5, <3>6, <3>7 DEF Exported
  <2> QED
    BY <2>2, <2>3, <2>4, <2>5, EvidenceAssumption
<1>4. bundle.pc \in {"idle", "entity", "version", "thread", "reply", "event", "done"} /\ bundle.rows \subseteq Row
  BY <1>1, EvidenceAssumption DEF Bundle
<1> QED
  BY <1>1, <1>2, <1>3, <1>4 DEF Related

--------------------------------------------------------------------------------
(* The evidence package.                                                    *)

Event == [action : {"change", "drill", "down"}, ts : 1 .. MaxInstant, id : RowIds]
Numbered(S) == S \subseteq Event /\ IsFiniteSet(S) /\ \A e, f \in S : e.id = f.id => e = f

LEMMA EventFields == \A e \in Event : e.ts \in 1 .. MaxInstant /\ e.id \in RowIds
  BY DEF Event

(* Events told apart by their ids are in one order.                         *)
LEMMA NewerIsOrder ==
    ASSUME NEW S, Numbered(S)
    PROVE  /\ \A e, f \in S : e = f \/ Newer(e, f) \/ Newer(f, e)
           /\ \A e, f, g \in S : Newer(e, f) /\ Newer(f, g) => Newer(e, g)
           /\ \A e, f \in S : Newer(e, f) => ~Newer(f, e)
<1>0. (\A t \in 1 .. MaxInstant : t \in Nat) /\ \A i \in RowIds : i \in Nat
  BY EvidenceAssumption
<1>1. \A e \in S : e.ts \in Int /\ e.id \in Int
  <2>1. S \subseteq Event
    BY DEF Numbered
  <2>2. \A e \in S : e.ts \in 1 .. MaxInstant /\ e.id \in RowIds
    BY <2>1, EventFields
  <2> QED
    BY <1>0, <2>2
<1>2. \A e, f \in S : e # f => e.id # f.id
  BY DEF Numbered
<1> QED
  BY <1>1, <1>2 DEF Newer

(* One of them is the oldest.                                               *)
LEMMA OneIsOldest ==
    ASSUME NEW S, Numbered(S), S # {}
    PROVE  \E e \in S : \A f \in S : ~Newer(e, f)
<1>0. (\A t \in 1 .. MaxInstant : t \in Nat) /\ \A i \in RowIds : i \in Nat
  BY EvidenceAssumption
<1>1. \A e \in S : e.ts \in Nat /\ e.id \in Nat
  <2>1. S \subseteq Event
    BY DEF Numbered
  <2>2. \A e \in S : e.ts \in 1 .. MaxInstant /\ e.id \in RowIds
    BY <2>1, EventFields
  <2> QED
    BY <1>0, <2>2
<1>2. PICK T : T = {e.ts : e \in S}
  OBVIOUS
<1>3. T \in SUBSET Nat /\ T # {}
  BY <1>1, <1>2
<1>4. PICK t \in T : \A y \in T : t <= y
  BY <1>3, Least
<1>5. PICK I : I = {e.id : e \in {f \in S : f.ts = t}}
  OBVIOUS
<1>6. I \in SUBSET Nat /\ I # {}
  BY <1>1, <1>2, <1>4, <1>5
<1>7. PICK i \in I : \A y \in I : i <= y
  BY <1>6, Least
<1>8. PICK e \in S : e.ts = t /\ e.id = i
  BY <1>5, <1>7
<1>9. ASSUME NEW f \in S PROVE ~Newer(e, f)
  <2>1. e.ts <= f.ts /\ f.ts \in Int /\ e.ts \in Int /\ f.id \in Int /\ e.id \in Int
    BY <1>1, <1>2, <1>4, <1>8
  <2>2. f.ts = e.ts => e.id <= f.id
    BY <1>5, <1>7, <1>8
  <2> QED
    BY <2>1, <2>2 DEF Newer
<1> QED
  BY <1>9

(* The n newest are at most n: all but the oldest of them are newer than it.*)
LEMMA NewestAreFew ==
    ASSUME NEW S, Numbered(S), NEW n \in Nat \ {0}
    PROVE  Cardinality(Newest(S, n)) <= n /\ Newest(S, n) \subseteq S
<1>1. PICK N : N = Newest(S, n)
  OBVIOUS
<1>2. N \subseteq S /\ IsFiniteSet(S)
  BY <1>1 DEF Newest, Numbered
<1>3. IsFiniteSet(N)
  BY <1>2, FS_Subset
<1>4. CASE N = {}
  BY <1>1, <1>2, <1>4, FS_EmptySet
<1>5. CASE N # {}
  <2>1. Numbered(N)
    BY <1>2, <1>3 DEF Numbered
  <2>2. PICK e \in N : \A f \in N : ~Newer(e, f)
    BY <1>5, <2>1, OneIsOldest
  <2>3. PICK A : A = {f \in S : Newer(f, e)}
    OBVIOUS
  <2>4. N \ {e} \subseteq A
    BY <1>2, <2>1, <2>2, <2>3, NewerIsOrder
  <2>5. Cardinality(A) < n
    BY <1>1, <2>2, <2>3 DEF Newest
  <2>6. IsFiniteSet(A)
    BY <1>2, <2>3, FS_Subset
  <2>7. Cardinality(N \ {e}) <= Cardinality(A) /\ Cardinality(A) \in Nat
    BY <2>4, <2>6, FS_Subset, FS_CardinalityType
  <2>8. Cardinality(N \ {e}) = Cardinality(N) - 1 /\ Cardinality(N) \in Nat
    BY <1>3, <2>2, FS_RemoveElement, FS_CardinalityType
  <2> QED
    BY <1>1, <1>2, <2>5, <2>7, <2>8
<1> QED
  BY <1>4, <1>5

(* What is not among them is older than they are.                           *)
LEMMA OthersAreOlder ==
    ASSUME NEW S, Numbered(S), NEW n \in Nat \ {0}, NEW e \in S, e \notin Newest(S, n), NEW f \in Newest(S, n)
    PROVE  Newer(f, e)
<1>1. f \in S /\ Cardinality({g \in S : Newer(g, f)}) < n /\ ~(Cardinality({g \in S : Newer(g, e)}) < n)
  BY DEF Newest
<1>2. SUFFICES ASSUME Newer(e, f) PROVE FALSE
  BY <1>1, NewerIsOrder
<1>3. PICK A, B : A = {g \in S : Newer(g, e)} /\ B = {g \in S : Newer(g, f)}
  OBVIOUS
<1>4. A \subseteq B
  BY <1>1, <1>2, <1>3, NewerIsOrder
<1>5. IsFiniteSet(B)
  BY <1>3, FS_Subset DEF Numbered
<1>6. Cardinality(A) <= Cardinality(B) /\ Cardinality(A) \in Nat /\ Cardinality(B) \in Nat
  BY <1>4, <1>5, FS_Subset, FS_CardinalityType
<1> QED
  BY <1>1, <1>3, <1>6

(* What each query of a package found when it was done, against the events  *)
(* there were at its beginning, and those there are.                        *)
Package == [pc : {"idle", "query", "done"}, from : 0 .. MaxInstant, to : 0 .. MaxInstant,
            todo : SUBSET {"changes", "drill", "down"}, changes : SUBSET Event, drill : Event \cup {NoRow}, down : Nat]
ChangesFound(L, E, p) ==
    /\ \A e \in Within(p, Of("change", E)) \ p.changes : \A f \in p.changes : Newer(f, e)
    /\ p.changes \subseteq Within(p, Of("change", L))
DrillFound(E, p) == \A e \in Of("drill", E) : p.drill # NoRow /\ p.drill.ts >= e.ts
DownFound(L, E, p) ==
    p.down >= Cardinality(Within(p, Of("down", E))) /\ p.down <= Cardinality(Within(p, Of("down", L)))
Found(L, E, p) ==
    /\ "changes" \notin p.todo => ChangesFound(L, E, p)
    /\ "drill" \notin p.todo => DrillFound(E, p)
    /\ "down" \notin p.todo => DownFound(L, E, p)

PackageFacts(L, E, p) ==
    /\ Numbered(L) /\ E \subseteq L /\ p \in Package /\ Cardinality(p.changes) <= Limit
    /\ p.pc # "idle" => Found(L, E, p)
    /\ p.pc \in {"idle", "done"} => p.todo = {}

PackageInv == PackageFacts(log, atStart.events, pack)

(* More events take nothing from a period.                                  *)
LEMMA WithinGrows ==
    ASSUME NEW p, NEW a, NEW S, NEW T, S \subseteq T, IsFiniteSet(T)
    PROVE  /\ Within(p, Of(a, S)) \subseteq Within(p, Of(a, T))
           /\ IsFiniteSet(Within(p, Of(a, S))) /\ IsFiniteSet(Within(p, Of(a, T)))
           /\ Cardinality(Within(p, Of(a, S))) \in Nat /\ Cardinality(Within(p, Of(a, T))) \in Nat
           /\ Cardinality(Within(p, Of(a, S))) <= Cardinality(Within(p, Of(a, T)))
<1>1. PICK V, W : V = Within(p, Of(a, S)) /\ W = Within(p, Of(a, T))
  OBVIOUS
<1>2. V \subseteq W /\ W \subseteq T
  BY <1>1 DEF Within, Of
<1>3. V \in SUBSET W /\ W \in SUBSET T
  BY <1>2
<1>4. IsFiniteSet(W)
  BY <1>3, FS_Subset
<1>5. IsFiniteSet(V) /\ Cardinality(V) <= Cardinality(W)
  BY <1>3, <1>4, FS_Subset
<1> QED
  BY <1>1, <1>2, <1>4, <1>5, FS_CardinalityType

(* An event is recorded, late or not, with an id of its own.                *)
LEMMA RecordStep ==
    ASSUME PackageInv, NEW a \in {"change", "drill", "down"}, NEW ts \in 1 .. MaxInstant, NEW i \in RowIds, Record(a, ts, i)
    PROVE  PackageInv'
<1>1. PICK n : n = [action |-> a, ts |-> ts, id |-> i]
  OBVIOUS
<1>2. n \in Event /\ n.id = i
  BY <1>1 DEF Event
<1>3. log' = log \cup {n} /\ (\A x \in log : x.id # i) /\ pack' = pack /\ atStart' = atStart
  BY <1>1 DEF Record
<1>4. /\ log \subseteq Event /\ IsFiniteSet(log) /\ (\A e, f \in log : e.id = f.id => e = f)
      /\ atStart.events \subseteq log /\ pack \in Package
  BY DEF PackageInv, PackageFacts, Numbered
<1>5. log \subseteq log' /\ IsFiniteSet(log') /\ log' \subseteq Event
  BY <1>2, <1>3, <1>4, FS_AddElement
<1>6. Numbered(log')
  BY <1>2, <1>3, <1>4, <1>5 DEF Numbered
<1>7. ASSUME pack.pc # "idle" PROVE Found(log', atStart.events, pack)
  <2>1. Found(log, atStart.events, pack)
    BY <1>7 DEF PackageInv, PackageFacts
  <2>2. "changes" \notin pack.todo => ChangesFound(log', atStart.events, pack)
    BY <1>5, <2>1, WithinGrows DEF Found, ChangesFound
  <2>3. PICK x, y : x = Cardinality(Within(pack, Of("down", log))) /\ y = Cardinality(Within(pack, Of("down", log')))
    OBVIOUS
  <2>4. x \in Nat /\ y \in Nat /\ x <= y
    BY <1>5, <2>3, WithinGrows
  <2>5. pack.down \in Nat
    BY <1>4 DEF Package
  <2>6. "down" \notin pack.todo => pack.down >= Cardinality(Within(pack, Of("down", atStart.events))) /\ pack.down <= x
    BY <2>1, <2>3 DEF Found, DownFound
  <2>7. "down" \notin pack.todo => pack.down <= y
    BY <2>4, <2>5, <2>6
  <2>8. "down" \notin pack.todo => DownFound(log', atStart.events, pack)
    BY <2>3, <2>6, <2>7 DEF DownFound
  <2> QED
    BY <2>1, <2>2, <2>8 DEF Found
<1>8. PackageFacts(log', atStart.events, pack)
  BY <1>4, <1>5, <1>6, <1>7 DEF PackageInv, PackageFacts
<1> QED
  BY <1>3, <1>8 DEF PackageInv

(* A package is begun, or finished.                                         *)
LEMMA PackageBounds ==
    ASSUME PackageInv, DOMAIN atStart = {"rows", "events"},
           (\E from, to \in 1 .. MaxInstant : AssembleSoc2EvidencePackage(from, to)) \/ FinishPackage
    PROVE  PackageInv'
<1>1. ASSUME NEW from \in 1 .. MaxInstant, NEW to \in 1 .. MaxInstant, AssembleSoc2EvidencePackage(from, to)
      PROVE  PackageInv'
  <2>1. PICK p : p = [NoPack EXCEPT !.pc = "query", !.from = from, !.to = to, !.todo = {"changes", "drill", "down"}]
    OBVIOUS
  <2>2. pack' = p /\ atStart'.events = log /\ log' = log
    BY <1>1, <2>1 DEF AssembleSoc2EvidencePackage
  <2>3. p = [pc |-> "query", from |-> from, to |-> to, todo |-> {"changes", "drill", "down"}, changes |-> {},
             drill |-> NoRow, down |-> 0]
    BY <2>1 DEF NoPack
  <2>4. from \in 0 .. MaxInstant /\ to \in 0 .. MaxInstant
    BY EvidenceAssumption
  <2>5. p \in Package /\ p.pc = "query" /\ p.todo = {"changes", "drill", "down"} /\ p.changes = {}
    BY <2>3, <2>4 DEF Package
  <2>6. Cardinality(p.changes) <= Limit
    BY <2>5, FS_EmptySet, EvidenceAssumption
  <2>7. Found(log, log, p)
    BY <2>5 DEF Found
  <2>8. PackageFacts(log, log, p)
    BY <2>5, <2>6, <2>7 DEF PackageInv, PackageFacts
  <2> QED
    BY <2>2, <2>8 DEF PackageInv
<1>2. CASE FinishPackage
  <2>1. PICK p : p = [pack EXCEPT !.pc = "done"]
    OBVIOUS
  <2>2. pack' = p /\ atStart' = atStart /\ log' = log /\ pack.pc = "query" /\ pack.todo = {}
    BY <1>2, <2>1 DEF FinishPackage
  <2>3. pack \in Package /\ Found(log, atStart.events, pack)
    BY <2>2 DEF PackageInv, PackageFacts
  <2>4. /\ p \in Package /\ p.pc = "done" /\ p.todo = pack.todo /\ p.changes = pack.changes
        /\ p.drill = pack.drill /\ p.down = pack.down /\ p.from = pack.from /\ p.to = pack.to
    BY <2>1, <2>3 DEF Package
  <2>5. Found(log, atStart.events, p)
    BY <2>3, <2>4 DEF Found, ChangesFound, DrillFound, DownFound, Within
  <2>6. PackageFacts(log, atStart.events, p)
    BY <2>2, <2>4, <2>5 DEF PackageInv, PackageFacts
  <2> QED
    BY <2>2, <2>6 DEF PackageInv
<1> QED
  BY <1>1, <1>2

(* The three queries of a package.                                          *)
LEMMA PackageQueries ==
    ASSUME PackageInv, BuildChangeLog \/ BuildBackupVerificationProof \/ BuildAvailabilityRecord
    PROVE  PackageInv'
<1>0. /\ pack \in Package /\ Cardinality(pack.changes) <= Limit /\ Numbered(log) /\ atStart.events \subseteq log
      /\ pack.pc # "idle" => Found(log, atStart.events, pack)
      /\ pack.pc \in {"idle", "done"} => pack.todo = {}
      /\ IsFiniteSet(log) /\ log \subseteq Event
  BY DEF PackageInv, PackageFacts, Numbered
<1>1. CASE BuildChangeLog
  <2>1. PICK S : S = Within(pack, Of("change", log))
    OBVIOUS
  <2>2. PICK N : N = Newest(S, Limit)
    OBVIOUS
  <2>3. PICK p : p = [pack EXCEPT !.changes = N, !.todo = @ \ {"changes"}]
    OBVIOUS
  <2>4. pack' = p /\ atStart' = atStart /\ log' = log /\ "changes" \in pack.todo
    BY <1>1, <2>1, <2>2, <2>3 DEF BuildChangeLog, ChangeLog
  <2>0. S \subseteq log
    BY <2>1 DEF Within, Of
  <2>5. IsFiniteSet(S) /\ Within(pack, Of("change", atStart.events)) \subseteq S
    BY <1>0, <2>1, WithinGrows
  <2>6. Numbered(S)
    BY <1>0, <2>0, <2>5 DEF Numbered
  <2>7. Cardinality(N) <= Limit /\ N \subseteq S /\ N \subseteq Event
    BY <1>0, <2>0, <2>2, <2>6, NewestAreFew, EvidenceAssumption
  <2>8. /\ p.pc = pack.pc /\ p.todo = pack.todo \ {"changes"} /\ p.changes = N /\ p.drill = pack.drill /\ p.down = pack.down
        /\ p.from = pack.from /\ p.to = pack.to /\ p \in Package
    BY <1>0, <2>3, <2>7 DEF Package
  <2>9. \A e \in S \ N, f \in N : Newer(f, e)
    BY <2>2, <2>6, OthersAreOlder, EvidenceAssumption
  <2>10. ChangesFound(log, atStart.events, p)
    BY <2>1, <2>5, <2>7, <2>8, <2>9 DEF ChangesFound, Within
  <2>11. Found(log, atStart.events, p)
    BY <1>0, <2>4, <2>8, <2>10 DEF Found, DrillFound, DownFound, Within
  <2>12. PackageFacts(log, atStart.events, p)
    BY <1>0, <2>4, <2>7, <2>8, <2>11 DEF PackageFacts
  <2> QED
    BY <2>4, <2>12 DEF PackageInv
<1>2. CASE BuildBackupVerificationProof
  <2>1. PICK D : D = Of("drill", log)
    OBVIOUS
  <2>2. PICK d \in IF D = {} THEN {NoRow} ELSE LatestDrills : pack' = [pack EXCEPT !.drill = d, !.todo = @ \ {"drill"}]
    BY <1>2, <2>1 DEF BuildBackupVerificationProof
  <2>3. PICK p : p = [pack EXCEPT !.drill = d, !.todo = @ \ {"drill"}]
    OBVIOUS
  <2>4. pack' = p /\ atStart' = atStart /\ log' = log /\ "drill" \in pack.todo
    BY <1>2, <2>2, <2>3 DEF BuildBackupVerificationProof
  <2>5. D \subseteq Event /\ NoRow \notin Event
    BY <1>0, <2>1, EvidenceAssumption DEF Of, Event
  <2>6. (D = {} /\ d = NoRow) \/ (d \in D /\ \A f \in D : f.ts <= d.ts)
    BY <2>1, <2>2 DEF LatestDrills
  <2>7. /\ p.pc = pack.pc /\ p.todo = pack.todo \ {"drill"} /\ p.changes = pack.changes /\ p.drill = d /\ p.down = pack.down
        /\ p.from = pack.from /\ p.to = pack.to /\ p \in Package
    BY <1>0, <2>3, <2>5, <2>6 DEF Package
  <2>8. Of("drill", atStart.events) \subseteq D
    BY <1>0, <2>1 DEF Of
  <2>9. \A e \in D : e.ts \in Int
    BY <2>5, EvidenceAssumption DEF Event
  <2>10. \A e \in Of("drill", atStart.events) : d # NoRow /\ d.ts >= e.ts
    BY <2>5, <2>6, <2>8, <2>9
  <2>11. DrillFound(atStart.events, p)
    BY <2>7, <2>10 DEF DrillFound
  <2>12. Found(log, atStart.events, p)
    BY <1>0, <2>4, <2>7, <2>11 DEF Found, ChangesFound, DownFound, Within
  <2>13. PackageFacts(log, atStart.events, p)
    BY <1>0, <2>4, <2>7, <2>12 DEF PackageFacts
  <2> QED
    BY <2>4, <2>13 DEF PackageInv
<1>3. CASE BuildAvailabilityRecord
  <2>1. PICK d : d = Cardinality(Within(pack, Of("down", log)))
    OBVIOUS
  <2>2. PICK p : p = [pack EXCEPT !.down = d, !.todo = @ \ {"down"}]
    OBVIOUS
  <2>3. pack' = p /\ atStart' = atStart /\ log' = log /\ "down" \in pack.todo
    BY <1>3, <2>1, <2>2 DEF BuildAvailabilityRecord
  <2>4. d \in Nat /\ d <= d /\ Cardinality(Within(pack, Of("down", atStart.events))) <= d
    BY <1>0, <2>1, WithinGrows
  <2>5. Cardinality(Within(pack, Of("down", atStart.events))) \in Nat
    BY <1>0, WithinGrows
  <2>6. /\ p.pc = pack.pc /\ p.todo = pack.todo \ {"down"} /\ p.changes = pack.changes /\ p.drill = pack.drill /\ p.down = d
        /\ p.from = pack.from /\ p.to = pack.to /\ p \in Package
    BY <1>0, <2>2, <2>4 DEF Package
  <2>7. \A S : Within(p, S) = Within(pack, S)
    BY <2>6 DEF Within
  <2>8. d >= Cardinality(Within(pack, Of("down", atStart.events)))
    BY <2>4, <2>5
  <2>9. DownFound(log, atStart.events, p)
    BY <2>1, <2>4, <2>6, <2>7, <2>8 DEF DownFound
  <2>10. Found(log, atStart.events, p)
    BY <1>0, <2>3, <2>6, <2>7, <2>9 DEF Found, ChangesFound, DrillFound
  <2>11. PackageFacts(log, atStart.events, p)
    BY <1>0, <2>3, <2>6, <2>10 DEF PackageFacts
  <2> QED
    BY <2>3, <2>11 DEF PackageInv
<1> QED
  BY <1>1, <1>2, <1>3

(* What the facts about events promise of a package.                        *)
LEMMA PackagePromise ==
    ASSUME PackageInv
    PROVE  PackageIsCurrent /\ pack.pc \in {"idle", "query", "done"} /\ Cardinality(pack.changes) <= Limit
<1>1. pack \in Package /\ Cardinality(pack.changes) <= Limit
  BY DEF PackageInv, PackageFacts
<1>2. pack.pc = "done" => pack.todo = {} /\ Found(log, atStart.events, pack)
  BY DEF PackageInv, PackageFacts
<1>3. PackageIsCurrent
  BY <1>2 DEF PackageIsCurrent, Found, ChangesFound, DrillFound, DownFound
<1> QED
  BY <1>1, <1>3 DEF Package

--------------------------------------------------------------------------------
(* The evidence: bundle and package, over one clock.                        *)

EvidenceInv ==
    /\ instant \in 1 .. MaxInstant /\ DOMAIN atStart = {"rows", "events"}
    /\ BundleInv /\ PackageInv

(* Nothing is exported or assembled at first.                               *)
LEMMA EvidenceStart == EvidenceInit => EvidenceInv
<1> SUFFICES ASSUME EvidenceInit PROVE EvidenceInv
  OBVIOUS
<1>1. /\ instant \in 1 .. MaxInstant /\ DOMAIN atStart = {"rows", "events"}
      /\ table = {} /\ log = {} /\ atStart.rows = {} /\ atStart.events = {} /\ bundle = NoBundle /\ pack = NoPack
  BY EvidenceAssumption DEF EvidenceInit
<1>2. NoBundle \in Bundle /\ NoBundle.rows = {} /\ NoBundle.pc = "idle"
  BY EvidenceAssumption DEF NoBundle, Bundle
<1>3. BundleFacts({}, {}, NoBundle)
  BY <1>2 DEF BundleFacts, Related, Rooted, Closed, Exported
<1>4. NoPack \in Package /\ NoPack.changes = {} /\ NoPack.pc = "idle" /\ NoPack.todo = {}
  BY EvidenceAssumption DEF NoPack, Package
<1>5. PackageFacts({}, {}, NoPack)
  BY <1>4, FS_EmptySet, EvidenceAssumption DEF PackageFacts, Numbered
<1> QED
  BY <1>1, <1>3, <1>5 DEF EvidenceInv, BundleInv, PackageInv

(* Rows, queries and events move one of the two, and leave the other be.    *)
LEMMA EvidenceSteps == EvidenceInv /\ (BundleNext \/ PackageNext \/ UNCHANGED evidenceVars) => EvidenceInv'
<1> SUFFICES ASSUME EvidenceInv, BundleNext \/ PackageNext \/ UNCHANGED evidenceVars PROVE EvidenceInv'
  OBVIOUS
<1>0. instant \in 1 .. MaxInstant /\ DOMAIN atStart = {"rows", "events"} /\ BundleInv /\ PackageInv
  BY DEF EvidenceInv
<1>1. ASSUME UNCHANGED <<table, bundle>>, atStart'.rows = atStart.rows PROVE BundleInv'
  BY <1>0, <1>1 DEF BundleInv
<1>2. ASSUME UNCHANGED <<log, pack>>, atStart'.events = atStart.events PROVE PackageInv'
  BY <1>0, <1>2 DEF PackageInv
<1>3. CASE InstantPasses \/ UNCHANGED evidenceVars
  <2>1. UNCHANGED <<table, bundle, log, pack, atStart>> /\ instant' \in 1 .. MaxInstant
    BY <1>0, <1>3, EvidenceAssumption DEF InstantPasses, evidenceVars
  <2> QED
    BY <1>0, <1>1, <1>2, <2>1 DEF EvidenceInv
<1>4. CASE QueryRows
  <2>1. UNCHANGED <<instant, log, pack, atStart>>
    BY <1>4 DEF QueryRows
  <2> QED
    BY <1>0, <1>2, <1>4, <2>1, QueryRowsStep DEF EvidenceInv
<1>5. ASSUME NEW i \in RowIds, NEW k \in Kinds, AddRow(i, k) PROVE EvidenceInv'
  <2>1. UNCHANGED <<instant, log, pack, atStart>>
    BY <1>5 DEF AddRow
  <2> QED
    BY <1>0, <1>2, <1>5, <2>1, AddRowStep DEF EvidenceInv
<1>6. ASSUME NEW x \in table, RemoveRow(x) PROVE EvidenceInv'
  <2>1. UNCHANGED <<instant, log, pack, atStart>>
    BY <1>6 DEF RemoveRow
  <2> QED
    BY <1>0, <1>2, <1>6, <2>1, RemoveRowStep DEF EvidenceInv
<1>7. ASSUME NEW from \in 0 .. MaxInstant, BeginBundle(from) PROVE EvidenceInv'
  <2>1. /\ UNCHANGED <<instant, log, pack>> /\ atStart' = [atStart EXCEPT !.rows = table]
    BY <1>7 DEF BeginBundle
  <2>2. DOMAIN atStart' = {"rows", "events"} /\ atStart'.events = atStart.events
    BY <1>0, <2>1
  <2> QED
    BY <1>0, <1>2, <1>7, <2>1, <2>2, BeginBundleStep DEF EvidenceInv
<1>8. ASSUME NEW e \in {"change", "drill", "down"}, NEW ts \in 1 .. MaxInstant, NEW i \in RowIds, Record(e, ts, i)
      PROVE  EvidenceInv'
  <2>1. UNCHANGED <<instant, table, bundle, atStart>>
    BY <1>8 DEF Record
  <2> QED
    BY <1>0, <1>1, <1>8, <2>1, RecordStep DEF EvidenceInv
<1>9. ASSUME NEW from \in 1 .. MaxInstant, NEW to \in 1 .. MaxInstant, AssembleSoc2EvidencePackage(from, to)
      PROVE  EvidenceInv'
  <2>1. UNCHANGED <<instant, table, bundle>> /\ atStart' = [atStart EXCEPT !.events = log]
    BY <1>9 DEF AssembleSoc2EvidencePackage
  <2>2. DOMAIN atStart' = {"rows", "events"} /\ atStart'.rows = atStart.rows
    BY <1>0, <2>1
  <2>3. PackageInv'
    BY <1>0, <1>9, PackageBounds
  <2> QED
    BY <1>0, <1>1, <2>1, <2>2, <2>3 DEF EvidenceInv
<1>10. CASE BuildChangeLog \/ BuildBackupVerificationProof \/ BuildAvailabilityRecord \/ FinishPackage
  <2>1. UNCHANGED <<instant, table, bundle, atStart>>
    BY <1>10 DEF BuildChangeLog, BuildBackupVerificationProof, BuildAvailabilityRecord, FinishPackage
  <2>2. PackageInv'
    BY <1>0, <1>10, PackageBounds, PackageQueries
  <2> QED
    BY <1>0, <1>1, <2>1, <2>2 DEF EvidenceInv
<1> QED
  BY <1>3, <1>4, <1>5, <1>6, <1>7, <1>8, <1>9, <1>10 DEF BundleNext, PackageNext

(* What the evidence promises.                                              *)
LEMMA EvidencePromise ==
    ASSUME EvidenceInv
    PROVE  EvidenceTypeOK /\ BundleIsClosed /\ PresentIsExported /\ PackageIsCurrent
  BY BundlePromise, PackagePromise DEF EvidenceInv, EvidenceTypeOK

--------------------------------------------------------------------------------
(* The composition: each step moves one of the services.                    *)

PlatformInv ==
    /\ KeyInv /\ LabelInv /\ IdentityInv /\ AuditInv /\ EntityInv /\ SettingInv /\ Switches
    /\ CronInv /\ BackupInv /\ EvidenceInv

(* A step of the platform, as each service sees it.                         *)
LEMMA PlatformParts ==
    ASSUME [Next]_platformVars
    PROVE  /\ KeyNext \/ UNCHANGED keyVars
           /\ [LabelNext]_labelVars
           /\ [IdentityNext]_identityVars
           /\ AuditNext \/ UNCHANGED auditVars
           /\ EntityNext \/ UNCHANGED entityVars
           /\ SettingNext \/ UNCHANGED settingVars
           /\ ReportNext \/ TickNext \/ FlagNext \/ UNCHANGED cronVars
           /\ BackupNext \/ RestoreNext \/ UNCHANGED backupVars
           /\ BundleNext \/ PackageNext \/ UNCHANGED evidenceVars
<1>1. UNCHANGED adminVars => UNCHANGED entityVars /\ UNCHANGED settingVars
  BY DEF adminVars
<1> QED
  BY <1>1 DEF Next, platformVars

(* Keys, labels, tokens, audit chain, desk, jobs, dumps and evidence keep   *)
(* their invariants in every behaviour (kms, encryption.ts, labels,         *)
(* identity dictionary, audit-service.ts, admin.ts, cron, backup.ts,        *)
(* ediscovery.ts, soc2-evidence.ts).                                        *)
THEOREM PlatformInvariant == Spec => []PlatformInv
<1>1. Init => PlatformInv
  BY KeyStart, LabelSteps, IdentitySteps, AuditStart, EntityStart, SettingStart, CronStart, BackupStart, EvidenceStart
  DEF Init, PlatformInv
<1>2. PlatformInv /\ [Next]_platformVars => PlatformInv'
  <2> SUFFICES ASSUME PlatformInv, [Next]_platformVars PROVE PlatformInv'
    OBVIOUS
  <2>1. KeyInv' /\ LabelInv' /\ IdentityInv' /\ AuditInv'
    BY PlatformParts, KeySteps, LabelSteps, IdentitySteps, AuditSteps DEF PlatformInv
  <2>2. EntityInv' /\ SettingInv' /\ Switches'
    BY PlatformParts, EntitySteps, SettingSteps, SwitchSteps DEF PlatformInv
  <2>3. CronInv' /\ BackupInv' /\ EvidenceInv'
    BY PlatformParts, CronSteps, BackupSteps, EvidenceSteps DEF PlatformInv
  <2> QED
    BY <2>1, <2>2, <2>3 DEF PlatformInv
<1> QED
  BY <1>1, <1>2, PTL DEF Spec

(* However writes, restarts, rotations and backfills, grants, revocations   *)
(* and rekeyings, ingestions and resolutions interleave, what is encrypted  *)
(* is read by those it is meant for and by nobody else.                     *)
THEOREM SecretsCorrect == Spec => []SecretsAreKept
<1>1. ASSUME PlatformInv PROVE SecretsAreKept
  <2>1. /\ KeyTypeOK /\ LocalRowsStayReadable /\ ServerReadsItsOwnRows /\ EncryptedOnce /\ BackfillLeavesNoPlaintext
    BY <1>1, KeyPromise DEF PlatformInv
  <2>2. /\ LabelTypeOK /\ NoReadAfterRevocation /\ ReadableUntilRekeyed
        /\ IdentityTypeOK /\ ReturnedTextIsReversible /\ AnswerIsAudited
    BY <1>1, LabelPromise, IdentityPromise DEF PlatformInv
  <2>3. AuditTypeOK /\ CronTypeOK /\ BackupTypeOK /\ EvidenceTypeOK
    BY <1>1, AuditPromise, CronPromise, BackupPromise, EvidencePromise DEF PlatformInv
  <2>4. AdminTypeOK
    <3>1. /\ props = Gone \/ props \in [Fields -> Value]
          /\ \A d \in Desks : desk[d].pc \in {"idle", "write", "audit", "answered", "refused"}
      BY <1>1, EntityPromise DEF PlatformInv
    <3>2. \A s \in Setters : setter[s].pc \in {"idle", "check", "disable", "write", "done", "refused"}
      BY <1>1, SettingPromise DEF PlatformInv
    <3>3. regulated \in BOOLEAN /\ legacy \in BOOLEAN
      BY <1>1 DEF PlatformInv, Switches
    <3> QED
      BY <3>1, <3>2, <3>3, Zenon DEF AdminTypeOK
  <2> QED
    BY <2>1, <2>2, <2>3, <2>4 DEF SecretsAreKept, PlatformTypeOK
<1> QED
  BY <1>1, PlatformInvariant, PTL

(* However writers overlap, fail and restart, the audit chain verifies, the *)
(* edits of an entity add up and its trail replays, a regulated tenant has  *)
(* no legacy path, a daily job has one row, a finished backup can be        *)
(* restored with its audit log, and bundle and package hold what they       *)
(* should.                                                                  *)
THEOREM WitnessCorrect == Spec => []RecordsBearWitness
<1>1. ASSUME PlatformInv PROVE RecordsBearWitness
  <2>1. ChainVerifies /\ ChainIsGrounded /\ EditsAddUp /\ TrailReplays /\ RegulatedHasNoLegacy
    BY <1>1, AuditPromise, EntityPromise, SettingPromise DEF PlatformInv
  <2>2. OneRowPerDay /\ DeliveryAccountsForAll /\ RestoredIsAudited /\ FinishedCanBeRestored /\ CleartextIsRemoved
    BY <1>1, CronPromise, BackupPromise DEF PlatformInv
  <2>3. BundleIsClosed /\ PresentIsExported /\ PackageIsCurrent
    BY <1>1, EvidencePromise DEF PlatformInv
  <2> QED
    BY <2>1, <2>2, <2>3 DEF RecordsBearWitness
<1> QED
  BY <1>1, PlatformInvariant, PTL

(* The flag job turns off only flags that were due when it read them        *)
(* (feature-flag sweep of cron), and no ingestion changes what a token      *)
(* stands for (identity dictionary): the two step properties of             *)
(* FlagsFollowTheirTime.                                                    *)
THEOREM FlagStepsCorrect == Spec => OnlyDueFlagsGoOff /\ MeaningIsStable
<1>1. PlatformInv /\ [Next]_platformVars =>
          [\A f \in Flags :
              flag[f].state # "disabled" /\ flag'[f].state = "disabled" /\ flagEdits' = flagEdits =>
                  DueForDisable(f) \/ \E s \in Servers : f \in sweep[s].stale]_cronVars
  <2> SUFFICES ASSUME PlatformInv, [Next]_platformVars, NEW f \in Flags,
                      flag[f].state # "disabled", flag'[f].state = "disabled", flagEdits' = flagEdits
               PROVE  DueForDisable(f) \/ \E s \in Servers : f \in sweep[s].stale
    OBVIOUS
  <2> QED
    BY PlatformParts, OffOnlyWhenDue DEF PlatformInv
<1>2. PlatformInv /\ [Next]_platformVars =>
          [\A k \in Tokens : dict[k] # NoName => dict'[k] = dict[k]]_identityVars
  <2> SUFFICES ASSUME PlatformInv, [Next]_platformVars
               PROVE  \A k \in Tokens : dict[k] # NoName => dict'[k] = dict[k]
    OBVIOUS
  <2> QED
    BY PlatformParts, IdentitySteps DEF PlatformInv
<1> QED
  BY <1>1, <1>2, PlatformInvariant, PTL DEF Spec, OnlyDueFlagsGoOff, MeaningIsStable

================================================================================
