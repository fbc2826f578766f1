-------------------------- MODULE NodeLimitsProofs --------------------------
(***************************************************************************)
(* Proofs about NodeLimits for any inbounds, users, connections, rules and  *)
(* policies: what the document in force says is what every connection gets, *)
(* and nothing that was acknowledged is lost.                              *)
(*                                                                         *)
(* And about LimitBucket, for any streams, limits and buffers: the bucket   *)
(* keeps its rate and gives back what was not used.                         *)
(***************************************************************************)
EXTENDS LimitsWithBucket, FiniteSetTheorems, WellFoundedInduction, TLAPS

(***************************************************************************)
(* The document.                                                           *)
(***************************************************************************)
\* The types the document's part of the state has.
DocumentTyped ==
    /\ disk \in Document \cup {None} /\ raw \in Document \cup {None} /\ doc \in Document
    /\ client \in [Client -> [pc : {"start", "read", "done"}, doc : Document \cup {None}]]

\* The users of the commands that were answered with success, in a document.
Holds(d, c) == UserOf(d, <<Binding[c].tag, Binding[c].email>>) = Binding[c].user

\* Wherever an update was interrupted: the document in force is the file as last read or written,
\* and both it and the file, which the next start reads, have every provisioned user.
DocumentInv ==
    /\ DocumentTyped
    /\ doc = Loaded(raw)
    /\ \A c \in Client : client[c].pc = "done" => Holds(doc, c) /\ Holds(Loaded(disk), c)

\* A document is never taken for a missing file.
LEMMA DocumentLoads ==
  ASSUME NEW d \in Document
  PROVE  d # None /\ Loaded(d) = d
  BY LimitsAssumption DEF Loaded

\* What is loaded is a document.
LEMMA LoadedTyped ==
  ASSUME NEW d \in Document \cup {None}
  PROVE  Loaded(d) \in Document
  BY LimitsAssumption DEF Loaded, EmptyDocument, Document

\* A document with one policy replaced is a document, and keeps the users of every other inbound.
LEMMA ReplacedPolicy ==
  ASSUME NEW d \in Document, NEW t \in Tag, NEW p \in PolicyType \cup {None}
  PROVE  /\ [d EXCEPT ![t] = p] \in Document
         /\ \A c \in Client : Binding[c].tag # t /\ Holds(d, c) => Holds([d EXCEPT ![t] = p], c)
  BY LimitsAssumption DEF Document, Holds, UserOf

\* WithUser gives a document that has the command's user and keeps those of every other command.
LEMMA UserWritten ==
  ASSUME NEW d \in Document, NEW c \in Client
  PROVE  /\ WithUser(d, Binding[c]) \in Document
         /\ Holds(WithUser(d, Binding[c]), c)
         /\ \A b \in Client : b # c /\ Holds(d, b) => Holds(WithUser(d, Binding[c]), b)
<1> DEFINE x == Binding[c]
           p == IF d[x.tag] = None THEN NoPolicy ELSE d[x.tag]
           q == [p EXCEPT !.users[x.email] = x.user]
<1>1. x.tag \in Tag /\ x.email \in Email /\ x.user \in User
  BY LimitsAssumption
<1>2. p \in PolicyType
  <2>1. NoPolicy \in PolicyType
    BY DEF NoPolicy, PolicyType
  <2> QED BY <1>1, <2>1 DEF Document
<1>3. /\ q \in PolicyType /\ q.users[x.email] = x.user
      /\ \A e \in Email : e # x.email => q.users[e] = p.users[e]
  BY <1>1, <1>2 DEF PolicyType
<1>4. WithUser(d, x) = [d EXCEPT ![x.tag] = q]
  BY DEF WithUser
<1>5. WithUser(d, x) \in Document
  BY <1>1, <1>3, <1>4 DEF Document
<1>6. q # None /\ WithUser(d, x)[x.tag] = q
  BY <1>1, <1>3, <1>4, LimitsAssumption DEF Document
<1>7. Holds(WithUser(d, x), c)
  BY <1>1, <1>3, <1>6 DEF Holds, UserOf
<1>8. ASSUME NEW b \in Client, b # c, Holds(d, b)
      PROVE  Holds(WithUser(d, x), b)
  <2>1. Binding[b].tag \in Tag /\ Binding[b].email \in Email /\ Binding[b].user \in User
    BY LimitsAssumption
  <2>2. CASE Binding[b].tag # x.tag
    BY <1>1, <1>4, <1>8, <2>1, <2>2 DEF Holds, UserOf, Document
  <2>3. CASE Binding[b].tag = x.tag
    <3>1. Binding[b].email # x.email
      BY <1>8, <2>3, BindingAssumption
    <3>2. d[x.tag] # None
      BY <1>8, <2>1, <2>3, LimitsAssumption DEF Holds, UserOf
    <3>3. d[x.tag].users[Binding[b].email] = Binding[b].user
      BY <1>8, <2>3, <3>2 DEF Holds, UserOf
    <3>4. q.users[Binding[b].email] = Binding[b].user
      BY <1>3, <2>1, <3>1, <3>2, <3>3
    <3> QED BY <1>6, <2>3, <3>4 DEF Holds, UserOf
  <2> QED BY <2>2, <2>3
<1> QED BY <1>5, <1>7, <1>8

\* A new document d takes effect, or reaches only the file, or is found at the next start; the commands in
\* kept have their users in it, and no other command is answered.
LEMMA UpdateKeepsDocument ==
  ASSUME DocumentInv, NEW d \in Document, Applied(d) \/ AppliedLate(d) \/ StartAfterRename(d),
         client' \in [Client -> [pc : {"start", "read", "done"}, doc : Document \cup {None}]],
         \A c \in Client : client'[c].pc = "done" =>
             Holds(d, c) /\ (client[c].pc = "done" \/ ~AppliedLate(d))
  PROVE  DocumentInv'
<1> USE DocumentLoads DEF DocumentInv, DocumentTyped
<1>1. CASE Applied(d)
  BY <1>1 DEF Applied, Replaces, install, Holds
<1>2. CASE AppliedLate(d)
  BY <1>2 DEF AppliedLate, Replaces, limiter, Holds
<1>3. CASE StartAfterRename(d)
  BY <1>3 DEF StartAfterRename, Replaces, Starts, Holds
<1> QED BY <1>1, <1>2, <1>3

\* The document's invariant is inductive.
LEMMA DocumentStep == DocumentInv /\ [Next]_vars => DocumentInv'
<1> SUFFICES ASSUME DocumentInv, [Next]_vars PROVE DocumentInv'
  OBVIOUS
<1> DEFINE Same == UNCHANGED <<disk, raw, doc, client>>
<1>0. Same => DocumentInv'
  BY DEF DocumentInv, DocumentTyped, Holds
<1>1. ASSUME NEW t \in Tag, NEW p \in Policy \cup {None}, serve(t, p) PROVE DocumentInv'
  <2> DEFINE d == [doc EXCEPT ![t] = p]
  <2>1. p \in PolicyType \cup {None} /\ doc \in Document
    BY LimitsAssumption DEF DocumentInv, DocumentTyped
  <2>2. d \in Document /\ \A c \in Client : Binding[c].tag # t /\ Holds(doc, c) => Holds(d, c)
    BY <2>1, ReplacedPolicy
  <2>3. Superseded({t}) /\ (Applied(d) \/ AppliedLate(d) \/ StartAfterRename(d))
    BY <1>1 DEF serve
  <2>4. client' \in [Client -> [pc : {"start", "read", "done"}, doc : Document \cup {None}]]
    BY <2>3 DEF Superseded, DocumentInv, DocumentTyped
  <2>5. \A c \in Client : client'[c].pc = "done" => client[c].pc = "done" /\ Binding[c].tag # t
    BY <2>3 DEF Superseded, DocumentInv, DocumentTyped
  <2>6. \A c \in Client : client'[c].pc = "done" => Holds(d, c)
    BY <2>2, <2>5 DEF DocumentInv
  <2> QED BY <2>2, <2>3, <2>4, <2>5, <2>6, UpdateKeepsDocument
<1>2. ASSUME NEW t \in Tag, NEW p \in Policy, OwnerEdits([EmptyDocument EXCEPT ![t] = p]) PROVE DocumentInv'
  <2> DEFINE d == [EmptyDocument EXCEPT ![t] = p]
  <2>1. d \in Document
    BY LimitsAssumption DEF EmptyDocument, Document
  <2>2. disk' = d /\ UNCHANGED <<raw, doc>> /\ Superseded(Tag)
    BY <1>2 DEF OwnerEdits, limiter
  <2>3. \A c \in Client : Binding[c].tag \in Tag
    BY LimitsAssumption
  <2>4. /\ client' \in [Client -> [pc : {"start", "read", "done"}, doc : Document \cup {None}]]
        /\ \A c \in Client : client'[c].pc # "done"
    BY <2>2, <2>3 DEF Superseded, DocumentInv, DocumentTyped
  <2> QED BY <2>1, <2>2, <2>4 DEF DocumentInv, DocumentTyped
<1>3. ASSUME NEW c \in Client, provision(c) PROVE DocumentInv'
  <2>1. /\ client' \in [Client -> [pc : {"start", "read", "done"}, doc : Document \cup {None}]]
        /\ \A b \in Client : client'[b].pc = "done" => client[b].pc = "done"
    BY <1>3 DEF provision, DocumentInv, DocumentTyped
  <2>2. UNCHANGED <<disk, raw, doc>>
    BY <1>3 DEF provision, limiter
  <2> QED BY <2>1, <2>2 DEF DocumentInv, DocumentTyped, Holds
<1>4. ASSUME NEW c \in Client, ProvisionApplies(c) PROVE DocumentInv'
  <2> DEFINE d == WithUser(doc, Binding[c])
  <2>1. Applied(d) /\ client' = [client EXCEPT ![c].pc = "done"]
    BY <1>4 DEF ProvisionApplies, SameRevision
  <2>2. d \in Document /\ Holds(d, c) /\ \A b \in Client : b # c /\ Holds(doc, b) => Holds(d, b)
    BY UserWritten DEF DocumentInv, DocumentTyped
  <2>3. /\ client' \in [Client -> [pc : {"start", "read", "done"}, doc : Document \cup {None}]]
        /\ \A b \in Client : client'[b].pc = "done" => b = c \/ client[b].pc = "done"
    BY <2>1 DEF DocumentInv, DocumentTyped
  <2>4. \A b \in Client : client'[b].pc = "done" => Holds(d, b)
    BY <2>2, <2>3 DEF DocumentInv
  <2>5. doc' = d /\ raw' = d /\ disk' = d
    BY <2>1 DEF Applied, Replaces, install
  <2> QED BY <2>2, <2>3, <2>4, <2>5, DocumentLoads DEF DocumentInv, DocumentTyped, Holds
<1>5. ASSUME NEW c \in Client, ProvisionFails(c) PROVE DocumentInv'
  <2> DEFINE d == WithUser(doc, Binding[c])
  <2>1. /\ client' = [client EXCEPT ![c].pc = "start"] /\ client[c].pc = "read"
        /\ UNCHANGED <<disk, raw, doc>> \/ AppliedLate(d) \/ StartAfterRename(d)
    BY <1>5 DEF ProvisionFails, SameRevision, limiter
  <2>2. /\ client' \in [Client -> [pc : {"start", "read", "done"}, doc : Document \cup {None}]]
        /\ \A b \in Client : client'[b].pc = "done" => b # c /\ client[b].pc = "done"
    BY <2>1 DEF DocumentInv, DocumentTyped
  <2>3. d \in Document /\ \A b \in Client : b # c /\ Holds(doc, b) => Holds(d, b)
    BY UserWritten DEF DocumentInv, DocumentTyped
  <2>4. CASE UNCHANGED <<disk, raw, doc>>
    BY <2>2, <2>4 DEF DocumentInv, DocumentTyped, Holds
  <2>5. CASE AppliedLate(d) \/ StartAfterRename(d)
    <3>1. \A b \in Client : client'[b].pc = "done" => Holds(d, b) /\ client[b].pc = "done"
      BY <2>2, <2>3 DEF DocumentInv
    <3> QED BY <2>2, <2>3, <2>5, <3>1, UpdateKeepsDocument
  <2> QED BY <2>1, <2>4, <2>5
<1>6. ASSUME Start PROVE DocumentInv'
  BY <1>6, LoadedTyped DEF Start, Starts, DocumentInv, DocumentTyped, Holds
<1>7. ASSUME NEW f \in Flow, NEW k \in Key, acquire(f, k) PROVE DocumentInv'
  BY <1>0, <1>7 DEF acquire
<1>8. ASSUME NEW f \in Flow, cancel(f) \/ release(f) PROVE DocumentInv'
  BY <1>0, <1>8 DEF cancel, release
<1>9. ASSUME NEW k \in Key, LimitEnds(k) \/ Forgets(k) \/ \E r \in Rule : RuleTriggers(k, r) PROVE DocumentInv'
  BY <1>0, <1>9 DEF LimitEnds, Forgets, RuleTriggers, Limits
<1>10. CASE UNCHANGED vars
  BY <1>0, <1>10 DEF vars, limiter
<1> QED BY <1>1, <1>2, <1>3, <1>4, <1>5, <1>6, <1>7, <1>8, <1>9, <1>10 DEF Next

\* The empty limiter satisfies the document's invariant.
LEMMA DocumentInit == Init => DocumentInv
  BY LimitsAssumption DEF Init, DocumentInv, DocumentTyped, EmptyDocument, Document, Loaded

\* Nothing that was acknowledged is lost: what is in force is what the file says, and every command
\* that was answered with success has its user there, whatever fails or restarts (persist, provision).
THEOREM DocumentSafe == Spec => []DocumentHonest
<1>1. DocumentInv => DocumentHonest
  BY DEF DocumentInv, DocumentHonest, InForceIsOnDisk, ProvisionedKept, Holds
<1> QED BY <1>1, DocumentInit, DocumentStep, PTL DEF Spec

(***************************************************************************)
(* Connections, counts and rates.                                          *)
(***************************************************************************)
FlowType ==
    [at : {"none", "open", "cancelled"}, tag : Tag \cup {None},
     email : Email \cup {None}, group : Group \cup {None}, known : BOOLEAN]
StateType == [kept : BOOLEAN, rate : Nat, auto : Nat, rules : SUBSET Rule, active : Nat]

\* The connections counted in a group, and those of a user.
In(g) == {f \in Counted : flow[f].group = g}
Of(k) == {f \in Counted : KeyOf(f) = k}

\* What acquire, install and release keep of every connection: it is counted in the group that the
\* document in force gives its user.
FlowsPlaced ==
    /\ flow \in [Flow -> FlowType]
    /\ \A f \in Counted : KeyOf(f) \in Key /\ flow[f].group = GroupOf(doc, KeyOf(f))

\* A user's state agrees with the document, or is not kept at all.
Current(k) ==
    IF state[k].kept
    THEN /\ state[k].rules = rulesFor(doc, k) /\ state[k].rate = RateFor(doc, k, state[k].auto)
         /\ state[k].auto # 0 => state[k].auto \in state[k].rules
    ELSE state[k] = NoState

StatesCurrent == state \in [Key -> StateType] /\ \A k \in Key : Current(k)

\* The counters are the sizes of what they count.
Counting ==
    /\ counts \in [Group -> Nat]
    /\ \A g \in Group : counts[g] = Cardinality(In(g))
    /\ \A k \in Key : state[k].active = Cardinality(Of(k))

FlowInv == FlowsPlaced /\ StatesCurrent /\ Counting

\* minimum, which takes two limits at a time, finds the smallest positive one of three.
LEMMA MinimumOfThree ==
  ASSUME NEW a \in Nat, NEW b \in Nat, NEW c \in Nat
  PROVE  /\ minimum(minimum(a, b), c) \in Nat
         /\ minimum(minimum(a, b), c) = SmallestPositive({a, b, c})
<1> DEFINE m == minimum(minimum(a, b), c)
           L == {a, b, c} \ {0}
<1>1. m \in Nat
  BY DEF minimum
<1>2. CASE {a, b, c} \subseteq {0}
  <2>1. a = 0 /\ b = 0 /\ c = 0
    BY <1>2
  <2> QED BY <1>2, <2>1 DEF minimum, SmallestPositive
<1>3. CASE ~({a, b, c} \subseteq {0})
  <2>1. m \in L /\ \A n \in L : m <= n
    BY <1>3 DEF minimum
  <2>2. \A n \in L : (\A j \in L : n <= j) => n = m
    BY <2>1
  <2>3. SmallestPositive({a, b, c}) = CHOOSE n \in L : \A j \in L : n <= j
    BY <1>3 DEF SmallestPositive
  <2>4. m = CHOOSE n \in L : \A j \in L : n <= j
    BY <2>1, <2>2
  <2> QED BY <1>1, <2>3, <2>4
<1> QED BY <1>2, <1>3, <1>1

\* What a document says of a user has its type.
LEMMA DocumentSays ==
  ASSUME NEW d \in Document, NEW k \in Key
  PROVE  /\ GroupOf(d, k) \in Group
         /\ rulesFor(d, k) \in SUBSET Rule
         /\ NodeLimit(d, k) \in Nat /\ SpeedLimit(d, k) \in Nat
         /\ \A auto \in Nat : RateFor(d, k, auto) \in Nat
<1>1. k[1] \in Tag /\ k[2] \in Email
  BY DEF Key
<1>2. d[k[1]] \in PolicyType \cup {None}
  BY <1>1 DEF Document
<1>3. UserOf(d, k) \in User \cup {None}
  BY <1>1, <1>2 DEF UserOf, PolicyType
<1>4. GroupOf(d, k) \in Group
  BY <1>1, <1>3 DEF GroupOf, group, Group, User
<1>5. rulesFor(d, k) \in SUBSET Rule
  BY <1>2, <1>3 DEF rulesFor, PolicyType, User
<1>6. NodeLimit(d, k) \in Nat
  BY <1>2 DEF NodeLimit, PolicyType
<1>7. SpeedLimit(d, k) \in Nat
  BY <1>3 DEF SpeedLimit, User
<1>8. \A auto \in Nat : RateFor(d, k, auto) \in Nat
  BY <1>6, <1>7, MinimumOfThree DEF RateFor
<1> QED BY <1>4, <1>5, <1>6, <1>7, <1>8

\* Sets of connections are finite.
LEMMA CountedFinite ==
  ASSUME NEW T \in SUBSET Flow
  PROVE  IsFiniteSet(T) /\ Cardinality(T) \in Nat
  BY LimitsAssumption, FS_Subset, FS_CardinalityType

\* A new document moves every connection to its group, recounts them and refreshes every rate.
LEMMA InstallKeepsFlows ==
  ASSUME FlowInv, NEW d \in Document, install(d)
  PROVE  FlowInv'
<1>1. doc' = d /\ flow' = Regrouped(d) /\ state' = Refreshed(d) /\ counts' = Recounted(d)
  BY DEF install
<1>2. /\ Counted' = Counted
      /\ \A f \in Counted : KeyOf(f)' = KeyOf(f) /\ flow'[f].group = GroupOf(d, KeyOf(f))
  <2>1. \A f \in Flow : flow[f] \in FlowType
    BY DEF FlowInv, FlowsPlaced
  <2>2. \A f \in Flow : flow'[f].at = flow[f].at /\ flow'[f].tag = flow[f].tag /\ flow'[f].email = flow[f].email
    BY <1>1, <2>1 DEF Regrouped, FlowType
  <2>3. \A f \in Counted : flow'[f].group = GroupOf(d, KeyOf(f))
    BY <1>1, <2>1 DEF Regrouped, FlowType, Counted
  <2> QED BY <2>2, <2>3 DEF Counted, KeyOf
<1>3. FlowsPlaced'
  <2>1. flow' \in [Flow -> FlowType]
    <3>1. ASSUME NEW f \in Flow PROVE Regrouped(d)[f] \in FlowType
      <4>1. flow[f] \in FlowType
        BY DEF FlowInv, FlowsPlaced
      <4>2. CASE f \in Counted
        <5>1. GroupOf(d, KeyOf(f)) \in Group
          BY <4>2, DocumentSays DEF FlowInv, FlowsPlaced
        <5>2. (UserOf(d, KeyOf(f)) # None) \in BOOLEAN
          OBVIOUS
        <5>3. Regrouped(d)[f] = [flow[f] EXCEPT !.group = GroupOf(d, KeyOf(f)), !.known = UserOf(d, KeyOf(f)) # None]
          BY <4>2 DEF Regrouped
        <5> HIDE DEF KeyOf
        <5> QED BY <4>1, <5>1, <5>3 DEF FlowType
      <4>3. CASE f \notin Counted
        BY <4>1, <4>3 DEF Regrouped
      <4> QED BY <4>2, <4>3
    <3>2. Regrouped(d) = [f \in Flow |-> Regrouped(d)[f]]
      BY DEF Regrouped
    <3> QED BY <1>1, <3>1, <3>2
  <2> QED BY <1>1, <1>2, <2>1 DEF FlowsPlaced, FlowInv
<1>4. ASSUME NEW k \in Key
      PROVE  state'[k] \in StateType /\ Current(k)' /\ state'[k].active = state[k].active
  <2> DEFINE same == state[k].rules = rulesFor(d, k)
             auto == IF same THEN state[k].auto ELSE 0
  <2>1. state[k] \in StateType /\ Current(k)
    BY DEF FlowInv, StatesCurrent
  <2>2. CASE ~state[k].kept
    <3>1. state'[k] = state[k]
      BY <1>1, <2>2 DEF Refreshed
    <3> QED BY <2>1, <2>2, <3>1 DEF Current
  <2>3. CASE state[k].kept
    <3>1. state'[k] = [state[k] EXCEPT !.rules = rulesFor(d, k), !.auto = auto, !.rate = RateFor(d, k, auto)]
      BY <1>1, <2>1, <2>3 DEF Refreshed, StateType
    <3>2. auto \in Nat /\ RateFor(d, k, auto) \in Nat /\ rulesFor(d, k) \in SUBSET Rule
      BY <2>1, DocumentSays DEF StateType
    <3>3. auto # 0 => auto \in rulesFor(d, k)
      BY <2>1, <2>3 DEF Current
    <3> HIDE DEF auto
    <3>4. /\ state'[k] \in StateType /\ state'[k].kept /\ state'[k].active = state[k].active
          /\ state'[k].rules = rulesFor(d, k) /\ state'[k].auto = auto /\ state'[k].rate = RateFor(d, k, auto)
      BY <2>1, <2>3, <3>1, <3>2 DEF StateType
    <3>5. rulesFor(d, k) = rulesFor(doc', k) /\ RateFor(d, k, auto) = RateFor(doc', k, auto)
      BY <1>1
    <3> QED BY <3>3, <3>4, <3>5 DEF Current
  <2> QED BY <2>2, <2>3
<1>5. StatesCurrent'
  <2>1. Refreshed(d) = [k \in Key |-> Refreshed(d)[k]]
    BY DEF Refreshed
  <2> QED BY <1>1, <1>4, <2>1 DEF StatesCurrent
<1>6. Counting'
  <2>1. ASSUME NEW g \in Group PROVE counts'[g] = Cardinality(In(g)') /\ counts'[g] \in Nat
    <3>1. In(g)' = {f \in Counted : Regrouped(d)[f].group = g}
      BY <1>1, <1>2 DEF In
    <3>2. {f \in Counted : Regrouped(d)[f].group = g} \subseteq Flow
      BY DEF Counted
    <3> QED BY <1>1, <3>1, <3>2, CountedFinite DEF Recounted
  <2>2. ASSUME NEW k \in Key PROVE state'[k].active = Cardinality(Of(k)')
    <3>1. Of(k)' = Of(k)
      BY <1>2 DEF Of
    <3> QED BY <1>4, <3>1 DEF FlowInv, Counting
  <2>3. counts' = [g \in Group |-> counts'[g]]
    BY <1>1 DEF Recounted
  <2> QED BY <2>1, <2>2, <2>3 DEF Counting
<1> QED BY <1>3, <1>5, <1>6 DEF FlowInv

\* A process that has just started counts nothing.
Fresh ==
    flow = [f \in Flow |-> NoFlow] /\ counts = [g \in Group |-> 0] /\ state = [k \in Key |-> NoState]

\* A fresh state satisfies the invariant.
LEMMA StartKeepsFlows == Fresh => FlowInv
<1> SUFFICES ASSUME Fresh PROVE FlowInv
  OBVIOUS
<1> USE DEF Fresh
<1>1. Counted = {}
  BY DEF Counted, NoFlow
<1>2. FlowsPlaced
  <2>1. NoFlow \in FlowType
    BY DEF NoFlow, FlowType
  <2> QED BY <1>1, <2>1 DEF FlowsPlaced
<1>3. StatesCurrent
  <2>1. NoState \in StateType /\ ~NoState.kept
    BY DEF NoState, StateType
  <2> QED BY <2>1 DEF StatesCurrent, Current
<1>4. Counting
  <2>1. \A g \in Group : In(g) = {}
    BY <1>1 DEF In
  <2>2. \A k \in Key : Of(k) = {}
    BY <1>1 DEF Of
  <2> QED BY <2>1, <2>2, FS_EmptySet DEF Counting, NoState
<1> QED BY <1>2, <1>3, <1>4 DEF FlowInv

\* An admitted connection is counted once, in its group and for its user.
LEMMA AcquireKeepsFlows ==
  ASSUME FlowInv, doc \in Document, NEW f \in Flow, NEW k \in Key, acquire(f, k)
  PROVE  FlowInv'
<1> DEFINE g == GroupOf(doc, k)
           s == IF state[k].kept THEN state[k]
                ELSE [NoState EXCEPT !.kept = TRUE, !.rules = rulesFor(doc, k), !.rate = RateFor(doc, k, 0)]
           new == [at |-> "open", tag |-> k[1], email |-> k[2], group |-> g, known |-> UserOf(doc, k) # None]
<1>1. /\ flow[f].at = "none" /\ flow' = [flow EXCEPT ![f] = new]
      /\ counts' = [counts EXCEPT ![g] = @ + 1]
      /\ state' = [state EXCEPT ![k] = [s EXCEPT !.active = @ + 1]] /\ doc' = doc
  BY DEF acquire
<1>2. /\ g \in Group /\ rulesFor(doc, k) \in SUBSET Rule /\ RateFor(doc, k, 0) \in Nat
      /\ k[1] \in Tag /\ k[2] \in Email /\ k = <<k[1], k[2]>>
  BY DocumentSays DEF Key
<1>3. flow \in [Flow -> FlowType] /\ state \in [Key -> StateType] /\ counts \in [Group -> Nat]
  BY DEF FlowInv, FlowsPlaced, StatesCurrent, Counting
<1>4. /\ s \in StateType /\ s.kept /\ s.active = state[k].active
      /\ s.rules = rulesFor(doc, k) /\ s.rate = RateFor(doc, k, s.auto) /\ (s.auto # 0 => s.auto \in s.rules)
  <2>1. CASE state[k].kept
    BY <1>3, <2>1 DEF FlowInv, StatesCurrent, Current
  <2>2. CASE ~state[k].kept
    <3>1. state[k] = NoState
      BY <2>2 DEF FlowInv, StatesCurrent, Current
    <3> QED BY <1>2, <2>2, <3>1 DEF NoState, StateType
  <2> QED BY <2>1, <2>2
<1> HIDE DEF s
<1>5. new \in FlowType
  BY <1>2 DEF FlowType
<1>6. /\ new.at = "open" /\ new.group = g /\ <<new.tag, new.email>> = k
  BY <1>2
<1> HIDE DEF new
<1>7. /\ f \notin Counted /\ Counted' = Counted \cup {f} /\ flow'[f] = new
      /\ \A h \in Flow : h # f => flow'[h] = flow[h]
  BY <1>1, <1>3, <1>6 DEF Counted
<1>8. FlowsPlaced'
  <2>1. flow' \in [Flow -> FlowType]
    BY <1>1, <1>3, <1>5
  <2>2. \A h \in Counted : KeyOf(h)' = KeyOf(h) /\ flow'[h].group = flow[h].group
    BY <1>7 DEF KeyOf, Counted
  <2>3. KeyOf(f)' = k /\ flow'[f].group = g
    BY <1>6, <1>7 DEF KeyOf
  <2>4. \A h \in Counted : KeyOf(h) \in Key /\ flow[h].group = GroupOf(doc, KeyOf(h))
    BY DEF FlowInv, FlowsPlaced
  <2> QED BY <1>1, <1>7, <2>1, <2>2, <2>3, <2>4 DEF FlowsPlaced
<1>9. StatesCurrent'
  <2>1. [s EXCEPT !.active = @ + 1] \in StateType
    BY <1>4 DEF StateType
  <2>2. state' \in [Key -> StateType]
    BY <1>1, <1>3, <2>1
  <2>3. \A j \in Key : j # k => state'[j] = state[j]
    BY <1>1, <1>3
  <2>4. \A j \in Key : j # k => Current(j)'
    BY <1>1, <2>3 DEF FlowInv, StatesCurrent, Current
  <2>5. Current(k)'
    BY <1>1, <1>3, <1>4 DEF Current, StateType
  <2> QED BY <2>2, <2>4, <2>5 DEF StatesCurrent
<1>10. Counting'
  <2>1. counts' \in [Group -> Nat]
    BY <1>1, <1>2, <1>3
  <2>2. ASSUME NEW h \in Group PROVE counts'[h] = Cardinality(In(h)')
    <3>1. In(h)' = IF h = g THEN In(h) \cup {f} ELSE In(h)
      BY <1>6, <1>7 DEF In, Counted
    <3>2. f \notin In(h) /\ In(h) \in SUBSET Flow
      BY <1>7 DEF In, Counted
    <3>3. Cardinality(In(h) \cup {f}) = Cardinality(In(h)) + 1
      BY <3>2, CountedFinite, FS_AddElement
    <3>4. counts[h] = Cardinality(In(h))
      BY DEF FlowInv, Counting
    <3> QED BY <1>1, <1>2, <1>3, <3>1, <3>3, <3>4
  <2>3. ASSUME NEW j \in Key PROVE state'[j].active = Cardinality(Of(j)')
    <3>1. Of(j)' = IF j = k THEN Of(j) \cup {f} ELSE Of(j)
      BY <1>6, <1>7 DEF Of, Counted, KeyOf
    <3>2. f \notin Of(j) /\ Of(j) \in SUBSET Flow
      BY <1>7 DEF Of, Counted
    <3>3. Cardinality(Of(j) \cup {f}) = Cardinality(Of(j)) + 1
      BY <3>2, CountedFinite, FS_AddElement
    <3>4. state[j].active = Cardinality(Of(j))
      BY DEF FlowInv, Counting
    <3>5. state'[j].active = IF j = k THEN state[j].active + 1 ELSE state[j].active
      BY <1>1, <1>3, <1>4 DEF StateType
    <3> QED BY <3>1, <3>3, <3>4, <3>5
  <2> QED BY <2>1, <2>2, <2>3 DEF Counting
<1> QED BY <1>8, <1>9, <1>10 DEF FlowInv

\* A released connection is taken from the group it is in by then.
LEMMA ReleaseKeepsFlows ==
  ASSUME FlowInv, doc \in Document, NEW f \in Flow, release(f)
  PROVE  FlowInv'
<1>0. PICK k \in Key, g \in Group : k = KeyOf(f) /\ g = flow[f].group
  <2>1. f \in Counted
    BY DEF Counted, release
  <2> QED BY <2>1, DocumentSays DEF FlowInv, FlowsPlaced
<1>1. /\ flow[f].at = "cancelled" /\ flow' = [flow EXCEPT ![f] = NoFlow]
      /\ counts' = [counts EXCEPT ![g] = @ - 1]
      /\ state' = [state EXCEPT ![k].active = @ - 1] /\ doc' = doc
  BY <1>0 DEF release, ReleasedGroup
<1>2. flow \in [Flow -> FlowType] /\ state \in [Key -> StateType] /\ counts \in [Group -> Nat]
  BY DEF FlowInv, FlowsPlaced, StatesCurrent, Counting
<1>3. f \in Counted
  BY <1>1 DEF Counted
<1>4. NoFlow \in FlowType /\ NoFlow.at = "none"
  BY DEF NoFlow, FlowType
<1>5. Counted' = Counted \ {f} /\ \A h \in Flow : h # f => flow'[h] = flow[h]
  BY <1>1, <1>2, <1>4 DEF Counted
<1>6. FlowsPlaced'
  <2>1. flow' \in [Flow -> FlowType]
    BY <1>1, <1>2, <1>4
  <2>2. \A h \in Counted \ {f} : KeyOf(h)' = KeyOf(h) /\ flow'[h] = flow[h]
    BY <1>5 DEF KeyOf, Counted
  <2> QED BY <1>1, <1>5, <2>1, <2>2 DEF FlowInv, FlowsPlaced
<1>7. In(g) \in SUBSET Flow /\ Of(k) \in SUBSET Flow /\ f \in In(g) /\ f \in Of(k)
  BY <1>0, <1>3 DEF In, Of, Counted
<1>8. /\ Cardinality(In(g) \ {f}) = Cardinality(In(g)) - 1 /\ Cardinality(In(g) \ {f}) \in Nat
      /\ Cardinality(Of(k) \ {f}) = Cardinality(Of(k)) - 1 /\ Cardinality(Of(k) \ {f}) \in Nat
  <2>1. In(g) \ {f} \in SUBSET Flow /\ Of(k) \ {f} \in SUBSET Flow
    BY <1>7
  <2> QED BY <1>7, <2>1, CountedFinite, FS_RemoveElement
<1>9. /\ state[k].active = Cardinality(Of(k)) /\ counts[g] = Cardinality(In(g))
  BY <1>3 DEF FlowInv, Counting
<1>10. state[k].kept
  <2>1. state[k].active # 0
    BY <1>7, <1>9, CountedFinite, FS_EmptySet
  <2> QED BY <1>3, <2>1 DEF FlowInv, StatesCurrent, Current, NoState
<1>11. /\ \A j \in Key : j # k => state'[j] = state[j]
       /\ state'[k] = [state[k] EXCEPT !.active = @ - 1]
  BY <1>1, <1>2, <1>3
<1>12. StatesCurrent'
  <2>1. state'[k] \in StateType /\ state'[k].kept = state[k].kept /\ state'[k].auto = state[k].auto
        /\ state'[k].rules = state[k].rules /\ state'[k].rate = state[k].rate
    BY <1>2, <1>3, <1>8, <1>9, <1>11 DEF StateType
  <2>2. state' \in [Key -> StateType]
    BY <1>1, <1>2, <1>3, <1>11, <2>1
  <2>3. \A j \in Key : j # k => Current(j)'
    BY <1>1, <1>11 DEF FlowInv, StatesCurrent, Current
  <2>4. Current(k)'
    BY <1>1, <1>3, <1>10, <2>1 DEF FlowInv, StatesCurrent, Current
  <2> QED BY <2>2, <2>3, <2>4 DEF StatesCurrent
<1>13. Counting'
  <2>1. counts' \in [Group -> Nat]
    BY <1>1, <1>2, <1>3, <1>8, <1>9
  <2>2. ASSUME NEW h \in Group PROVE counts'[h] = Cardinality(In(h)')
    <3>1. In(h)' = IF h = g THEN In(h) \ {f} ELSE In(h)
      BY <1>0, <1>5 DEF In, Counted
    <3>2. counts[h] = Cardinality(In(h))
      BY DEF FlowInv, Counting
    <3> QED BY <1>1, <1>2, <1>3, <1>8, <1>9, <3>1, <3>2
  <2>3. ASSUME NEW j \in Key PROVE state'[j].active = Cardinality(Of(j)')
    <3>1. Of(j)' = IF j = k THEN Of(j) \ {f} ELSE Of(j)
      BY <1>0, <1>5 DEF Of, Counted, KeyOf
    <3>2. state[j].active = Cardinality(Of(j))
      BY DEF FlowInv, Counting
    <3>3. state'[j].active = IF j = k THEN state[j].active - 1 ELSE state[j].active
      BY <1>2, <1>3, <1>11 DEF StateType
    <3> QED BY <1>8, <3>1, <3>2, <3>3
  <2> QED BY <2>1, <2>2, <2>3 DEF Counting
<1> QED BY <1>6, <1>12, <1>13 DEF FlowInv

\* One user's automatic limit or state changes; no connection does.
LEMMA EvaluateKeepsFlows ==
  ASSUME FlowInv, doc \in Document, NEW k \in Key, NEW s \in StateType,
         UNCHANGED <<doc, flow, counts>>, state' = [state EXCEPT ![k] = s],
         s.active = state[k].active,
         \/ s = NoState
         \/ /\ s.kept /\ s.rules = rulesFor(doc, k) /\ s.rate = RateFor(doc, k, s.auto)
            /\ s.auto # 0 => s.auto \in s.rules
  PROVE  FlowInv'
<1>1. state \in [Key -> StateType]
  BY DEF FlowInv, StatesCurrent
<1>2. state'[k] = s /\ \A j \in Key : j # k => state'[j] = state[j]
  BY <1>1
<1>3. Counted' = Counted /\ \A f \in Flow : KeyOf(f)' = KeyOf(f)
  BY DEF Counted, KeyOf
<1>4. FlowsPlaced'
  BY <1>3 DEF FlowInv, FlowsPlaced, Counted
<1>5. StatesCurrent'
  <2>1. Current(k)'
    <3>1. CASE s = NoState
      <4>1. ~NoState.kept
        BY DEF NoState
      <4> QED BY <1>2, <3>1, <4>1 DEF Current
    <3>2. CASE s # NoState
      BY <1>2, <3>2 DEF Current
    <3> QED BY <3>1, <3>2
  <2>2. \A j \in Key : j # k => Current(j)'
    BY <1>2 DEF FlowInv, StatesCurrent, Current
  <2> QED BY <1>1, <2>1, <2>2 DEF StatesCurrent
<1>6. Counting'
  <2>1. \A j \in Key : Of(j)' = Of(j)
    BY <1>3 DEF Of, Counted
  <2>2. \A g \in Group : In(g)' = In(g)
    BY <1>3 DEF In, Counted
  <2> QED BY <1>2, <2>1, <2>2 DEF FlowInv, Counting
<1> QED BY <1>4, <1>5, <1>6 DEF FlowInv

\* evaluate sets an automatic limit of a user that is kept, from its rules or to none.
LEMMA LimitsKeepFlows ==
  ASSUME FlowInv, doc \in Document, NEW k \in Key, NEW auto \in Nat,
         auto # 0 => auto \in state[k].rules, Limits(k, auto)
  PROVE  FlowInv'
<1> DEFINE s == [state[k] EXCEPT !.auto = auto, !.rate = RateFor(doc, k, auto)]
<1>1. state \in [Key -> StateType] /\ state[k].kept /\ state[k].rules = rulesFor(doc, k)
  BY DEF FlowInv, StatesCurrent, Current, Limits
<1>2. RateFor(doc, k, auto) \in Nat
  BY DocumentSays
<1>3. /\ s \in StateType /\ s.active = state[k].active /\ s.kept /\ s.rules = state[k].rules
      /\ s.auto = auto /\ s.rate = RateFor(doc, k, auto)
  BY <1>1, <1>2 DEF StateType
<1>4. state' = [state EXCEPT ![k] = s] /\ UNCHANGED <<doc, flow, counts>>
  BY <1>1 DEF Limits, StateType
<1> HIDE DEF s
<1> QED BY <1>1, <1>3, <1>4, EvaluateKeepsFlows

\* The connections' invariant is inductive, as long as documents are documents.
LEMMA FlowStep == DocumentInv /\ FlowInv /\ [Next]_vars => FlowInv'
<1> SUFFICES ASSUME DocumentInv, FlowInv, [Next]_vars PROVE FlowInv'
  OBVIOUS
<1>0. doc \in Document
  BY DEF DocumentInv, DocumentTyped
<1>a. UNCHANGED <<doc, flow, counts, state>> => FlowInv'
  BY DEF FlowInv, FlowsPlaced, StatesCurrent, Current, Counting, Counted, KeyOf, In, Of
<1>b. ASSUME NEW d \in Document, Applied(d) \/ AppliedLate(d) \/ StartAfterRename(d) PROVE FlowInv'
  <2>1. CASE Applied(d)
    BY <2>1, InstallKeepsFlows DEF Applied
  <2>2. CASE AppliedLate(d)
    BY <1>a, <2>2 DEF AppliedLate, limiter
  <2>3. CASE StartAfterRename(d)
    <3>1. Fresh'
      BY <2>3 DEF StartAfterRename, Starts, Fresh
    <3> QED BY <3>1, StartKeepsFlows, PTL
  <2> QED BY <1>b, <2>1, <2>2, <2>3
<1>1. ASSUME NEW t \in Tag, NEW p \in Policy \cup {None}, serve(t, p) PROVE FlowInv'
  <2>1. [doc EXCEPT ![t] = p] \in Document
    BY <1>0, ReplacedPolicy, LimitsAssumption
  <2> QED BY <1>b, <1>1, <2>1 DEF serve
<1>2. ASSUME NEW d, OwnerEdits(d) PROVE FlowInv'
  BY <1>a, <1>2 DEF OwnerEdits, limiter
<1>3. ASSUME NEW c \in Client, provision(c) PROVE FlowInv'
  BY <1>a, <1>3 DEF provision, limiter
<1>4. ASSUME NEW c \in Client, ProvisionApplies(c) \/ ProvisionFails(c) PROVE FlowInv'
  <2>1. WithUser(doc, Binding[c]) \in Document
    BY <1>0, UserWritten
  <2>2. CASE UNCHANGED limiter
    BY <1>a, <2>2 DEF limiter
  <2>3. CASE ~UNCHANGED limiter
    <3>1. LET d == WithUser(doc, Binding[c]) IN Applied(d) \/ AppliedLate(d) \/ StartAfterRename(d)
      BY <1>4, <2>3 DEF ProvisionApplies, ProvisionFails, SameRevision
    <3> QED BY <1>b, <2>1, <3>1
  <2> QED BY <2>2, <2>3
<1>5. ASSUME Start PROVE FlowInv'
  <2>1. Fresh'
    BY <1>5 DEF Start, Starts, Fresh
  <2> QED BY <2>1, StartKeepsFlows, PTL
<1>6. ASSUME NEW f \in Flow, NEW k \in Key, acquire(f, k) PROVE FlowInv'
  BY <1>0, <1>6, AcquireKeepsFlows
<1>7. ASSUME NEW f \in Flow, cancel(f) PROVE FlowInv'
  <2>1. /\ flow \in [Flow -> FlowType] /\ flow' = [flow EXCEPT ![f].at = "cancelled"] /\ flow[f].at = "open"
        /\ UNCHANGED <<doc, counts, state>>
    BY <1>7 DEF cancel, FlowInv, FlowsPlaced
  <2>2. \A h \in Flow : /\ flow'[h] \in FlowType /\ flow'[h].tag = flow[h].tag /\ flow'[h].email = flow[h].email
                        /\ flow'[h].group = flow[h].group /\ (flow'[h].at = "none" <=> flow[h].at = "none")
    BY <2>1 DEF FlowType
  <2>3. Counted' = Counted /\ \A h \in Flow : KeyOf(h)' = KeyOf(h)
    BY <2>2 DEF Counted, KeyOf
  <2>4. FlowsPlaced'
    BY <2>1, <2>2, <2>3 DEF FlowInv, FlowsPlaced, Counted
  <2>5. StatesCurrent'
    BY <2>1 DEF FlowInv, StatesCurrent, Current
  <2>6. (\A g \in Group : In(g)' = In(g)) /\ (\A k \in Key : Of(k)' = Of(k))
    BY <2>2, <2>3 DEF In, Of, Counted
  <2> QED BY <2>1, <2>4, <2>5, <2>6 DEF FlowInv, Counting
<1>8. ASSUME NEW f \in Flow, release(f) PROVE FlowInv'
  BY <1>0, <1>8, ReleaseKeepsFlows
<1>9. ASSUME NEW k \in Key, LimitEnds(k) PROVE FlowInv'
  BY <1>0, <1>9, LimitsKeepFlows DEF LimitEnds
<1>10. ASSUME NEW k \in Key, NEW r \in Rule, RuleTriggers(k, r) PROVE FlowInv'
  BY <1>0, <1>10, LimitsKeepFlows, LimitsAssumption DEF RuleTriggers
<1>11. ASSUME NEW k \in Key, Forgets(k) PROVE FlowInv'
  <2>1. NoState \in StateType /\ NoState.active = 0
    BY DEF NoState, StateType
  <2> QED BY <1>0, <1>11, <2>1, EvaluateKeepsFlows DEF Forgets
<1>12. CASE UNCHANGED vars
  BY <1>a, <1>12 DEF vars, limiter
<1> QED BY <1>1, <1>2, <1>3, <1>4, <1>5, <1>6, <1>7, <1>8, <1>9, <1>10, <1>11, <1>12 DEF Next

\* What the document in force says is what every open connection and its user get: counts, rates and
\* automatic limits follow every change of policy, connection and rule (install, acquire, release, evaluate).
THEOREM LimitsSafe == Spec => []LimitsInForce
<1>1. Init => FlowInv
  BY StartKeepsFlows DEF Init, Fresh
<1>2. ASSUME DocumentInv, FlowInv PROVE LimitsInForce
  <2>1. doc \in Document
    BY <1>2 DEF DocumentInv, DocumentTyped
  <2>2. CountsMatchFlows
    <3>1. \A g \in Group : In(g) = {f \in Counted : GroupOf(doc, KeyOf(f)) = g}
      BY <1>2 DEF FlowInv, FlowsPlaced, In
    <3> QED BY <1>2, <3>1 DEF FlowInv, Counting, CountsMatchFlows, Live
  <2>3. ASSUME NEW k \in Key
        PROVE  /\ state[k].active = Cardinality({f \in Counted : KeyOf(f) = k})
               /\ state[k].active > 0 => state[k].kept
               /\ state[k].kept => state[k].rate = SmallestPositive({NodeLimit(doc, k), SpeedLimit(doc, k), state[k].auto})
    <3>1. state[k] \in StateType /\ Current(k) /\ state[k].active = Cardinality(Of(k))
      BY <1>2 DEF FlowInv, StatesCurrent, Counting
    <3>2. NodeLimit(doc, k) \in Nat /\ SpeedLimit(doc, k) \in Nat /\ state[k].auto \in Nat
      BY <2>1, <3>1, DocumentSays DEF StateType
    <3>3. RateFor(doc, k, state[k].auto) = SmallestPositive({NodeLimit(doc, k), SpeedLimit(doc, k), state[k].auto})
      BY <3>2, MinimumOfThree DEF RateFor
    <3> QED BY <3>1, <3>3 DEF Current, NoState, Of
  <2>4. AutomaticFromRules
    BY <1>2 DEF FlowInv, StatesCurrent, Current, NoState, AutomaticFromRules
  <2> QED BY <2>2, <2>3, <2>4 DEF LimitsInForce, RateInForce
<1>3. DocumentInv /\ FlowInv /\ [Next]_vars => (DocumentInv /\ FlowInv)'
  BY DocumentStep, FlowStep
<1> QED BY <1>1, <1>2, <1>3, DocumentInit, PTL DEF Spec

\* The closing connections and the bounds have their types.
RestTyped ==
    closing \subseteq Flow /\ updates \in 0 .. MaxUpdates /\ faults \in 0 .. MaxFaults /\ edited \in BOOLEAN

\* Every step keeps the rest of the types.
LEMMA RestStep == RestTyped /\ [Next]_vars => RestTyped'
<1> SUFFICES ASSUME RestTyped, [Next]_vars PROVE RestTyped'
  OBVIOUS
<1> USE LimitsAssumption DEF RestTyped
<1>1. ASSUME NEW d, Applied(d) \/ AppliedLate(d) \/ StartAfterRename(d) PROVE RestTyped'
  BY <1>1 DEF Applied, AppliedLate, StartAfterRename, Replaces, install, Starts, limiter, Dropped, Counted
<1>2. ASSUME NEW t \in Tag, NEW p \in Policy \cup {None}, serve(t, p) PROVE RestTyped'
  BY <1>1, <1>2 DEF serve
<1>3. ASSUME NEW d, OwnerEdits(d) PROVE RestTyped'
  BY <1>3 DEF OwnerEdits, limiter
<1>4. ASSUME NEW c \in Client, provision(c) \/ ProvisionApplies(c) \/ ProvisionFails(c) PROVE RestTyped'
  <2>1. CASE UNCHANGED <<closing, updates, faults, edited>>
    BY <2>1
  <2>2. CASE ~UNCHANGED <<closing, updates, faults, edited>>
    <3>1. \E d : Applied(d) \/ AppliedLate(d) \/ StartAfterRename(d)
      BY <1>4, <2>2, Zenon DEF provision, ProvisionApplies, ProvisionFails, limiter
    <3> QED BY <1>1, <3>1
  <2> QED BY <2>1, <2>2
<1>5. ASSUME Start PROVE RestTyped'
  BY <1>5 DEF Start, Starts
<1>6. ASSUME NEW f \in Flow, cancel(f) \/ release(f) \/ \E k \in Key : acquire(f, k) PROVE RestTyped'
  BY <1>6 DEF cancel, release, acquire
<1>7. ASSUME NEW k \in Key, LimitEnds(k) \/ Forgets(k) \/ \E r \in Rule : RuleTriggers(k, r) PROVE RestTyped'
  BY <1>7 DEF LimitEnds, Forgets, RuleTriggers, Limits
<1>8. CASE UNCHANGED vars
  BY <1>8 DEF vars, limiter
<1> QED BY <1>2, <1>3, <1>4, <1>5, <1>6, <1>7, <1>8 DEF Next

\* Every variable has its type, whatever policies are written and whatever fails.
THEOREM LimitsTyped == Spec => []TypeOK
<1>1. Init => FlowInv /\ RestTyped
  <2>1. Init => Fresh
    BY DEF Init, Fresh
  <2>2. Init => RestTyped
    <3> SUFFICES ASSUME Init PROVE RestTyped
      OBVIOUS
    <3>1. closing = {} /\ updates = 0 /\ faults = 0 /\ edited \in BOOLEAN
      BY Zenon DEF Init
    <3>2. 0 \in 0 .. MaxUpdates /\ 0 \in 0 .. MaxFaults
      BY LimitsAssumption
    <3> QED BY <3>1, <3>2 DEF RestTyped
  <2> QED BY <2>1, <2>2, StartKeepsFlows
<1>2. DocumentInv /\ FlowInv /\ RestTyped => TypeOK
  BY DEF DocumentInv, DocumentTyped, FlowInv, FlowsPlaced, StatesCurrent, Counting, RestTyped, TypeOK, FlowType, StateType
<1>3. DocumentInv /\ FlowInv /\ RestTyped /\ [Next]_vars => (DocumentInv /\ FlowInv /\ RestTyped)'
  BY DocumentStep, FlowStep, RestStep
<1> QED BY <1>1, <1>2, <1>3, DocumentInit, PTL DEF Spec

(***************************************************************************)
(* Sums over sets of streams.                                              *)
(***************************************************************************)
\* A nonempty set of naturals has a least element.
LEMMA LeastNat ==
  ASSUME NEW S, S \subseteq Nat, S # {}
  PROVE  \E x \in S : \A y \in S : x <= y
<1> DEFINE Less == {p \in Nat \X Nat : p[1] < p[2]}
<1>1. Less = OpToRel(<, Nat)
  BY Zenon DEF OpToRel
<1>2. IsWellFoundedOn(Less, Nat)
  BY <1>1, NatLessThanWellFounded, Zenon
<1> HIDE DEF Less
<1>3. PICK x \in S : \A y \in S : <<y, x>> \notin Less
  BY <1>2, WFMin, Zenon
<1>4. ASSUME NEW y \in S PROVE x <= y
  <2>1. ~(y < x)
    BY <1>3 DEF Less
  <2> QED BY <2>1
<1> QED BY <1>4

\* What a set of streams has reserved is a sum over the set, taken one stream at a time.
One(T) == CHOOSE s \in T : TRUE
Total(F, S) ==
    LET total[T \in SUBSET S] == IF T = {} THEN 0 ELSE F[One(T)].n + total[T \ {One(T)}]
    IN  total[S]

\* A function that is such a sum on every subset, and what can be summed.
Sums(g, F, S) ==
    \A T \in SUBSET S : g[T] = IF T = {} THEN 0 ELSE F[One(T)].n + g[T \ {One(T)}]

Counts(F, S) == IsFiniteSet(S) /\ \A s \in S : F[s].n \in Nat

\* A finite set without one of its elements, and the element the sum takes first.
LEMMA Smaller ==
  ASSUME NEW T, IsFiniteSet(T), T # {}, NEW s \in T
  PROVE  /\ One(T) \in T /\ IsFiniteSet(T \ {s}) /\ T \ {s} \subseteq T
         /\ Cardinality(T) \in Nat /\ Cardinality(T \ {s}) = Cardinality(T) - 1
         /\ Cardinality(T) > 0
<1>1. One(T) \in T
  BY DEF One
<1>2. Cardinality(T) \in Nat /\ Cardinality(T) # 0
  BY FS_CardinalityType, FS_EmptySet
<1>3. IsFiniteSet(T \ {s}) /\ Cardinality(T \ {s}) = Cardinality(T) - 1
  BY FS_RemoveElement
<1> QED BY <1>1, <1>2, <1>3

\* Two sums agree where what they add agrees.
LEMMA SumsAgree ==
  ASSUME NEW F, NEW G, NEW S, NEW R, NEW g, NEW h, IsFiniteSet(R), R \subseteq S,
         Sums(g, F, S), Sums(h, G, R), \A s \in R : F[s].n = G[s].n
  PROVE  \A T \in SUBSET R : g[T] = h[T]
<1> DEFINE Wrong == {T \in SUBSET R : g[T] # h[T]}
           Sizes == {Cardinality(T) : T \in Wrong}
<1>1. SUFFICES ASSUME Wrong # {} PROVE FALSE
  OBVIOUS
<1>2. \A T \in SUBSET R : IsFiniteSet(T) /\ Cardinality(T) \in Nat
  BY FS_Subset, FS_CardinalityType
<1>3. PICK T \in Wrong : \A U \in Wrong : Cardinality(T) <= Cardinality(U)
  <2>1. Sizes \subseteq Nat /\ Sizes # {}
    BY <1>1, <1>2
  <2>2. PICK k \in Sizes : \A n \in Sizes : k <= n
    BY <2>1, LeastNat
  <2> QED BY <2>2
<1>4. T \in SUBSET R /\ T \in SUBSET S /\ g[T] # h[T]
  BY <1>3
<1>5. T # {}
  BY <1>4 DEF Sums
<1> DEFINE U == T \ {One(T)}
<1>6. One(T) \in T /\ U \in SUBSET R /\ U \in SUBSET S /\ Cardinality(U) < Cardinality(T)
  <2>1. One(T) \in T
    BY <1>5 DEF One
  <2> QED BY <1>2, <1>4, <1>5, <2>1, Smaller
<1>7. g[U] = h[U]
  <2>1. U \notin Wrong
    BY <1>2, <1>3, <1>6
  <2> QED BY <1>6, <2>1
<1>8. g[T] = F[One(T)].n + g[U] /\ h[T] = G[One(T)].n + h[U]
  BY <1>4, <1>5 DEF Sums
<1> QED BY <1>4, <1>6, <1>7, <1>8

\* The sum exists.
LEMMA SumExists ==
  ASSUME NEW F, NEW S, Counts(F, S)
  PROVE  \E g \in [SUBSET S -> Nat] : Sums(g, F, S)
<1> DEFINE D(k) == {T \in SUBSET S : Cardinality(T) <= k}
           V(g, T) == IF T = {} THEN 0 ELSE F[One(T)].n + g[T \ {One(T)}]
           Good == {k \in Nat : \E g \in [D(k) -> Nat] : \A T \in D(k) : g[T] = V(g, T)}
<1>1. \A T \in SUBSET S : /\ IsFiniteSet(T) /\ Cardinality(T) \in Nat
                          /\ (Cardinality(T) = 0 <=> T = {})
                          /\ Cardinality(T) <= Cardinality(S)
  BY FS_Subset, FS_CardinalityType, FS_EmptySet DEF Counts
<1>2. \A T \in SUBSET S : T # {} =>
         /\ One(T) \in S /\ F[One(T)].n \in Nat /\ T \ {One(T)} \in SUBSET S
         /\ Cardinality(T \ {One(T)}) = Cardinality(T) - 1
  <2>1. SUFFICES ASSUME NEW T \in SUBSET S, T # {}
                 PROVE  /\ One(T) \in S /\ F[One(T)].n \in Nat /\ T \ {One(T)} \in SUBSET S
                        /\ Cardinality(T \ {One(T)}) = Cardinality(T) - 1
    OBVIOUS
  <2>2. One(T) \in T
    BY <2>1 DEF One
  <2>3. Cardinality(T \ {One(T)}) = Cardinality(T) - 1
    BY <1>1, <2>1, <2>2, Smaller
  <2> QED BY <2>2, <2>3 DEF Counts
<1>3. 0 \in Good
  <2> DEFINE g == [T \in D(0) |-> 0]
  <2>1. \A T \in D(0) : T = {}
    BY <1>1
  <2>2. g \in [D(0) -> Nat] /\ \A T \in D(0) : g[T] = V(g, T)
    BY <2>1
  <2> HIDE DEF g, D, V
  <2> QED BY <2>2
<1>4. ASSUME NEW k \in Nat, k > 0, k - 1 \in Good PROVE k \in Good
  <2>1. PICK g \in [D(k - 1) -> Nat] : \A T \in D(k - 1) : g[T] = V(g, T)
    BY <1>4
  <2> DEFINE h == [T \in D(k) |-> IF T \in D(k - 1) THEN g[T] ELSE V(g, T)]
  <2>2. \A T \in D(k) : T # {} => T \ {One(T)} \in D(k - 1) /\ T \ {One(T)} \in D(k)
    BY <1>1, <1>2, <1>4
  <2>3. \A T \in D(k) : V(g, T) \in Nat
    BY <1>2, <2>1, <2>2
  <2>4. h \in [D(k) -> Nat]
    BY <2>1, <2>3
  <2>5. \A T \in D(k) : h[T] = V(h, T)
    <3>1. \A T \in D(k) : h[T] = V(g, T)
      BY <2>1
    <3>2. \A T \in D(k) : T # {} => h[T \ {One(T)}] = g[T \ {One(T)}]
      BY <2>2
    <3> QED BY <3>1, <3>2
  <2> HIDE DEF h, D, V
  <2> QED BY <1>4, <2>4, <2>5
<1>5. Good = Nat
  <2> DEFINE Bad == Nat \ Good
  <2>1. SUFFICES ASSUME Bad # {} PROVE FALSE
    OBVIOUS
  <2> HIDE DEF Good
  <2>2. PICK k \in Bad : \A n \in Bad : k <= n
    BY <2>1, LeastNat
  <2>3. k \in Nat /\ k > 0 /\ k - 1 \in Nat /\ k - 1 \notin Bad
    BY <1>3, <2>2
  <2> QED BY <1>4, <2>2, <2>3
<1>6. D(Cardinality(S)) = SUBSET S /\ Cardinality(S) \in Nat
  BY <1>1 DEF Counts
<1>7. PICK g \in [D(Cardinality(S)) -> Nat] : \A T \in D(Cardinality(S)) : g[T] = V(g, T)
  BY <1>5, <1>6
<1> QED BY <1>6, <1>7 DEF Sums

\* And the total is one.
LEMMA TotalSums ==
  ASSUME NEW F, NEW S, Counts(F, S)
  PROVE  \E g \in [SUBSET S -> Nat] : Sums(g, F, S) /\ Total(F, S) = g[S]
<1> DEFINE E(g) == [T \in SUBSET S |-> IF T = {} THEN 0 ELSE F[One(T)].n + g[T \ {One(T)}]]
           total == CHOOSE g : g = E(g)
<1>1. PICK g \in [SUBSET S -> Nat] : Sums(g, F, S)
  BY SumExists
<1>2. g = E(g)
  BY <1>1 DEF Sums
<1>3. total = E(total)
  BY <1>2
<1>4. Total(F, S) = total[S]
  BY DEF Total
<1> HIDE DEF total
<1>5. Sums(total, F, S)
  BY <1>3 DEF Sums
<1>6. \A T \in SUBSET S : total[T] = g[T]
  BY <1>1, <1>5, SumsAgree DEF Counts
<1> QED BY <1>1, <1>4, <1>6

\* Nothing is reserved by nobody, and each stream adds its part.
LEMMA TotalOne ==
  ASSUME NEW F, NEW S, Counts(F, S)
  PROVE  /\ Total(F, S) \in Nat
         /\ Total(F, S) = IF S = {} THEN 0 ELSE F[One(S)].n + Total(F, S \ {One(S)})
<1>1. PICK g \in [SUBSET S -> Nat] : Sums(g, F, S) /\ Total(F, S) = g[S]
  BY TotalSums
<1> DEFINE R == S \ {One(S)}
<1>2. Counts(F, R)
  BY FS_Subset DEF Counts
<1>3. PICK h \in [SUBSET R -> Nat] : Sums(h, F, R) /\ Total(F, R) = h[R]
  BY <1>2, TotalSums
<1>4. g[R] = h[R]
  BY <1>1, <1>2, <1>3, SumsAgree DEF Counts
<1> QED BY <1>1, <1>3, <1>4 DEF Sums

\* Any of them may be taken first.
LEMMA TotalTakes ==
  ASSUME NEW F, NEW S, Counts(F, S), NEW s \in S
  PROVE  Total(F, S) = F[s].n + Total(F, S \ {s})
<1> DEFINE Wrong == {T \in SUBSET S : \E x \in T : Total(F, T) # F[x].n + Total(F, T \ {x})}
           Sizes == {Cardinality(T) : T \in Wrong}
<1>1. SUFFICES ASSUME Wrong # {} PROVE FALSE
  OBVIOUS
<1>2. \A T \in SUBSET S : Counts(F, T) /\ IsFiniteSet(T) /\ Cardinality(T) \in Nat
  BY FS_Subset, FS_CardinalityType DEF Counts
<1>3. PICK T \in Wrong : \A U \in Wrong : Cardinality(T) <= Cardinality(U)
  <2>1. Sizes \subseteq Nat /\ Sizes # {}
    BY <1>1, <1>2
  <2>2. PICK k \in Sizes : \A n \in Sizes : k <= n
    BY <2>1, LeastNat
  <2> QED BY <2>2
<1>4. PICK x \in T : Total(F, T) # F[x].n + Total(F, T \ {x})
  BY <1>3
<1> DEFINE p == One(T)
<1>5. T \in SUBSET S /\ p \in T /\ Total(F, T) = F[p].n + Total(F, T \ {p})
  BY <1>2, <1>3, <1>4, TotalOne DEF One
<1>6. p # x
  BY <1>4, <1>5
<1> HIDE DEF p
<1>7. ASSUME NEW y \in T PROVE T \ {y} \in SUBSET S /\ T \ {y} \notin Wrong
  <2>1. /\ T \ {y} \in SUBSET S /\ Cardinality(T \ {y}) = Cardinality(T) - 1
        /\ Cardinality(T) \in Nat
    BY <1>2, <1>5, Smaller
  <2> QED BY <1>3, <2>1
<1>8. /\ Total(F, T \ {p}) = F[x].n + Total(F, (T \ {p}) \ {x})
      /\ Total(F, T \ {x}) = F[p].n + Total(F, (T \ {x}) \ {p})
  BY <1>5, <1>6, <1>7
<1>9. (T \ {p}) \ {x} = (T \ {x}) \ {p}
  OBVIOUS
<1>10. /\ F[p].n \in Nat /\ F[x].n \in Nat /\ Total(F, (T \ {x}) \ {p}) \in Nat
  BY <1>2, <1>5, TotalOne DEF Counts
<1> DEFINE rest == Total(F, (T \ {x}) \ {p})
<1>11. Total(F, T) = F[p].n + (F[x].n + rest)
  BY <1>5, <1>8, <1>9
<1>12. Total(F, T \ {x}) = F[p].n + rest /\ rest \in Nat
  BY <1>8, <1>10
<1> HIDE DEF rest
<1> QED BY <1>4, <1>10, <1>11, <1>12

\* Fewer streams reserve no more.
LEMMA TotalGrows ==
  ASSUME NEW F, NEW S, Counts(F, S), NEW R \in SUBSET S
  PROVE  Total(F, R) <= Total(F, S) /\ Counts(F, R)
<1> DEFINE Wrong == {T \in SUBSET S : R \subseteq T /\ ~(Total(F, R) <= Total(F, T))}
           Sizes == {Cardinality(T) : T \in Wrong}
<1>1. \A T \in SUBSET S : /\ Counts(F, T) /\ IsFiniteSet(T) /\ Cardinality(T) \in Nat
                          /\ Total(F, T) \in Nat
  BY FS_Subset, FS_CardinalityType, TotalOne DEF Counts
<1>2. SUFFICES ASSUME Wrong # {} PROVE FALSE
  BY <1>1
<1>3. PICK T \in Wrong : \A U \in Wrong : Cardinality(T) <= Cardinality(U)
  <2>1. Sizes \subseteq Nat /\ Sizes # {}
    BY <1>1, <1>2
  <2>2. PICK k \in Sizes : \A n \in Sizes : k <= n
    BY <2>1, LeastNat
  <2> QED BY <2>2
<1>4. T # R
  BY <1>1, <1>3
<1>5. PICK x \in T : x \notin R
  BY <1>3, <1>4
<1>6. R \subseteq T \ {x} /\ T \ {x} \in SUBSET S /\ Cardinality(T \ {x}) < Cardinality(T)
  BY <1>1, <1>3, <1>5, Smaller
<1>7. Total(F, R) <= Total(F, T \ {x})
  BY <1>1, <1>3, <1>6
<1>8. Total(F, T) = F[x].n + Total(F, T \ {x}) /\ F[x].n \in Nat
  BY <1>1, <1>3, <1>5, TotalTakes DEF Counts
<1> QED BY <1>1, <1>3, <1>6, <1>7, <1>8

\* Only what the streams of the set have reserved counts.
LEMMA TotalSame ==
  ASSUME NEW F, NEW G, NEW S, Counts(F, S), \A s \in S : F[s].n = G[s].n
  PROVE  Counts(G, S) /\ Total(F, S) = Total(G, S)
<1>1. Counts(G, S)
  BY DEF Counts
<1>2. PICK g \in [SUBSET S -> Nat] : Sums(g, F, S) /\ Total(F, S) = g[S]
  BY TotalSums
<1>3. PICK h \in [SUBSET S -> Nat] : Sums(h, G, S) /\ Total(G, S) = h[S]
  BY <1>1, TotalSums
<1>4. g[S] = h[S]
  BY <1>2, <1>3, SumsAgree DEF Counts
<1> QED BY <1>1, <1>2, <1>3, <1>4

(***************************************************************************)
(* The bucket.                                                             *)
(***************************************************************************)
\* A call of wait, and the types of the bucket and its limiter.
Call ==
    [pc : {"idle", "reserve", "wait"}, size : Nat, n : Nat, act : Int, limit : Rate, changed : Nat]

BucketTypes ==
    /\ now \in Nat /\ last \in Nat /\ last <= now /\ lastEvent \in Int
    /\ value \in Rate /\ tokens \in Int /\ generation \in Nat /\ allowance \in Int
    /\ stream \in [Stream -> Call]

\* What a call knows while it reserves and while it waits.
Calls ==
    \A s \in Stream :
        /\ stream[s].pc = "reserve" => stream[s].size >= 1
        /\ stream[s].pc = "wait" => /\ 1 <= stream[s].n /\ stream[s].n <= stream[s].size
                                    /\ stream[s].limit > 0 /\ stream[s].changed <= generation

\* The streams of this period whose turn comes until a time.
Due(T) == {s \in B!Fresh : stream[s].act <= T}

\* What the limiter would give at once and what it has promised is within the allowance.
Booked == value > 0 => allowance >= B!Advanced + Total(stream, B!Fresh)

\* And what it has promised until a time is within the allowance of that time.
InTime ==
    value > 0 => \A T \in Int : T >= Scale * now =>
        Scale * allowance + value * (T - Scale * now) >= Scale * Total(stream, Due(T))

\* Without a limit nobody waits under it.
Unlimited == value = 0 => B!Fresh = {}

\* Wherever streams reserve, wait, pass and give up, all of it holds.
BucketInv == BucketTypes /\ Calls /\ Booked /\ InTime /\ Unlimited

\* The sum is the one the bucket is told by.
LEMMA ReservedTotal ==
  ASSUME NEW S
  PROVE  B!Reserved(S) = Total(stream, S)
  BY DEF B!Reserved, B!MapThenSumSet, B!MapThenFoldSet, Total, One

\* Products keep the order.
LEMMA TimesGrows ==
  ASSUME NEW c \in Nat, NEW a \in Int, NEW b \in Int, a >= b
  PROVE  c * a >= c * b
<1>1. a - b \in Nat
  OBVIOUS
<1>2. c * (a - b) >= 0
  BY <1>1
<1>3. c * (a - b) = c * a - c * b
  OBVIOUS
<1>4. c * a \in Int /\ c * b \in Int
  OBVIOUS
<1> QED BY <1>2, <1>3, <1>4

\* A part of the scale is a whole number of a limit's tokens.
LEMMA Share ==
  ASSUME NEW r \in Rate, r > 0, NEW d \in Int
  PROVE  \E q \in Int : (Scale * d) \div r = q /\ r * q = Scale * d
<1>1. r \in Nat /\ r > 0 /\ Scale \in Nat /\ Scale % r = 0
  BY BucketAssumption
<1>2. PICK k \in Int : Scale = r * k
  BY <1>1
<1>3. Scale * d = r * (k * d)
  BY <1>1, <1>2
<1>4. (r * (k * d)) \div r = k * d
  <2> DEFINE q == k * d
  <2>1. q \in Int
    OBVIOUS
  <2> HIDE DEF q
  <2> QED BY <1>1, <2>1
<1> QED BY <1>3, <1>4

\* The limiter never has more than a burst.
LEMMA AdvancedTyped ==
  ASSUME BucketTypes
  PROVE  /\ Burst[value] \in Nat /\ Burst[value] >= 1 /\ value \in Nat /\ Scale * now \in Nat
         /\ B!Advanced \in Int /\ B!Advanced <= Burst[value]
  BY BucketAssumption DEF BucketTypes, B!Advanced, B!AtMost

\* Nor has it after a step.
LEMMA AdvancedNext ==
  ASSUME BucketTypes'
  PROVE  /\ Burst[value'] \in Nat /\ Burst[value'] >= 1 /\ value' \in Nat /\ Scale * now' \in Nat
         /\ B!Advanced' \in Int /\ B!Advanced' <= Burst[value']
<1>1. /\ Burst[value'] \in Nat /\ Burst[value'] >= 1 /\ Burst[0] \in Nat /\ value' \in Nat
      /\ tokens' \in Int /\ now' \in Nat /\ last' \in Nat /\ Scale \in Nat
  BY BucketAssumption DEF BucketTypes
<1> DEFINE gained == value' * (now' - last')
<1>2. gained \in Int /\ Scale * now' \in Nat
  <2>1. gained \in Int
    BY <1>1
  <2>2. PICK t \in Nat : t = now'
    BY <1>1
  <2>3. Scale * t >= Scale * 0 /\ Scale * t \in Int /\ Scale * 0 = 0
    BY <1>1, TimesGrows
  <2>4. Scale * t \in Nat
    BY <2>3
  <2> QED BY <2>1, <2>2, <2>4
<1>3. B!Advanced' = IF value' = 0 THEN Burst[0]
                    ELSE IF tokens' + gained <= Burst[value'] THEN tokens' + gained ELSE Burst[value']
  BY DEF B!Advanced, B!AtMost
<1> HIDE DEF gained
<1>4. B!Advanced' \in Int
  BY <1>1, <1>2, <1>3
<1>5. B!Advanced' <= Burst[value']
  BY <1>1, <1>2, <1>3
<1> QED BY <1>1, <1>2, <1>4, <1>5

\* The streams are counted.
LEMMA StreamsCounted ==
  ASSUME BucketTypes, NEW S \in SUBSET Stream
  PROVE  Counts(stream, S) /\ Total(stream, S) \in Nat
<1>1. Counts(stream, S)
  BY FS_Subset, BucketAssumption DEF BucketTypes, Counts, Call
<1> QED BY <1>1, TotalOne

\* Of one stream that does not wait after a step, the rest is as it was.
LEMMA OthersWait ==
  ASSUME BucketTypes, NEW s \in Stream, generation' = generation,
         stream' \in [Stream -> Call], stream'[s].pc # "wait",
         \A q \in Stream \ {s} : stream'[q] = stream[q]
  PROVE  /\ B!Fresh' = B!Fresh \ {s}
         /\ \A T \in Int : Due(T)' = Due(T) \ {s}
         /\ \A S \in SUBSET (Stream \ {s}) : Total(stream', S) = Total(stream, S)
         /\ B!Fresh \subseteq Stream
<1>1. B!Fresh' = B!Fresh \ {s} /\ B!Fresh \subseteq Stream
  BY DEF B!Fresh, B!Waiting, B!Stale
<1>2. ASSUME NEW S \in SUBSET (Stream \ {s})
      PROVE  Total(stream', S) = Total(stream, S)
  <2>1. Counts(stream, S)
    BY StreamsCounted
  <2> QED BY <2>1, TotalSame
<1>3. \A T \in Int : Due(T)' = Due(T) \ {s}
  BY <1>1 DEF Due
<1> QED BY <1>1, <1>2, <1>3

\* A period that begins anew has all of its burst.
LEMMA Renewed ==
  ASSUME BucketInv, NEW s \in Stream, UNCHANGED <<now, value, generation>>,
         BucketTypes', Calls', stream'[s].pc # "wait",
         \A q \in Stream \ {s} : stream'[q] = stream[q],
         allowance' = Burst[value] + B!Reserved(B!Fresh \ {s})
  PROVE  BucketInv'
<1>1. /\ B!Fresh' = B!Fresh \ {s} /\ B!Fresh \subseteq Stream
      /\ \A T \in Int : Due(T)' = Due(T) \ {s}
      /\ \A S \in SUBSET (Stream \ {s}) : Total(stream', S) = Total(stream, S)
  BY OthersWait DEF BucketInv, BucketTypes
<1> DEFINE W == B!Fresh \ {s}
<1>2. allowance' = Burst[value] + Total(stream, W)
  BY ReservedTotal
<1>3. W \in SUBSET (Stream \ {s}) /\ Counts(stream, W) /\ Total(stream, W) \in Nat
  BY <1>1, StreamsCounted DEF BucketInv
<1>4. /\ Burst[value] \in Nat /\ value \in Nat /\ Scale * now \in Nat /\ Scale \in Nat
      /\ B!Advanced' \in Int /\ B!Advanced' <= Burst[value]
  BY AdvancedTyped, AdvancedNext, BucketAssumption DEF BucketInv
<1>5. Booked'
  BY <1>1, <1>2, <1>3, <1>4 DEF Booked
<1>6. InTime'
  <2>1. ASSUME NEW T \in Int, T >= Scale * now
        PROVE  Scale * allowance' + value * (T - Scale * now) >= Scale * Total(stream', Due(T) \ {s})
    <3>1. Due(T) \ {s} \in SUBSET W
      BY DEF Due
    <3>2. /\ Total(stream', Due(T) \ {s}) = Total(stream, Due(T) \ {s})
          /\ Total(stream, Due(T) \ {s}) <= Total(stream, W)
          /\ Total(stream, Due(T) \ {s}) \in Nat
      <4>1. Due(T) \ {s} \in SUBSET (Stream \ {s})
        BY <1>3, <3>1
      <4> QED BY <1>1, <1>3, <3>1, <4>1, TotalGrows, TotalOne
    <3>3. Scale * allowance' >= Scale * Total(stream, Due(T) \ {s})
      <4>1. allowance' \in Int /\ allowance' >= Total(stream, Due(T) \ {s})
        BY <1>2, <1>3, <1>4, <3>2
      <4> QED BY <1>4, <3>2, <4>1, TimesGrows
    <3>4. value * (T - Scale * now) >= 0
      <4>1. T - Scale * now \in Nat
        BY <1>4, <2>1
      <4> QED BY <1>4, <4>1
    <3>5. Scale * allowance' \in Int /\ Scale * Total(stream, Due(T) \ {s}) \in Int
          /\ value * (T - Scale * now) \in Int
      BY <1>2, <1>3, <1>4, <3>2
    <3> QED BY <3>2, <3>3, <3>4, <3>5
  <2> QED BY <1>1, <2>1 DEF InTime
<1>7. Unlimited'
  BY <1>1 DEF BucketInv, Unlimited
<1> QED BY <1>5, <1>6, <1>7 DEF BucketInv

\* Typing of a cancellation.
LEMMA CancelledTyped ==
  ASSUME BucketTypes, NEW s \in Stream, stream[s].limit > 0,
         B!Cancelled(stream[s]), UNCHANGED <<now, value>>
  PROVE  tokens' \in Int /\ last' \in Nat /\ last' <= now' /\ lastEvent' \in Int
<1> DEFINE r == stream[s]
<1>1. /\ r.n \in Nat /\ r.act \in Int /\ r.limit \in Nat /\ r.limit > 0 /\ Scale \in Nat /\ Scale > 0
      /\ lastEvent \in Int /\ value \in Nat /\ now \in Nat
  <2>1. r \in Call /\ Rate \subseteq Nat /\ Scale \in Nat \ {0} /\ value \in Rate
    BY BucketAssumption DEF BucketTypes
  <2>2. r.n \in Nat /\ r.act \in Int /\ r.limit \in Rate
    BY <2>1 DEF Call
  <2>3. r.limit > 0
    OBVIOUS
  <2>4. lastEvent \in Int /\ value \in Nat /\ now \in Nat
    BY <2>1 DEF BucketTypes
  <2>5. r.limit \in Nat
    BY <2>1, <2>2
  <2>6. Scale \in Nat /\ Scale > 0
    BY <2>1
  <2> HIDE DEF r
  <2> QED BY <2>2, <2>3, <2>4, <2>5, <2>6
<1>2. B!Restored(r) \in Int
  <2>1. (r.limit * (lastEvent - r.act)) \div Scale \in Int
    <3>1. r.limit * (lastEvent - r.act) \in Int
      BY <1>1
    <3> QED BY <1>1, <3>1
  <2> QED BY <1>1, <2>1 DEF B!Restored, B!AtLeast
<1>3. r.act - (Scale * r.n) \div r.limit \in Int
  <2>1. Scale * r.n \in Int
    BY <1>1
  <2>2. (Scale * r.n) \div r.limit \in Int
    BY <1>1, <2>1
  <2> QED BY <1>1, <2>2
<1>4. B!Advanced \in Int /\ Burst[value] \in Nat
  BY AdvancedTyped
<1>5. B!Cancelled(r)
  OBVIOUS
<1> HIDE DEF r
<1>6. CASE B!Restored(r) = 0
  BY <1>5, <1>6 DEF B!Cancelled, BucketTypes
<1>7. CASE B!Restored(r) # 0
  <2>1. /\ tokens' = B!AtMost(B!Advanced + B!Restored(r), Burst[value]) /\ last' = now
        /\ lastEvent' \in {r.act - (Scale * r.n) \div r.limit, lastEvent}
    BY <1>5, <1>7 DEF B!Cancelled
  <2> QED BY <1>1, <1>2, <1>3, <1>4, <2>1 DEF B!AtMost
<1> QED BY <1>6, <1>7

\* A stream that gives up, because the limit changed or its connection ended, begins a period.
LEMMA GivesUpKeeps ==
  ASSUME BucketInv, NEW s \in Stream, B!Changed(s) \/ B!Done(s)
  PROVE  BucketInv'
<1>1. /\ s \in B!Waiting /\ B!Cancelled(stream[s]) /\ B!Settles(s, 0)
      /\ UNCHANGED <<now, value, generation>>
      /\ \E c \in {B!Idle, [B!Idle EXCEPT !.pc = "reserve", !.size = stream[s].size]} :
           stream' = [stream EXCEPT ![s] = c]
  BY DEF B!Changed, B!Done
<1>2. PICK c \in {B!Idle, [B!Idle EXCEPT !.pc = "reserve", !.size = stream[s].size]} :
        stream' = [stream EXCEPT ![s] = c]
  BY <1>1
<1>3. /\ stream[s].pc = "wait" /\ stream[s].limit > 0 /\ stream[s].size >= 1 /\ stream[s].size \in Nat
      /\ 0 \in Rate
  BY <1>1, BucketAssumption DEF B!Waiting, BucketInv, Calls, BucketTypes, Call
<1>4. c \in Call /\ c.pc # "wait" /\ (c.pc = "reserve" => c.size >= 1)
  <2>1. CASE c = B!Idle
    BY <1>3, <2>1 DEF B!Idle, Call
  <2>2. CASE c = [B!Idle EXCEPT !.pc = "reserve", !.size = stream[s].size]
    <3>1. c = [pc |-> "reserve", size |-> stream[s].size, n |-> 0, act |-> 0, limit |-> 0,
               changed |-> 0]
      BY <2>2 DEF B!Idle
    <3> QED BY <1>3, <3>1 DEF Call
  <2> QED BY <1>2, <2>1, <2>2
<1>5. /\ stream' \in [Stream -> Call] /\ stream'[s] = c
      /\ \A q \in Stream \ {s} : stream'[q] = stream[q]
  BY <1>2, <1>4 DEF BucketInv, BucketTypes
<1>6. allowance' = Burst[value] + B!Reserved(B!Fresh \ {s})
  BY <1>1 DEF B!Settles
<1>7. allowance' \in Int
  <2>1. Total(stream, B!Fresh \ {s}) \in Nat
    <3>1. B!Fresh \ {s} \in SUBSET Stream
      BY DEF B!Fresh, B!Waiting
    <3> QED BY <3>1, StreamsCounted DEF BucketInv
  <2> QED BY <1>6, <2>1, ReservedTotal, AdvancedTyped DEF BucketInv
<1>8. BucketTypes'
  BY <1>1, <1>3, <1>5, <1>7, CancelledTyped DEF BucketInv, BucketTypes
<1>9. Calls'
  BY <1>1, <1>4, <1>5 DEF BucketInv, Calls
<1> QED BY <1>1, <1>4, <1>5, <1>6, <1>8, <1>9, Renewed

\* What passes leaves the rest of the buffer.
LEMMA PassedTyped ==
  ASSUME BucketTypes, NEW s \in Stream, NEW n \in Nat, n <= stream[s].size
  PROVE  /\ B!Passed(s, n) \in Call /\ B!Passed(s, n).pc # "wait"
         /\ B!Passed(s, n).pc = "reserve" => B!Passed(s, n).size >= 1
<1>1. stream[s].size \in Nat /\ 0 \in Rate /\ stream[s].size - n \in Nat
  BY BucketAssumption DEF BucketTypes, Call
<1> DEFINE p == IF stream[s].size = n THEN "idle" ELSE "reserve"
           m == stream[s].size - n
<1>2. B!Passed(s, n) = [B!Idle EXCEPT !.pc = p, !.size = m]
  BY DEF B!Passed
<1>3. m \in Nat /\ p \in {"idle", "reserve"} /\ (p = "reserve" => m >= 1)
  BY <1>1
<1> HIDE DEF p, m
<1>4. B!Passed(s, n) = [pc |-> p, size |-> m, n |-> 0, act |-> 0, limit |-> 0, changed |-> 0]
  BY <1>2 DEF B!Idle
<1> QED BY <1>1, <1>3, <1>4 DEF Call

\* The turn of a stream comes: what was promised for this time passes.
LEMMA TimerFiresKeeps ==
  ASSUME BucketInv, NEW s \in Stream, B!TimerFires(s)
  PROVE  BucketInv'
<1> DEFINE n == stream[s].n
<1>1. /\ s \in B!Waiting /\ stream[s].act <= Scale * now /\ B!Settles(s, n)
      /\ stream' = [stream EXCEPT ![s] = B!Passed(s, n)]
      /\ UNCHANGED <<now, value, tokens, last, lastEvent, generation>>
  BY DEF B!TimerFires
<1>2. n \in Nat /\ 1 <= n /\ n <= stream[s].size
  BY <1>1 DEF B!Waiting, BucketInv, Calls, BucketTypes, Call
<1>3. /\ B!Passed(s, n) \in Call /\ B!Passed(s, n).pc # "wait"
      /\ B!Passed(s, n).pc = "reserve" => B!Passed(s, n).size >= 1
  BY <1>2, PassedTyped DEF BucketInv
<1>4. /\ stream' \in [Stream -> Call] /\ stream'[s] = B!Passed(s, n)
      /\ \A q \in Stream \ {s} : stream'[q] = stream[q]
  BY <1>1, <1>3 DEF BucketInv, BucketTypes
<1>5. /\ B!Fresh' = B!Fresh \ {s} /\ B!Fresh \subseteq Stream
      /\ \A T \in Int : Due(T)' = Due(T) \ {s}
      /\ \A S \in SUBSET (Stream \ {s}) : Total(stream', S) = Total(stream, S)
  BY <1>1, <1>3, <1>4, OthersWait DEF BucketInv
<1>6. allowance' = IF B!Stale(s) THEN Burst[value] + B!Reserved(B!Fresh \ {s}) ELSE allowance - n
  BY <1>1, <1>2 DEF B!Settles
<1>7. allowance' \in Int
  <2>1. Total(stream, B!Fresh \ {s}) \in Nat
    <3>1. B!Fresh \ {s} \in SUBSET Stream
      BY DEF B!Fresh, B!Waiting
    <3> QED BY <3>1, StreamsCounted DEF BucketInv
  <2> QED BY <1>2, <1>6, <2>1, ReservedTotal, AdvancedTyped DEF BucketInv, BucketTypes
<1>8. BucketTypes'
  BY <1>1, <1>4, <1>7 DEF BucketInv, BucketTypes
<1>9. Calls'
  BY <1>1, <1>3, <1>4 DEF BucketInv, Calls
<1>10. CASE B!Stale(s)
  BY <1>1, <1>3, <1>4, <1>6, <1>8, <1>9, <1>10, Renewed
<1>11. CASE ~B!Stale(s)
  <2>1. allowance' = allowance - n /\ s \in B!Fresh /\ allowance \in Int
    BY <1>1, <1>6, <1>11 DEF B!Fresh, BucketInv, BucketTypes
  <2>2. /\ value \in Nat /\ Scale * now \in Nat /\ Scale \in Nat /\ B!Advanced \in Int
        /\ B!Advanced' = B!Advanced
    BY <1>1, AdvancedTyped, BucketAssumption DEF BucketInv, B!Advanced, B!AtMost
  <2> HIDE DEF n
  <2>3. ASSUME NEW S \in SUBSET Stream, s \in S
        PROVE  /\ Total(stream', S \ {s}) = Total(stream, S) - n
               /\ Total(stream, S) \in Nat /\ Total(stream', S \ {s}) \in Nat
    <3>1. Counts(stream, S) /\ Total(stream, S) \in Nat /\ Total(stream, S \ {s}) \in Nat
      BY StreamsCounted DEF BucketInv
    <3>2. Total(stream, S) = n + Total(stream, S \ {s})
      BY <2>3, <3>1, TotalTakes DEF n
    <3>3. Total(stream', S \ {s}) = Total(stream, S \ {s})
      BY <1>5
    <3> QED BY <1>2, <3>1, <3>2, <3>3
  <2>4. Booked'
    <3>1. /\ Total(stream', B!Fresh \ {s}) = Total(stream, B!Fresh) - n
          /\ Total(stream, B!Fresh) \in Nat
      BY <1>5, <2>1, <2>3
    <3>2. value > 0 => allowance >= B!Advanced + Total(stream, B!Fresh)
      BY DEF BucketInv, Booked
    <3>3. value > 0 => allowance' >= B!Advanced' + Total(stream', B!Fresh \ {s})
      BY <1>2, <2>1, <2>2, <3>1, <3>2
    <3> QED BY <1>1, <1>5, <3>3 DEF Booked
  <2>5. InTime'
    <3>1. ASSUME NEW T \in Int, T >= Scale * now, value > 0
          PROVE  Scale * allowance' + value * (T - Scale * now)
                   >= Scale * Total(stream', Due(T) \ {s})
      <4>1. s \in Due(T) /\ Due(T) \in SUBSET Stream
        <5>1. stream[s].act \in Int
          BY DEF BucketInv, BucketTypes, Call
        <5> QED BY <1>1, <1>5, <2>1, <2>2, <3>1, <5>1 DEF Due
      <4> DEFINE D == Total(stream, Due(T))
      <4>2. Total(stream', Due(T) \ {s}) = D - n /\ D \in Nat
        BY <2>3, <4>1
      <4>3. Scale * allowance + value * (T - Scale * now) >= Scale * D
        BY <3>1 DEF BucketInv, InTime
      <4> HIDE DEF D
      <4>4. /\ Scale * (allowance - n) = Scale * allowance - Scale * n
            /\ Scale * (D - n) = Scale * D - Scale * n
            /\ Scale * allowance \in Int /\ Scale * n \in Int /\ Scale * D \in Int
            /\ value * (T - Scale * now) \in Int
        BY <1>2, <2>1, <2>2, <4>2
      <4> QED BY <2>1, <4>2, <4>3, <4>4
    <3> QED BY <1>1, <1>5, <3>1 DEF InTime
  <2>6. Unlimited'
    BY <1>1, <1>5 DEF BucketInv, Unlimited
  <2> QED BY <1>8, <1>9, <2>4, <2>5, <2>6 DEF BucketInv
<1> QED BY <1>10, <1>11

\* Another limit begins a period in which nobody waits yet.
LEMMA SetKeeps ==
  ASSUME BucketInv, NEW v \in Rate, B!set(v)
  PROVE  BucketInv'
<1>1. /\ tokens' = B!Advanced /\ last' = now /\ value' = v /\ generation' = generation + 1
      /\ allowance' = Burst[v] /\ UNCHANGED <<now, lastEvent, stream>>
  BY DEF B!set
<1>2. BucketTypes'
  BY <1>1, AdvancedTyped, BucketAssumption DEF BucketInv, BucketTypes
<1>3. Calls' /\ B!Fresh' = {}
  <2>1. generation \in Nat /\ \A s \in Stream : stream[s].changed \in Nat
    BY DEF BucketInv, BucketTypes, Call
  <2> QED BY <1>1, <2>1 DEF BucketInv, Calls, B!Fresh, B!Waiting, B!Stale
<1>4. Total(stream', {}) = 0
  BY <1>1, StreamsCounted, TotalOne DEF BucketInv
<1>5. /\ Burst[value'] \in Nat /\ value' \in Nat /\ Scale * now' \in Nat /\ Scale \in Nat
      /\ B!Advanced' \in Int /\ B!Advanced' <= Burst[value']
  BY <1>2, AdvancedNext, BucketAssumption
<1>6. Booked'
  BY <1>1, <1>3, <1>4, <1>5 DEF Booked
<1>7. InTime'
  <2>1. ASSUME NEW T \in Int, T >= Scale * now'
        PROVE  Scale * Burst[v] + v * (T - Scale * now') >= Scale * 0
    <3>1. T - Scale * now' \in Nat /\ v \in Nat /\ Burst[v] \in Nat
      BY <1>1, <1>5, <2>1
    <3>2. PICK d \in Nat : d = T - Scale * now'
      BY <3>1
    <3>3. v * d \in Nat /\ Scale * Burst[v] \in Nat /\ Scale * 0 = 0
      BY <1>5, <3>1
    <3> QED BY <3>2, <3>3
  <2>2. \A T \in Int : Due(T)' = {}
    BY <1>3 DEF Due
  <2> QED BY <1>1, <1>4, <2>1, <2>2 DEF InTime
<1> QED BY <1>2, <1>3, <1>6, <1>7 DEF BucketInv, Unlimited

\* A buffer comes.
LEMMA WaitKeeps ==
  ASSUME BucketInv, NEW s \in Stream, NEW size \in Size, B!wait(s, size)
  PROVE  BucketInv'
<1> DEFINE c == [pc |-> "reserve", size |-> size, n |-> 0, act |-> 0, limit |-> 0, changed |-> 0]
<1>1. /\ stream[s].pc = "idle" /\ stream' = [stream EXCEPT ![s] = c]
      /\ UNCHANGED <<now, value, tokens, last, lastEvent, generation, allowance>>
  <2>1. PICK d : d = [B!Idle EXCEPT !.pc = "reserve", !.size = size]
    OBVIOUS
  <2>2. d = c
    BY <2>1 DEF B!Idle
  <2> QED BY <2>1, <2>2 DEF B!wait
<1>2. c \in Call /\ c.pc = "reserve" /\ c.size >= 1
  BY BucketAssumption DEF Call
<1> HIDE DEF c
<1>3. /\ stream' \in [Stream -> Call] /\ stream'[s] = c
      /\ \A q \in Stream \ {s} : stream'[q] = stream[q]
  BY <1>1, <1>2 DEF BucketInv, BucketTypes
<1>4. BucketTypes' /\ Calls'
  BY <1>1, <1>2, <1>3 DEF BucketInv, BucketTypes, Calls
<1>5. /\ B!Fresh' = B!Fresh \ {s} /\ B!Fresh \subseteq Stream
      /\ \A T \in Int : Due(T)' = Due(T) \ {s}
      /\ \A S \in SUBSET (Stream \ {s}) : Total(stream', S) = Total(stream, S)
  BY <1>1, <1>2, <1>3, OthersWait DEF BucketInv
<1>6. s \notin B!Fresh /\ \A T \in Int : s \notin Due(T)
  BY <1>1 DEF B!Fresh, B!Waiting, Due
<1>7. /\ B!Fresh' = B!Fresh /\ Total(stream', B!Fresh) = Total(stream, B!Fresh)
      /\ \A T \in Int : Due(T)' = Due(T) /\ Total(stream', Due(T)) = Total(stream, Due(T))
  <2>1. B!Fresh \in SUBSET (Stream \ {s}) /\ \A T \in Int : Due(T) \in SUBSET (Stream \ {s})
    BY <1>5, <1>6 DEF Due
  <2> QED BY <1>5, <1>6, <2>1
<1>8. B!Advanced' = B!Advanced
  BY <1>1 DEF B!Advanced, B!AtMost
<1>9. Booked' /\ InTime' /\ Unlimited'
  BY <1>1, <1>7, <1>8 DEF BucketInv, Booked, InTime, Unlimited
<1> QED BY <1>4, <1>9 DEF BucketInv

\* Time gives as much as the limit says.
LEMMA BucketTickKeeps ==
  ASSUME BucketInv, B!Tick
  PROVE  BucketInv'
<1>1. /\ now' = now + 1 /\ allowance' = allowance + value
      /\ UNCHANGED <<value, tokens, last, lastEvent, generation, stream>>
  BY DEF B!Tick
<1>2. /\ value \in Nat /\ now \in Nat /\ last \in Nat /\ last <= now /\ tokens \in Int /\ Scale \in Nat
      /\ allowance \in Int
  BY BucketAssumption DEF BucketInv, BucketTypes
<1>3. BucketTypes' /\ Calls'
  BY <1>1, <1>2 DEF BucketInv, BucketTypes, Calls
<1>4. B!Fresh' = B!Fresh /\ \A T \in Int : Due(T)' = Due(T)
  BY <1>1 DEF B!Fresh, B!Waiting, B!Stale, Due
<1>5. value > 0 => B!Advanced' <= B!Advanced + value
  <2>1. value * (now + 1 - last) = value * (now - last) + value /\ value * (now - last) \in Int
    BY <1>2
  <2> QED BY <1>1, <1>2, <2>1, AdvancedTyped DEF BucketInv, B!Advanced, B!AtMost
<1>6. Booked'
  <2>1. Total(stream, B!Fresh) \in Nat
    BY StreamsCounted DEF BucketInv, B!Fresh, B!Waiting
  <2>2. B!Advanced \in Int /\ B!Advanced' \in Int
    BY <1>3, AdvancedTyped, AdvancedNext DEF BucketInv
  <2> QED BY <1>1, <1>2, <1>4, <1>5, <2>1, <2>2 DEF BucketInv, Booked
<1>7. InTime'
  <2>1. ASSUME NEW T \in Int, T >= Scale * (now + 1), value > 0
        PROVE  Scale * (allowance + value) + value * (T - Scale * (now + 1))
                 >= Scale * Total(stream, Due(T))
    <3>1. Scale * (now + 1) = Scale * now + Scale /\ Scale * now \in Int
      BY <1>2
    <3>2. Scale * allowance + value * (T - Scale * now) >= Scale * Total(stream, Due(T))
      BY <1>2, <2>1, <3>1 DEF BucketInv, InTime
    <3>3. Scale * (allowance + value) = Scale * allowance + Scale * value
      BY <1>2
    <3>4. value * (T - Scale * (now + 1)) = value * (T - Scale * now) - Scale * value
      <4>1. PICK d \in Int : d = T - Scale * now
        BY <3>1
      <4>2. T - Scale * (now + 1) = d - Scale
        BY <1>2, <3>1, <4>1
      <4>3. value * (d - Scale) = value * d - Scale * value
        BY <1>2
      <4> QED BY <4>1, <4>2, <4>3
    <3>5. /\ Scale * allowance \in Int /\ Scale * value \in Int
          /\ value * (T - Scale * now) \in Int
      BY <1>2, <3>1
    <3> QED BY <3>2, <3>3, <3>4, <3>5
  <2> QED BY <1>1, <1>4, <2>1 DEF InTime
<1>8. Unlimited'
  BY <1>1, <1>4 DEF BucketInv, Unlimited
<1> QED BY <1>3, <1>6, <1>7, <1>8 DEF BucketInv

\* What may pass at once passes.
LEMMA ReservePassesKeeps ==
  ASSUME BucketInv, NEW s \in Stream, NEW n \in Nat, stream[s].pc = "reserve",
         n <= stream[s].size, UNCHANGED <<now, value, generation>>,
         stream' = [stream EXCEPT ![s] = B!Passed(s, n)],
         \/ value = 0 /\ UNCHANGED <<tokens, last, lastEvent, allowance>>
         \/ /\ value > 0 /\ B!Advanced >= n /\ tokens' = B!Advanced - n /\ last' = now
            /\ lastEvent' = Scale * now /\ allowance' = allowance - n
  PROVE  BucketInv'
<1>1. /\ B!Passed(s, n) \in Call /\ B!Passed(s, n).pc # "wait"
      /\ B!Passed(s, n).pc = "reserve" => B!Passed(s, n).size >= 1
  BY PassedTyped DEF BucketInv
<1>2. /\ stream' \in [Stream -> Call] /\ stream'[s] = B!Passed(s, n)
      /\ \A q \in Stream \ {s} : stream'[q] = stream[q]
  BY <1>1 DEF BucketInv, BucketTypes
<1>3. /\ B!Advanced \in Int /\ value \in Nat /\ Scale * now \in Nat /\ Scale \in Nat
      /\ Burst[value] \in Nat /\ B!Advanced <= Burst[value] /\ now \in Nat /\ allowance \in Int
  BY AdvancedTyped, BucketAssumption DEF BucketInv, BucketTypes
<1>4. BucketTypes'
  BY <1>2, <1>3 DEF BucketInv, BucketTypes
<1>5. Calls'
  BY <1>1, <1>2 DEF BucketInv, Calls
<1>6. /\ B!Fresh' = B!Fresh \ {s} /\ B!Fresh \subseteq Stream
      /\ \A T \in Int : Due(T)' = Due(T) \ {s}
      /\ \A S \in SUBSET (Stream \ {s}) : Total(stream', S) = Total(stream, S)
  BY <1>1, <1>2, OthersWait DEF BucketInv
<1>7. s \notin B!Fresh /\ \A T \in Int : s \notin Due(T)
  BY DEF B!Fresh, B!Waiting, Due
<1>8. /\ B!Fresh' = B!Fresh /\ Total(stream', B!Fresh) = Total(stream, B!Fresh)
      /\ \A T \in Int : Due(T)' = Due(T) /\ Total(stream', Due(T)) = Total(stream, Due(T))
  <2>1. B!Fresh \in SUBSET (Stream \ {s}) /\ \A T \in Int : Due(T) \in SUBSET (Stream \ {s})
    BY <1>6, <1>7 DEF Due
  <2> QED BY <1>6, <1>7, <2>1
<1>9. Unlimited'
  BY <1>8 DEF BucketInv, Unlimited
<1>10. CASE value = 0
  <2>1. value' = 0
    BY <1>10
  <2> QED BY <1>4, <1>5, <1>9, <2>1 DEF BucketInv, Booked, InTime
<1>11. CASE value > 0
  <2>1. /\ tokens' = B!Advanced - n /\ last' = now' /\ value' = value /\ now' = now
        /\ allowance' = allowance - n /\ B!Advanced >= n
    BY <1>11
  <2>2. B!Advanced' = B!Advanced - n
    <3>1. value' * (now' - last') = 0
      BY <1>3, <2>1
    <3> QED BY <1>3, <1>11, <2>1, <3>1 DEF B!Advanced, B!AtMost
  <2>3. allowance >= B!Advanced + Total(stream, B!Fresh)
    BY <1>11 DEF BucketInv, Booked
  <2>4. B!Fresh \in SUBSET Stream /\ Counts(stream, B!Fresh) /\ Total(stream, B!Fresh) \in Nat
    BY <1>6, StreamsCounted DEF BucketInv
  <2>5. Booked'
    BY <1>3, <1>8, <2>1, <2>2, <2>3, <2>4 DEF Booked
  <2>6. InTime'
    <3>1. ASSUME NEW T \in Int, T >= Scale * now
          PROVE  Scale * allowance' + value * (T - Scale * now) >= Scale * Total(stream, Due(T))
      <4>1. Total(stream, Due(T)) <= Total(stream, B!Fresh) /\ Total(stream, Due(T)) \in Nat
        <5>1. Due(T) \in SUBSET B!Fresh /\ Due(T) \in SUBSET Stream
          BY <1>6 DEF Due
        <5> QED BY <2>4, <5>1, TotalGrows, TotalOne
      <4>2. allowance' \in Int /\ allowance' >= Total(stream, Due(T))
        BY <1>3, <2>1, <2>3, <2>4, <4>1
      <4>3. Scale * allowance' >= Scale * Total(stream, Due(T))
        BY <1>3, <4>1, <4>2, TimesGrows
      <4>4. PICK d \in Nat : d = T - Scale * now
        BY <1>3, <3>1
      <4>5. value * d \in Nat /\ Scale * allowance' \in Int /\ Scale * Total(stream, Due(T)) \in Int
        BY <1>3, <4>1, <4>2
      <4> QED BY <4>3, <4>4, <4>5
    <3> QED BY <1>8, <2>1, <3>1 DEF InTime
  <2> QED BY <1>4, <1>5, <1>9, <2>5, <2>6 DEF BucketInv
<1> QED BY <1>10, <1>11

\* What may not is promised for the time when it will have been paid.
LEMMA ReserveWaitsKeeps ==
  ASSUME BucketInv, NEW s \in Stream, NEW n \in Nat, NEW act \in Int,
         stream[s].pc = "reserve", 1 <= n, n <= stream[s].size,
         value > 0, B!Advanced < n, act = Scale * now + (Scale * (n - B!Advanced)) \div value,
         UNCHANGED <<now, value, generation, allowance>>,
         tokens' = B!Advanced - n, last' = now, lastEvent' = act,
         stream' = [stream EXCEPT ![s] =
             [pc |-> "wait", size |-> stream[s].size, n |-> n, act |-> act, limit |-> value,
              changed |-> generation]]
  PROVE  BucketInv'
<1> DEFINE c == [pc |-> "wait", size |-> stream[s].size, n |-> n, act |-> act, limit |-> value,
                 changed |-> generation]
<1>1. /\ B!Advanced \in Int /\ value \in Nat /\ Scale * now \in Nat /\ Scale \in Nat
      /\ Burst[value] \in Nat /\ B!Advanced <= Burst[value] /\ now \in Nat /\ allowance \in Int
      /\ generation \in Nat /\ value \in Rate
  BY AdvancedTyped, BucketAssumption DEF BucketInv, BucketTypes
<1>2. /\ c \in Call /\ c.pc = "wait" /\ c.n = n /\ c.act = act /\ c.limit = value
      /\ c.changed = generation /\ c.size = stream[s].size
  BY <1>1 DEF BucketInv, BucketTypes, Call
<1> HIDE DEF c
<1>3. /\ stream' \in [Stream -> Call] /\ stream'[s] = c
      /\ \A q \in Stream \ {s} : stream'[q] = stream[q]
  BY <1>2 DEF c, BucketInv, BucketTypes
<1>4. BucketTypes'
  BY <1>1, <1>3 DEF BucketInv, BucketTypes
<1>5. Calls'
  BY <1>1, <1>2, <1>3 DEF BucketInv, Calls
<1>6. /\ B!Fresh \subseteq Stream /\ s \notin B!Fresh /\ B!Fresh' = B!Fresh \cup {s}
  BY <1>2, <1>3 DEF B!Fresh, B!Waiting, B!Stale
<1>7. ASSUME NEW S \in SUBSET Stream, s \notin S
      PROVE  /\ Total(stream', S) = Total(stream, S) /\ Total(stream, S) \in Nat
             /\ Total(stream', S \cup {s}) = n + Total(stream, S)
  <2>1. Counts(stream, S) /\ Total(stream, S) \in Nat
    BY StreamsCounted DEF BucketInv
  <2>2. PICK F : F = stream'
    OBVIOUS
  <2>3. Counts(F, S \cup {s}) /\ \A q \in S : stream[q].n = F[q].n
    <3>1. \A q \in Stream : F[q].n \in Nat
      BY <1>3, <2>2 DEF Call
    <3>2. IsFiniteSet(S \cup {s})
      BY FS_Subset, BucketAssumption
    <3> QED BY <1>3, <1>7, <2>2, <3>1, <3>2 DEF Counts
  <2>4. Total(stream, S) = Total(F, S)
    BY <2>1, <2>3, TotalSame
  <2>5. Total(F, S \cup {s}) = F[s].n + Total(F, (S \cup {s}) \ {s})
    <3>1. s \in S \cup {s}
      OBVIOUS
    <3> QED BY <2>3, <3>1, TotalTakes
  <2>6. (S \cup {s}) \ {s} = S
    BY <1>7
  <2>7. Total(F, S \cup {s}) = n + Total(stream, S)
    BY <1>2, <1>3, <2>2, <2>4, <2>5, <2>6
  <2> QED BY <2>1, <2>2, <2>4, <2>7
<1>8. allowance >= B!Advanced + Total(stream, B!Fresh)
  BY DEF BucketInv, Booked
<1>9. /\ Total(stream', B!Fresh') = n + Total(stream, B!Fresh) /\ Total(stream, B!Fresh) \in Nat
  BY <1>6, <1>7
<1>10. B!Advanced' = B!Advanced - n
  <2>1. value' * (now' - last') = 0
    BY <1>1
  <2> QED BY <1>1, <2>1 DEF B!Advanced, B!AtMost
<1>11. Booked'
  BY <1>1, <1>8, <1>9, <1>10 DEF Booked
<1>12. InTime'
  <2>1. ASSUME NEW T \in Int, T >= Scale * now
        PROVE  Scale * allowance + value * (T - Scale * now) >= Scale * Total(stream', Due(T)')
    <3>1. Due(T) \in SUBSET Stream /\ Due(T) \in SUBSET B!Fresh /\ s \notin Due(T)
      BY <1>6 DEF Due
    <3>2. /\ Total(stream', Due(T)) = Total(stream, Due(T)) /\ Total(stream, Due(T)) \in Nat
          /\ Total(stream', Due(T) \cup {s}) = n + Total(stream, Due(T))
      BY <1>7, <3>1
    <3>3. Due(T)' = IF act <= T THEN Due(T) \cup {s} ELSE Due(T)
      BY <1>2, <1>3, <1>6 DEF Due
    <3>4. CASE act > T
      <4>1. Due(T)' = Due(T)
        BY <3>3, <3>4
      <4> QED BY <2>1, <3>2, <4>1 DEF BucketInv, InTime
    <3>5. CASE act <= T
      <4>1. Total(stream, Due(T)) <= Total(stream, B!Fresh)
        BY <1>6, <3>1, StreamsCounted, TotalGrows DEF BucketInv
      <4>2. PICK q \in Int : /\ (Scale * (n - B!Advanced)) \div value = q
                             /\ value * q = Scale * (n - B!Advanced)
        BY <1>1, Share
      <4>3. T - Scale * now >= q
        BY <1>1, <3>5, <4>2
      <4>4. value * (T - Scale * now) >= Scale * (n - B!Advanced)
        BY <1>1, <4>2, <4>3, TimesGrows
      <4>5. Scale * allowance >= Scale * (B!Advanced + Total(stream, Due(T)))
        <5>1. allowance >= B!Advanced + Total(stream, Due(T))
          BY <1>1, <1>8, <1>9, <3>2, <4>1
        <5> QED BY <1>1, <3>2, <5>1, TimesGrows
      <4>6. Scale * (B!Advanced + Total(stream, Due(T))) + Scale * (n - B!Advanced)
              = Scale * (n + Total(stream, Due(T)))
        <5>1. PICK t \in Nat : t = Total(stream, Due(T))
          BY <3>2
        <5>2. PICK a \in Int : a = B!Advanced
          BY <1>1
        <5>3. Scale * (a + t) + Scale * (n - a) = Scale * (n + t)
          BY <1>1
        <5> QED BY <5>1, <5>2, <5>3
      <4>7. /\ Scale * (B!Advanced + Total(stream, Due(T))) \in Int
            /\ Scale * (n - B!Advanced) \in Int /\ Scale * allowance \in Int
            /\ value * (T - Scale * now) \in Int
        BY <1>1, <3>2
      <4>8. Total(stream', Due(T)') = n + Total(stream, Due(T))
        BY <3>2, <3>3, <3>5
      <4> QED BY <4>4, <4>5, <4>6, <4>7, <4>8
    <3> QED BY <1>1, <3>4, <3>5
  <2> QED BY <2>1 DEF InTime
<1> QED BY <1>4, <1>5, <1>11, <1>12 DEF BucketInv, Unlimited

\* A stream that reserves passes at once or waits.
LEMMA ReserveKeeps ==
  ASSUME BucketInv, NEW s \in Stream, B!Reserve(s)
  PROVE  BucketInv'
<1> DEFINE n == B!AtMost(stream[s].size, Burst[value])
           act == Scale * now + (Scale * (n - B!Advanced)) \div value
<1>1. /\ stream[s].pc = "reserve" /\ UNCHANGED <<now, value, generation>>
      /\ IF value = 0
         THEN /\ stream' = [stream EXCEPT ![s] = B!Passed(s, n)]
              /\ UNCHANGED <<tokens, last, lastEvent, allowance>>
         ELSE /\ tokens' = B!Advanced - n /\ last' = now
              /\ lastEvent' = IF B!Advanced - n < 0 THEN act ELSE Scale * now
              /\ stream' = [stream EXCEPT ![s] =
                     IF B!Advanced - n < 0
                     THEN [pc |-> "wait", size |-> stream[s].size, n |-> n, act |-> act,
                           limit |-> value, changed |-> generation]
                     ELSE B!Passed(s, n)]
              /\ allowance' = IF B!Advanced - n < 0 THEN allowance ELSE allowance - n
  BY DEF B!Reserve
<1>2. /\ n \in Nat /\ 1 <= n /\ n <= stream[s].size /\ B!Advanced \in Int /\ value \in Nat
      /\ value \in Rate /\ Scale \in Nat /\ Scale * now \in Nat
  <2>1. stream[s].size \in Nat /\ stream[s].size >= 1
    BY <1>1 DEF BucketInv, BucketTypes, Calls, Call
  <2> QED BY <2>1, AdvancedTyped, BucketAssumption DEF BucketInv, BucketTypes, B!AtMost
<1>3. value > 0 => act \in Int
  <2>1. ASSUME value > 0 PROVE (Scale * (n - B!Advanced)) \div value \in Int
    BY <1>2, <2>1, Share
  <2> QED BY <1>2, <2>1
<1>4. CASE value = 0
  BY <1>1, <1>2, <1>4, ReservePassesKeeps
<1>5. CASE value > 0 /\ B!Advanced >= n
  <2>1. ~(B!Advanced - n < 0) /\ value # 0
    BY <1>2, <1>5
  <2> HIDE DEF act
  <2> QED BY <1>1, <1>2, <1>5, <2>1, ReservePassesKeeps
<1>6. CASE value > 0 /\ B!Advanced < n
  <2>1. B!Advanced - n < 0 /\ value # 0
    BY <1>2, <1>6
  <2>2. act = Scale * now + (Scale * (n - B!Advanced)) \div value
    OBVIOUS
  <2> HIDE DEF act
  <2> QED BY <1>1, <1>2, <1>3, <1>6, <2>1, <2>2, ReserveWaitsKeeps
<1> QED BY <1>2, <1>4, <1>5, <1>6

\* Nobody has come yet, and there is no limit.
LEMMA BucketInit ==
  ASSUME B!Init
  PROVE  BucketInv
<1>1. /\ now = 0 /\ value = 0 /\ tokens = Burst[0] /\ last = 0 /\ lastEvent = 0 /\ generation = 0
      /\ stream = [s \in Stream |-> B!Idle] /\ allowance = 0
  BY DEF B!Init
<1>2. B!Idle \in Call /\ B!Idle.pc = "idle"
  BY BucketAssumption DEF B!Idle, Call
<1>3. BucketTypes
  BY <1>1, <1>2, BucketAssumption DEF BucketTypes
<1>4. Calls /\ B!Fresh = {}
  BY <1>1, <1>2 DEF Calls, B!Fresh, B!Waiting
<1> QED BY <1>1, <1>3, <1>4 DEF BucketInv, Booked, InTime, Unlimited

\* Every step keeps what the bucket knows.
LEMMA BucketStep ==
  ASSUME BucketInv, [B!Next]_B!vars
  PROVE  BucketInv'
<1>1. CASE B!Next
  BY <1>1, SetKeeps, WaitKeeps, ReserveKeeps, TimerFiresKeeps, GivesUpKeeps, BucketTickKeeps DEF B!Next
<1>2. CASE UNCHANGED B!vars
  <2>1. UNCHANGED <<now, value, tokens, last, lastEvent, generation, stream, allowance>>
    BY <1>2 DEF B!vars
  <2>2. B!Fresh' = B!Fresh /\ B!Advanced' = B!Advanced /\ \A T \in Int : Due(T)' = Due(T)
    BY <2>1 DEF B!Fresh, B!Waiting, B!Stale, B!Advanced, B!AtMost, Due
  <2>3. BucketTypes' /\ Calls'
    BY <2>1 DEF BucketInv, BucketTypes, Calls
  <2> QED BY <2>1, <2>2, <2>3 DEF BucketInv, Booked, InTime, Unlimited
<1> QED BY <1>1, <1>2

\* What has passed is within the allowance at every moment.
LEMMA AllowanceHolds ==
  ASSUME BucketInv
  PROVE  B!WithinRate
<1>1. ASSUME value > 0 PROVE allowance >= 0
  <2>1. /\ Scale * now \in Int /\ Scale \in Nat /\ Scale > 0 /\ allowance \in Int /\ value \in Nat
    BY AdvancedTyped, BucketAssumption DEF BucketInv, BucketTypes
  <2>2. Scale * allowance + value * (Scale * now - Scale * now)
          >= Scale * Total(stream, Due(Scale * now))
    BY <1>1, <2>1 DEF BucketInv, InTime
  <2>3. Total(stream, Due(Scale * now)) \in Nat
    BY StreamsCounted DEF BucketInv, Due, B!Fresh, B!Waiting
  <2>4. value * (Scale * now - Scale * now) = 0
    BY <2>1
  <2>5. Scale * Total(stream, Due(Scale * now)) >= 0
    BY <2>1, <2>3
  <2>6. Scale * allowance >= 0
    BY <2>1, <2>2, <2>3, <2>4, <2>5
  <2> QED BY <2>1, <2>6
<1> QED BY <1>1 DEF B!WithinRate

\* For any streams, limits and buffers, whatever was reserved, cancelled and reserved again: in a
\* period in which no stream is cut off the streams together pass no more than one burst and what
\* the limit gives in that time (set, wait).
THEOREM RateKept == B!Spec => []WithinRate
<1>1. B!Init => BucketInv
  BY BucketInit
<1>2. BucketInv /\ [B!Next]_B!vars => BucketInv'
  BY BucketStep
<1>3. BucketInv => WithinRate
  BY AllowanceHolds DEF WithinRate
<1> QED BY <1>1, <1>2, <1>3, PTL DEF B!Spec

\* The stream that reserved last gets back all of it.
LEMMA LastCancels ==
  ASSUME BucketInv, [B!Next]_B!vars, NEW s \in Stream,
         s \in B!Waiting, s \notin B!Waiting', value > 0,
         stream[s].act = lastEvent, lastEvent > Scale * now
  PROVE  tokens' >= B!AtMost(B!Advanced + stream[s].n, Burst[value])
<1>1. /\ stream[s].pc = "wait" /\ stream[s].n \in Nat /\ 1 <= stream[s].n /\ Scale \in Nat /\ Scale > 0
      /\ stream[s].limit \in Nat /\ lastEvent \in Int /\ Scale * now \in Nat
  <2>1. stream[s] \in Call /\ stream[s].pc = "wait" /\ Rate \subseteq Nat /\ Scale \in Nat \ {0}
    BY BucketAssumption DEF B!Waiting, BucketInv, BucketTypes
  <2>2. stream[s].n \in Nat /\ stream[s].limit \in Nat
    BY <2>1 DEF Call
  <2>3. 1 <= stream[s].n
    BY <2>1 DEF BucketInv, Calls
  <2> QED BY <2>1, <2>2, <2>3, AdvancedTyped DEF BucketInv, BucketTypes
<1>2. B!Advanced \in Int /\ Burst[value] \in Nat
  BY AdvancedTyped DEF BucketInv
<1>3. stream'[s] # stream[s]
  BY DEF B!Waiting
<1>4. B!Changed(s) \/ B!Done(s)
  <2>1. \A t \in Stream : t # s =>
           /\ \A size \in Size : ~B!wait(t, size)
           /\ ~B!Reserve(t) /\ ~B!TimerFires(t) /\ ~B!Changed(t) /\ ~B!Done(t)
    <3>1. ASSUME NEW t \in Stream, t # s, NEW c, stream' = [stream EXCEPT ![t] = c] PROVE FALSE
      BY <1>3, <3>1 DEF BucketInv, BucketTypes
    <3> QED BY <3>1 DEF B!wait, B!Reserve, B!TimerFires, B!Changed, B!Done
  <2>2. ~B!TimerFires(s)
    BY <1>1 DEF B!TimerFires
  <2>3. ~B!Reserve(s) /\ \A size \in Size : ~B!wait(s, size)
    BY <1>1 DEF B!Reserve, B!wait
  <2>4. \A v \in Rate : ~B!set(v)
    BY <1>3 DEF B!set
  <2>5. ~B!Tick /\ ~UNCHANGED B!vars
    BY <1>3 DEF B!Tick, B!vars
  <2> QED BY <2>1, <2>2, <2>3, <2>4, <2>5 DEF B!Next
<1>5. B!Cancelled(stream[s])
  BY <1>4 DEF B!Changed, B!Done
<1>6. B!Restored(stream[s]) = stream[s].n
  <2>1. (stream[s].limit * (lastEvent - stream[s].act)) \div Scale = 0
    <3>1. stream[s].limit * (lastEvent - stream[s].act) = 0
      BY <1>1
    <3> QED BY <1>1, <3>1
  <2> QED BY <1>1, <2>1 DEF B!Restored, B!AtLeast
<1>7. tokens' = B!AtMost(B!Advanced + stream[s].n, Burst[value])
  BY <1>1, <1>5, <1>6 DEF B!Cancelled
<1> QED BY <1>1, <1>2, <1>7 DEF B!AtMost

\* However many streams reserve and give up: the one that reserved last and gives up before its turn,
\* because the limit changed or its connection ended, pays for nothing it did not use (wait).
THEOREM LastRefunded == B!Spec => LastGetsBack
<1> DEFINE Back ==
      \A s \in Stream :
          /\ s \in B!Waiting /\ s \notin B!Waiting' /\ value > 0
          /\ stream[s].act = lastEvent /\ lastEvent > Scale * now
          => tokens' >= B!AtMost(B!Advanced + stream[s].n, Burst[value])
<1>1. B!Init => BucketInv
  BY BucketInit
<1>2. BucketInv /\ [B!Next]_B!vars => BucketInv'
  BY BucketStep
<1>3. BucketInv /\ [B!Next]_B!vars => [Back]_B!vars
  BY LastCancels
<1> QED BY <1>1, <1>2, <1>3, PTL DEF B!Spec, LastGetsBack, B!LastGetsBack
=============================================================================
