----------------------------- MODULE FeedProofs -----------------------------
(***************************************************************************)
(* What a live page shows, for any number of packets, of requests under way *)
(* at once and of requests that fail, when no more than a page's limit of   *)
(* packets comes between two of its polls.                                  *)
(***************************************************************************)
EXTENDS Feed, FiniteSetTheorems, TLAPS

\* An answer that has packets has a newest one, where the cursor goes.
LEMMA NewestOfBounded ==
  ASSUME NEW S \in SUBSET Nat, S # {}, NEW n \in Nat, \A s \in S : s <= n
  PROVE  Newest(S) \in S /\ \A s \in S : s <= Newest(S)
<1> DEFINE Above(a) == {y \in S : y > a}
<1>1. IsFiniteSet(S)
  BY FS_BoundedSetOfNaturals
<1>2. {Above(a) : a \in S} \subseteq FiniteSubsetsOf(S)
  BY <1>1, FS_Subset DEF FiniteSubsetsOf
<1>3. PICK T \in {Above(a) : a \in S} :
        \A U \in {Above(a) : a \in S} : <<U, T>> \notin StrictSubsetOrdering(S)
  <2>1. {Above(a) : a \in S} # {}
    OBVIOUS
  <2> HIDE DEF Above
  <2> QED
    BY <1>2, <2>1, FS_StrictSubsetOrderingWellFounded, WFMin, Zenon
<1>4. PICK a \in S : T = Above(a)
  OBVIOUS
<1>5. \A b \in S : b <= a
  <2> SUFFICES ASSUME NEW b \in S, b > a PROVE FALSE
    OBVIOUS
  <2>1. a \in Nat /\ b \in Nat
    OBVIOUS
  <2>2. \A y \in S : y \in Nat /\ (y > b => y > a)
    BY <2>1
  <2>3. Above(b) \subseteq Above(a) /\ b \in Above(a) /\ b \notin Above(b)
    <3>1. ~(b > b)
      BY <2>1
    <3> QED
      BY <2>2, <3>1, Zenon
  <2>4. <<Above(b), Above(a)>> \in StrictSubsetOrdering(S)
    BY <2>3 DEF StrictSubsetOrdering
  <2> QED
    BY <1>3, <1>4, <2>4
<1> QED
  BY <1>5, Zenon DEF Newest

-----------------------------------------------------------------------------
(* The requests under way.                                                  *)

FeedShape ==
  /\ log \in Seq(BOOLEAN) /\ rendered \subseteq DOMAIN log
  /\ fetches = [i \in Slots |-> fetches[i]]
  /\ \A i \in Slots : fetches[i].at = "page" => fetches[i].packets \subseteq DOMAIN log

\* The cursor of a page with a list is a packet it has shown.
CursorIsShown == IF cursor = NoCursor THEN rendered = {} ELSE cursor \in rendered

\* A page that has shown a packet has shown all before it.
ShownFromTheStart ==
  \A b \in rendered : \A k \in 1..b : log[k] \/ k \in rendered

\* What the page has not asked for yet fits into an answer, though a late one may
\* have set the cursor back.
RestFitsAnAnswer == \E b \in rendered \cup {0} : Len(log) <= b + Limit

RequestsFromShown ==
  \A i \in Slots :
    fetches[i].at = "server" => fetches[i].since = NoCursor \/ fetches[i].since \in rendered

\* With what the page shows, an answer has every packet before those it has.
AnswersLeaveNoGap ==
  \A i \in Slots :
    fetches[i].at = "page" =>
      \A p \in fetches[i].packets :
        ~log[p] /\ \A k \in 1..p : log[k] \/ k \in rendered \cup fetches[i].packets

FeedInv ==
  /\ FeedShape
  /\ page # "map" => /\ CursorIsShown /\ ShownFromTheStart /\ RestFitsAnAnswer
                     /\ RequestsFromShown /\ AnswersLeaveNoGap

LEMMA FeedInit == Init => FeedInv
<1> SUFFICES ASSUME Init PROVE FeedInv
  OBVIOUS
<1>1. PICK i \in Slots :
        fetches = [j \in Slots |-> IF j = i THEN Asked(NoCursor, TRUE) ELSE Idle]
  BY Zenon DEF Init
<1>2. \A j \in Slots : /\ fetches[j].at # "page"
                       /\ fetches[j].at = "server" => fetches[j].since = NoCursor
  BY <1>1 DEF Asked, Idle
<1>3. fetches = [j \in Slots |-> fetches[j]]
  BY <1>1
<1>4. log = <<>> /\ rendered = {} /\ cursor = NoCursor
  BY DEF Init
<1>5. FeedShape
  BY <1>2, <1>3, <1>4 DEF FeedShape
<1>6. RestFitsAnAnswer
  BY <1>4, FeedAssumption DEF RestFitsAnAnswer
<1> QED
  BY <1>2, <1>4, <1>5, <1>6
  DEF FeedInv, CursorIsShown, ShownFromTheStart, RequestsFromShown, AnswersLeaveNoGap

\* What a page with a list does with an answer.
LEMMA AnswerIsShown ==
  ASSUME FeedShape, NEW i \in Slots, Handle(i), page # "map"
  PROVE  /\ fetches[i].at = "page" /\ UNCHANGED <<page, log>>
         /\ fetches' = [fetches EXCEPT ![i] = Idle]
         /\ rendered' = rendered \cup fetches[i].packets
         /\ \/ fetches[i].packets = {} /\ UNCHANGED <<list, cursor>>
            \/ /\ fetches[i].packets # {} /\ cursor' = Newest(fetches[i].packets)
               /\ \/ page = "firehose" /\ FirehoseShows(fetches[i].packets)
                  \/ page = "chat" /\ ChatShows(fetches[i].packets)
         /\ cursor' = cursor \/ cursor' \in fetches[i].packets
<1> DEFINE P == fetches[i].packets
<1>1. /\ fetches[i].at = "page" /\ UNCHANGED <<page, log>>
      /\ fetches' = [fetches EXCEPT ![i] = Idle]
      /\ \/ P = {} /\ UNCHANGED pageVars
         \/ page = "firehose" /\ FirehoseShows(P)
         \/ page = "chat" /\ ChatShows(P)
  BY DEF Handle
<1>2. P \subseteq 1..Len(log) /\ Len(log) \in Nat
  BY <1>1 DEF FeedShape
<1>3. P # {} => Newest(P) \in P
  BY <1>2, NewestOfBounded
<1> HIDE DEF P
<1>4. CASE P = {} /\ UNCHANGED pageVars
  BY <1>1, <1>4 DEF pageVars, P
<1>5. CASE \/ page = "firehose" /\ FirehoseShows(P)
           \/ page = "chat" /\ ChatShows(P)
  <2>1. P # {} /\ cursor' = Newest(P) /\ rendered' = rendered \cup P
    BY <1>5, Zenon DEF FirehoseShows, ChatShows
  <2> QED
    BY <1>1, <1>3, <1>5, <2>1, Zenon DEF P
<1> QED
  BY <1>1, <1>4, <1>5

\* An answer holds no packet the log lacks.
LEMMA SelectedAreLogged ==
  \A since : Select(since) \subseteq DOMAIN log
BY DEF Select, Newer

\* The steps that neither bring a packet nor show one ask, answer, refuse or drop a
\* request.
RequestStep(i) ==
  Serve(i) \/ Refuse(i) \/ Poll(i) \/ HandleError(i) \/ Fail(i) \/ ShowMap(i)

LEMMA RequestSteps ==
  ASSUME FeedShape, NEW i \in Slots, RequestStep(i)
  PROVE  /\ UNCHANGED <<page, log, list, rendered>>
         /\ page # "map" => UNCHANGED cursor
         /\ \E f : /\ fetches' = [fetches EXCEPT ![i] = f]
                   /\ \/ f = Idle \/ f.at = "error"
                      \/ f = Asked(cursor, FALSE)
                      \/ page = "map" /\ f = Asked(NoCursor, TRUE)
                      \/ /\ fetches[i].at = "server"
                         /\ f = Answered(Select(fetches[i].since), fetches[i].first)
<1>1. CASE Serve(i)
  BY <1>1 DEF Serve, pageVars, FeedShape
<1>2. CASE Poll(i)
  BY <1>2 DEF Poll, pageVars
<1>3. CASE Refuse(i)
  <2>1. Refused(fetches[i].first).at = "error"
    BY DEF Refused
  <2> QED
    BY <1>3, <2>1 DEF Refuse, pageVars
<1>4. CASE HandleError(i)
  BY <1>4 DEF HandleError
<1>5. CASE Fail(i)
  BY <1>5 DEF Fail, pageVars
<1>6. CASE ShowMap(i)
  BY <1>6 DEF ShowMap, pageVars
<1> QED
  BY <1>1, <1>2, <1>3, <1>4, <1>5, <1>6 DEF RequestStep

LEMMA FeedShapeStep == FeedShape /\ [Next]_vars => FeedShape'
<1> SUFFICES ASSUME FeedShape, [Next]_vars PROVE FeedShape'
  OBVIOUS
<1> USE DEF FeedShape
<1>1. CASE Arrive
  <2>1. PICK numbered \in BOOLEAN : log' = Append(log, numbered)
    BY <1>1 DEF Arrive
  <2>2. UNCHANGED <<rendered, fetches>>
    BY <1>1 DEF Arrive, pageVars
  <2>3. log' \in Seq(BOOLEAN) /\ DOMAIN log \subseteq DOMAIN log'
    BY <2>1
  <2> QED
    BY <2>2, <2>3
<1>2. CASE UNCHANGED <<log, rendered, fetches>>
  BY <1>2
<1>3. ASSUME NEW i \in Slots, RequestStep(i) PROVE FeedShape'
  <2>1. UNCHANGED <<log, rendered>>
    BY <1>3, RequestSteps
  <2>2. PICK f : /\ fetches' = [fetches EXCEPT ![i] = f]
                 /\ f.at = "page" => f.packets \subseteq DOMAIN log
    BY <1>3, RequestSteps, SelectedAreLogged DEF Idle, Asked, Answered
  <2> QED
    BY <2>1, <2>2
<1>4. ASSUME NEW i \in Slots, Handle(i) PROVE FeedShape'
  <2>1. UNCHANGED log /\ fetches[i].at = "page" /\ fetches' = [fetches EXCEPT ![i] = Idle]
    BY <1>4 DEF Handle
  <2>2. rendered' \subseteq rendered \cup fetches[i].packets
    BY <1>4, Zenon DEF Handle, FirehoseShows, ChatShows, MapShows, pageVars
  <2> QED
    BY <2>1, <2>2 DEF Idle
<1> QED
  BY <1>1, <1>2, <1>3, <1>4 DEF Next, RequestStep, vars, pageVars, TogglePause, HideMap

\* An answer to a request from a packet that was shown leaves no gap: what is older
\* was shown, and what is newer fits.
LEMMA SelectLeavesNoGap ==
  ASSUME FeedShape, ShownFromTheStart, RestFitsAnAnswer,
         NEW since, since = NoCursor \/ since \in rendered,
         NEW p \in Select(since)
  PROVE  ~log[p] /\ \A k \in 1..p : log[k] \/ k \in rendered \cup Select(since)
<1>1. ~log[p] /\ p \in 1..Len(log) /\ Len(log) \in Nat
  BY DEF Select, Newer, FeedShape
<1> SUFFICES ASSUME NEW k \in 1..p, ~log[k], k \notin rendered
             PROVE  k \in Select(since)
  BY <1>1
<1>2. k \in 1..Len(log)
  BY <1>1
<1>3. k \in Newer(since)
  <2>1. since \in rendered => since \in 1..Len(log) /\ ~(k \in 1..since)
    BY DEF ShownFromTheStart, FeedShape
  <2> QED
    BY <1>2, <2>1 DEF Newer, FeedShape
<1>4. PICK b \in rendered \cup {0} : Len(log) <= b + Limit
  BY DEF RestFitsAnAnswer
<1>5. b \in Nat /\ k > b
  BY <1>2, <1>4 DEF ShownFromTheStart, FeedShape
<1> DEFINE later == {j \in Newer(since) : j > k}
<1>6. later \in SUBSET ((k+1)..Len(log))
  BY <1>2 DEF Newer, FeedShape
<1>7. IsFiniteSet((k+1)..Len(log)) /\ Cardinality((k+1)..Len(log)) = Len(log) - k
  BY <1>2, FS_Interval
<1> HIDE DEF later
<1>8. IsFiniteSet(later) /\ Cardinality(later) <= Len(log) - k
  BY <1>6, <1>7, FS_Subset
<1>9. Cardinality(later) \in Nat
  BY <1>8, FS_CardinalityType
<1>10. Cardinality(later) < Limit
  BY <1>2, <1>4, <1>5, <1>8, <1>9, FeedAssumption
<1> QED
  BY <1>3, <1>10 DEF Select, later

\* The page, its cursor and the packets it has shown.
Lists == page # "map" => CursorIsShown /\ ShownFromTheStart /\ RestFitsAnAnswer

LEMMA ListsStep == FeedInv /\ ~Bursts /\ [Next]_vars => Lists'
<1> SUFFICES ASSUME FeedInv, ~Bursts, [Next]_vars, page' # "map"
             PROVE  CursorIsShown' /\ ShownFromTheStart' /\ RestFitsAnAnswer'
  BY DEF Lists
<1>0. UNCHANGED page
  BY DEF Next, vars, Arrive, TogglePause, HideMap, ShowMap, Serve, Refuse, Poll, Handle,
         HandleError, Fail
<1> USE <1>0 DEF FeedInv
<1>1. CASE Arrive
  <2>1. PICK numbered \in BOOLEAN : log' = Append(log, numbered)
    BY <1>1 DEF Arrive
  <2>2. UNCHANGED <<cursor, rendered>> /\ Unseen < Limit
    BY <1>1 DEF Arrive, pageVars
  <2>3. log \in Seq(BOOLEAN) /\ rendered \subseteq 1..Len(log) /\ Len(log) \in Nat
    BY DEF FeedShape
  <2>4. ShownFromTheStart'
    BY <2>1, <2>2, <2>3 DEF ShownFromTheStart
  <2>5. RestFitsAnAnswer'
    <3>1. CASE cursor = NoCursor
      BY <1>0, <2>1, <2>2, <2>3, <3>1, FeedAssumption DEF Unseen, RestFitsAnAnswer
    <3>2. CASE cursor \in rendered
      <4>1. cursor # NoCursor /\ cursor \in Nat
        BY <2>3, <3>2, FeedAssumption
      <4>2. Len(log) - cursor < Limit
        BY <1>0, <2>2, <4>1 DEF Unseen
      <4>3. Len(log') <= cursor + Limit
        BY <2>1, <2>3, <4>1, <4>2, FeedAssumption
      <4> QED
        BY <2>2, <3>2, <4>3 DEF RestFitsAnAnswer
    <3> QED
      BY <3>1, <3>2 DEF CursorIsShown
  <2> QED
    BY <2>2, <2>4, <2>5 DEF CursorIsShown
<1>2. CASE UNCHANGED <<log, cursor, rendered>>
  BY <1>2 DEF CursorIsShown, ShownFromTheStart, RestFitsAnAnswer
<1>3. ASSUME NEW i \in Slots, Handle(i)
      PROVE  CursorIsShown' /\ ShownFromTheStart' /\ RestFitsAnAnswer'
  <2> DEFINE P == fetches[i].packets
  <2>1. /\ fetches[i].at = "page" /\ UNCHANGED log
        /\ rendered' = rendered \cup P
        /\ \/ P = {} /\ cursor' = cursor
           \/ P # {} /\ cursor' = Newest(P)
        /\ cursor' = cursor \/ cursor' \in P
    BY <1>3, AnswerIsShown
  <2>2. P \subseteq 1..Len(log) /\ \A p \in P : \A k \in 1..p : log[k] \/ k \in rendered \cup P
    BY <2>1 DEF FeedShape, AnswersLeaveNoGap
  <2> HIDE DEF P
  <2>3. CursorIsShown'
    <3>1. CASE cursor' \in P
      <4>1. cursor' # NoCursor
        BY <2>2, <3>1, FeedAssumption
      <4> QED
        BY <2>1, <3>1, <4>1 DEF CursorIsShown
    <3>2. CASE cursor' = cursor /\ P = {}
      BY <2>1, <3>2 DEF CursorIsShown
    <3> QED
      BY <2>1, <2>2, <3>1, <3>2, NewestOfBounded DEF FeedShape
  <2>4. ShownFromTheStart'
    BY <2>1, <2>2, Zenon DEF ShownFromTheStart
  <2>5. RestFitsAnAnswer'
    BY <2>1, Zenon DEF RestFitsAnAnswer
  <2> QED
    BY <2>3, <2>4, <2>5
<1>4. ASSUME NEW i \in Slots, RequestStep(i)
      PROVE  UNCHANGED <<log, cursor, rendered>>
  BY <1>4, RequestSteps
<1> QED
  BY <1>1, <1>2, <1>3, <1>4 DEF Next, RequestStep, vars, pageVars, TogglePause, HideMap

Requests == page # "map" => RequestsFromShown /\ AnswersLeaveNoGap

LEMMA RequestsStep == FeedInv /\ [Next]_vars => Requests'
<1> SUFFICES ASSUME FeedInv, [Next]_vars, page' # "map"
             PROVE  RequestsFromShown' /\ AnswersLeaveNoGap'
  BY DEF Requests
<1>0. UNCHANGED page
  BY DEF Next, vars, Arrive, TogglePause, HideMap, ShowMap, Serve, Refuse, Poll, Handle,
         HandleError, Fail
<1> USE <1>0 DEF FeedInv
<1>1. CASE Arrive
  <2>1. PICK numbered \in BOOLEAN : log' = Append(log, numbered)
    BY <1>1 DEF Arrive
  <2>2. UNCHANGED <<rendered, fetches>>
    BY <1>1 DEF Arrive, pageVars
  <2>3. \A k \in DOMAIN log : log'[k] = log[k]
    BY <2>1 DEF FeedShape
  <2>4. \A p \in DOMAIN log : \A k \in 1..p : k \in DOMAIN log
    BY DEF FeedShape
  <2> QED
    BY <2>2, <2>3, <2>4 DEF RequestsFromShown, AnswersLeaveNoGap, FeedShape
<1>2. CASE UNCHANGED <<log, rendered, fetches>>
  BY <1>2 DEF RequestsFromShown, AnswersLeaveNoGap
<1>3. ASSUME NEW i \in Slots, Handle(i) PROVE RequestsFromShown' /\ AnswersLeaveNoGap'
  <2>1. /\ UNCHANGED log /\ fetches' = [fetches EXCEPT ![i] = Idle]
        /\ rendered \subseteq rendered'
    BY <1>3, AnswerIsShown
  <2>2. \A j \in Slots : fetches'[j] = fetches[j] \/ fetches'[j].at = "idle"
    BY <2>1 DEF FeedShape, Idle
  <2>3. RequestsFromShown'
    BY <2>1, <2>2 DEF RequestsFromShown
  <2>4. AnswersLeaveNoGap'
    BY <2>1, <2>2 DEF AnswersLeaveNoGap
  <2> QED
    BY <2>3, <2>4
<1>4. ASSUME NEW i \in Slots, RequestStep(i)
      PROVE  RequestsFromShown' /\ AnswersLeaveNoGap'
  <2>1. UNCHANGED <<log, rendered>>
    BY <1>4, RequestSteps
  <2>2. PICK f : /\ fetches' = [fetches EXCEPT ![i] = f]
                 /\ \/ f = Idle \/ f.at = "error"
                    \/ f = Asked(cursor, FALSE)
                    \/ /\ fetches[i].at = "server"
                       /\ f = Answered(Select(fetches[i].since), fetches[i].first)
    BY <1>4, RequestSteps
  <2>3. f.at = "server" => f.since = NoCursor \/ f.since \in rendered
    BY <2>2 DEF Idle, Asked, Answered, CursorIsShown
  <2>4. f.at = "page" =>
          \A p \in f.packets : ~log[p] /\ \A k \in 1..p : log[k] \/ k \in rendered \cup f.packets
    <3> SUFFICES ASSUME f.at = "page"
                 PROVE  \A p \in f.packets :
                          ~log[p] /\ \A k \in 1..p : log[k] \/ k \in rendered \cup f.packets
      OBVIOUS
    <3>1. fetches[i].at = "server" /\ f.packets = Select(fetches[i].since)
      BY <2>2 DEF Idle, Asked, Answered
    <3>2. fetches[i].since = NoCursor \/ fetches[i].since \in rendered
      BY <3>1 DEF RequestsFromShown
    <3> QED
      BY <3>1, <3>2, SelectLeavesNoGap, Zenon
  <2>5. \A j \in Slots : fetches'[j] = fetches[j] \/ fetches'[j] = f
    BY <2>2 DEF FeedShape
  <2>6. RequestsFromShown'
    BY <2>1, <2>3, <2>5 DEF RequestsFromShown
  <2>7. AnswersLeaveNoGap'
    BY <2>1, <2>4, <2>5 DEF AnswersLeaveNoGap
  <2> QED
    BY <2>6, <2>7
<1> QED
  BY <1>1, <1>2, <1>3, <1>4 DEF Next, RequestStep, vars, pageVars, TogglePause, HideMap

LEMMA FeedInvHolds == ~Bursts /\ Spec => []FeedInv
<1> SUFFICES ASSUME ~Bursts PROVE Spec => []FeedInv
  OBVIOUS
<1>1. FeedInv /\ [Next]_vars => FeedInv'
  BY FeedShapeStep, ListsStep, RequestsStep DEF FeedInv, Lists, Requests
<1> QED
  BY <1>1, FeedInit, PTL DEF Spec

\* However many requests are under way, fail or are answered out of order, a list
\* has no gap, if no more than an answer's worth of packets comes between two polls.
THEOREM FeedLeavesNoGap == ~Bursts /\ Spec => []NoGap
<1>1. FeedInv => NoGap
  BY DEF FeedInv, FeedShape, ShownFromTheStart, NoGap
<1> QED
  BY <1>1, FeedInvHolds, PTL

-----------------------------------------------------------------------------
(* The order of the list.                                                   *)

Descending(s) == \A a, b \in DOMAIN s : a < b => s[a] > s[b]

LEMMA PutOnTop ==
  ASSUME NEW n \in Nat, n # 0, NEW U \in SUBSET Nat, NEW V \in SUBSET U,
         NEW s \in [1..(n - 1) -> V], Descending(s),
         NEW top \in U, \A v \in V : v < top
  PROVE  \E r \in [1..n -> U] : Descending(r)
<1> DEFINE r == [i \in 1..n |-> IF i = 1 THEN top ELSE s[i - 1]]
<1>1. \A i \in 1..n : i # 1 => i - 1 \in 1..(n - 1) /\ s[i - 1] \in V
  OBVIOUS
<1>2. r \in [1..n -> U]
  BY <1>1
<1>3. ASSUME NEW a \in 1..n, NEW b \in 1..n, a < b PROVE r[a] > r[b]
  <2>1. b # 1 /\ r[b] = s[b - 1] /\ s[b - 1] \in V
    BY <1>1, <1>3
  <2>2. CASE a = 1
    BY <2>1, <2>2
  <2>3. CASE a # 1
    <3>1. r[a] = s[a - 1] /\ a - 1 < b - 1
      BY <1>3, <2>3
    <3> QED
      BY <1>1, <2>1, <2>3, <3>1 DEF Descending
  <2> QED
    BY <2>2, <2>3
<1> QED
  BY <1>2, <1>3 DEF Descending

\* A finite set of numbers can be put in order: the least that could not be would
\* be in order with its newest member on top of the others.
LEMMA NewestFirstDescends ==
  ASSUME NEW S \in SUBSET Nat, NEW n \in Nat, \A s \in S : s <= n
  PROVE  /\ NewestFirst(S) \in [1..Cardinality(S) -> S] /\ Cardinality(S) \in Nat
         /\ Descending(NewestFirst(S))
<1> DEFINE Sorted(U) == \E s \in [1..Cardinality(U) -> U] : Descending(s)
           Unsorted == {U \in FiniteSubsetsOf(S) : ~Sorted(U)}
<1>1. IsFiniteSet(S) /\ Cardinality(S) \in Nat
  BY FS_BoundedSetOfNaturals, FS_CardinalityType
<1>2. Unsorted = {}
  <2> SUFFICES ASSUME Unsorted # {} PROVE FALSE
    OBVIOUS
  <2>1. PICK U \in Unsorted : \A V \in Unsorted : <<V, U>> \notin StrictSubsetOrdering(S)
    <3>1. Unsorted \subseteq FiniteSubsetsOf(S)
      OBVIOUS
    <3> HIDE DEF Unsorted
    <3> QED
      BY <3>1, FS_StrictSubsetOrderingWellFounded, WFMin, Zenon
  <2>2. IsFiniteSet(U) /\ U \in SUBSET S /\ ~Sorted(U)
    BY DEF FiniteSubsetsOf
  <2>3. U # {}
    <3> SUFFICES ASSUME U = {} PROVE FALSE
      OBVIOUS
    <3>1. Cardinality(U) = 0
      BY FS_EmptySet
    <3>2. <<>> \in [1..Cardinality(U) -> U] /\ Descending(<<>>)
      BY <3>1 DEF Descending
    <3> QED
      BY <2>2, <3>2
  <2>4. Newest(U) \in U /\ \A s \in U : s <= Newest(U)
    BY <2>2, <2>3, NewestOfBounded
  <2> DEFINE top == Newest(U)
             V == U \ {top}
  <2>5. IsFiniteSet(V) /\ Cardinality(V) = Cardinality(U) - 1 /\ Cardinality(V) \in Nat
        /\ Cardinality(U) \in Nat
    BY <2>2, <2>4, FS_RemoveElement, FS_CardinalityType
  <2>6. V \in FiniteSubsetsOf(S) /\ <<V, U>> \in StrictSubsetOrdering(S)
    BY <2>2, <2>4, <2>5 DEF FiniteSubsetsOf, StrictSubsetOrdering
  <2>7. Sorted(V)
    BY <2>1, <2>6
  <2>8. PICK s \in [1..Cardinality(V) -> V] : Descending(s)
    BY <2>7
  <2>9. V \in SUBSET U /\ top \in U /\ U \in SUBSET Nat
    BY <2>2, <2>4
  <2>10. \A v \in V : v \in U /\ v <= top /\ v # top
    BY <2>4
  <2> HIDE DEF V, top
  <2>11. \A v \in V : v < top
    BY <2>9, <2>10
  <2>12. s \in [1..(Cardinality(U) - 1) -> V] /\ Cardinality(U) # 0
    BY <2>5
  <2>13. \E r \in [1..Cardinality(U) -> U] : Descending(r)
    BY <2>5, <2>8, <2>9, <2>11, <2>12, PutOnTop
  <2> QED
    BY <2>2, <2>13
<1>3. \E s \in [1..Cardinality(S) -> S] : Descending(s)
  BY <1>1, <1>2 DEF FiniteSubsetsOf
<1> QED
  BY <1>1, <1>3, Zenon DEF NewestFirst, Descending

\* The rows are packets that were shown, the newest on top.
RowsInOrder ==
  /\ list \in Seq(Nat) /\ \A a \in DOMAIN list : list[a] \in rendered
  /\ Descending(list)

\* The firehose has one request under way, from its newest packet, and what the
\* answer holds it has not shown.
FirehoseInTurn ==
  page = "firehose" =>
    /\ \A i, j \in Slots : fetches[i].at # "idle" /\ fetches[j].at # "idle" => i = j
    /\ cursor # NoCursor => \A b \in rendered : b <= cursor
    /\ \A i \in Slots : fetches[i].at = "server" => fetches[i].since = cursor
    /\ \A i \in Slots : fetches[i].at = "page" => fetches[i].packets \cap rendered = {}

TopInv == RowsInOrder /\ FirehoseInTurn

LEMMA TopInit == Init => TopInv
<1> SUFFICES ASSUME Init PROVE TopInv
  OBVIOUS
<1>1. PICK i \in Slots :
        fetches = [j \in Slots |-> IF j = i THEN Asked(NoCursor, TRUE) ELSE Idle]
  BY Zenon DEF Init
<1>2. \A j \in Slots : /\ fetches[j].at # "page" /\ (fetches[j].at # "idle" => j = i)
                       /\ fetches[j].at = "server" => fetches[j].since = NoCursor
  BY <1>1 DEF Asked, Idle
<1>3. list = <<>> /\ cursor = NoCursor
  BY DEF Init
<1> QED
  BY <1>2, <1>3 DEF TopInv, RowsInOrder, FirehoseInTurn, Descending

\* Newer packets on top of the rows keep them in order.
LEMMA RowsOnTop ==
  ASSUME NEW s \in Seq(Nat), Descending(s), NEW t \in Seq(Nat), Descending(t),
         \A a \in DOMAIN s : \A b \in DOMAIN t : s[a] > t[b]
  PROVE  s \o t \in Seq(Nat) /\ Descending(s \o t)
<1> DEFINE r == s \o t
<1>1. r \in Seq(Nat) /\ Len(r) = Len(s) + Len(t) /\ Len(s) \in Nat /\ Len(t) \in Nat
      /\ DOMAIN s = 1..Len(s) /\ DOMAIN t = 1..Len(t) /\ DOMAIN r = 1..Len(r)
  OBVIOUS
<1>2. \A a \in 1..Len(r) : \/ a \in DOMAIN s /\ r[a] = s[a]
                           \/ a > Len(s) /\ a - Len(s) \in DOMAIN t /\ r[a] = t[a - Len(s)]
  OBVIOUS
<1> HIDE DEF r
<1>3. ASSUME NEW a \in 1..Len(r), NEW b \in 1..Len(r), a < b PROVE r[a] > r[b]
  <2>1. CASE b <= Len(s)
    <3>1. a \in DOMAIN s /\ b \in DOMAIN s /\ ~(a > Len(s)) /\ ~(b > Len(s))
      BY <1>1, <1>3, <2>1
    <3> QED
      BY <1>2, <1>3, <3>1 DEF Descending
  <2>2. CASE a <= Len(s) /\ b > Len(s)
    <3>1. ~(a > Len(s)) /\ b \notin DOMAIN s
      BY <1>1, <2>2
    <3> QED
      BY <1>2, <3>1
  <2>3. CASE a > Len(s)
    <3>1. a \notin DOMAIN s /\ b \notin DOMAIN s /\ a - Len(s) < b - Len(s)
      BY <1>1, <1>3, <2>3
    <3>2. r[a] = t[a - Len(s)] /\ r[b] = t[b - Len(s)]
          /\ a - Len(s) \in DOMAIN t /\ b - Len(s) \in DOMAIN t
      BY <1>2, <3>1
    <3> QED
      BY <3>1, <3>2 DEF Descending
  <2> QED
    BY <1>1, <2>1, <2>2, <2>3
<1> QED
  BY <1>1, <1>3 DEF Descending, r

\* What an answer has that the page has not shown is newer than what it has.
LEMMA UnshownIsNewer ==
  ASSUME FeedInv, page # "map", NEW i \in Slots, fetches[i].at = "page",
         NEW p \in fetches[i].packets, p \notin rendered, NEW b \in rendered
  PROVE  p > b
<1>1. ~log[p] /\ p \in 1..Len(log) /\ b \in 1..Len(log) /\ Len(log) \in Nat
  BY DEF FeedInv, FeedShape, AnswersLeaveNoGap
<1>2. ~(p \in 1..b)
  BY <1>1 DEF FeedInv, ShownFromTheStart
<1> QED
  BY <1>1, <1>2

\* The packets the page puts on top of its rows.
LEMMA ShownOnTop ==
  ASSUME FeedInv, RowsInOrder, page # "map", NEW i \in Slots, fetches[i].at = "page",
         NEW P \in SUBSET fetches[i].packets, P \cap rendered = {}
  PROVE  LET rows == NewestFirst(P) \o list IN
         /\ rows \in Seq(Nat) /\ Descending(rows)
         /\ \A a \in DOMAIN rows : rows[a] \in rendered \cup P
<1>1. P \in SUBSET Nat /\ Len(log) \in Nat /\ \A p \in P : p <= Len(log)
  BY DEF FeedInv, FeedShape
<1> DEFINE s == NewestFirst(P)
<1>2. s \in [1..Cardinality(P) -> P] /\ Cardinality(P) \in Nat /\ Descending(s)
  BY <1>1, NewestFirstDescends
<1> HIDE DEF s
<1>3. s \in Seq(Nat) /\ \A a \in DOMAIN s : s[a] \in P
  <2>1. \A a \in 1..Cardinality(P) : s[a] \in P /\ s[a] \in Nat
    BY <1>1, <1>2
  <2>2. s \in [1..Cardinality(P) -> Nat]
    BY <1>2, <2>1
  <2> QED
    BY <1>2, <2>1, <2>2
<1>4. \A p \in P : \A b \in rendered : p > b
  BY UnshownIsNewer
<1>5. list \in Seq(Nat) /\ Descending(list) /\ \A b \in DOMAIN list : list[b] \in rendered
  BY DEF RowsInOrder
<1>6. s \o list \in Seq(Nat) /\ Descending(s \o list)
  BY <1>2, <1>3, <1>4, <1>5, RowsOnTop
<1>7. \A a \in DOMAIN (s \o list) : (s \o list)[a] \in rendered \cup P
  <2>1. DOMAIN s = 1..Len(s) /\ DOMAIN list = 1..Len(list) /\ Len(s) \in Nat
        /\ Len(list) \in Nat
    BY <1>3, <1>5
  <2> SUFFICES ASSUME NEW a \in 1..(Len(s) + Len(list))
               PROVE  (s \o list)[a] \in rendered \cup P
    BY <1>3, <1>5, <2>1
  <2>2. CASE a \in DOMAIN s
    BY <1>3, <1>5, <2>1, <2>2
  <2>3. CASE a > Len(s)
    <3>1. a - Len(s) \in DOMAIN list /\ (s \o list)[a] = list[a - Len(s)]
      BY <1>3, <1>5, <2>1, <2>3
    <3> QED
      BY <1>5, <3>1
  <2> QED
    BY <2>1, <2>2, <2>3
<1> QED
  BY <1>6, <1>7 DEF s

LEMMA RowsStep == FeedInv /\ TopInv /\ [Next]_vars => RowsInOrder'
<1> SUFFICES ASSUME FeedInv, TopInv, [Next]_vars PROVE RowsInOrder'
  OBVIOUS
<1> USE DEF TopInv
<1>1. CASE UNCHANGED list /\ rendered \subseteq rendered'
  BY <1>1 DEF RowsInOrder, Descending
<1>2. ASSUME NEW i \in Slots, Handle(i), page # "map",
             fetches[i].packets # {}
      PROVE  RowsInOrder'
  <2> DEFINE P == fetches[i].packets
             rows(Q) == NewestFirst(Q) \o list
  <2>1. /\ fetches[i].at = "page" /\ rendered' = rendered \cup P
        /\ \/ page = "firehose" /\ FirehoseShows(P)
           \/ page = "chat" /\ ChatShows(P)
    BY <1>2, AnswerIsShown DEF FeedInv
  <2>2. ASSUME NEW Q \in SUBSET P, Q \cap rendered = {}
        PROVE  /\ rows(Q) \in Seq(Nat) /\ Descending(rows(Q))
               /\ \A a \in DOMAIN rows(Q) : rows(Q)[a] \in rendered'
    BY <1>2, <2>1, <2>2, ShownOnTop
  <2>3. CASE page = "chat" /\ ChatShows(P)
    <3>1. list' = rows(P \ rendered)
      BY <2>3 DEF ChatShows
    <3> HIDE DEF P, rows
    <3>2. P \ rendered \in SUBSET P /\ (P \ rendered) \cap rendered = {}
      OBVIOUS
    <3> QED
      BY <2>2, <3>1, <3>2 DEF RowsInOrder, Descending
  <2>4. CASE page = "firehose" /\ FirehoseShows(P)
    <3>1. list' = IF Len(rows(P)) > Capacity THEN SubSeq(rows(P), 1, Capacity) ELSE rows(P)
      BY <2>4 DEF FirehoseShows
    <3>2. P \cap rendered = {}
      BY <2>1, <2>4 DEF FirehoseInTurn
    <3> HIDE DEF P, rows
    <3>3. /\ rows(P) \in Seq(Nat) /\ Descending(rows(P))
          /\ \A a \in DOMAIN rows(P) : rows(P)[a] \in rendered'
      BY <2>2, <3>2
    <3>4. CASE list' = rows(P)
      BY <3>3, <3>4 DEF RowsInOrder, Descending
    <3>5. CASE Len(rows(P)) > Capacity /\ list' = SubSeq(rows(P), 1, Capacity)
      <4> DEFINE all == rows(P)
      <4>1. Capacity \in Nat /\ Capacity < Len(all) /\ all \in Seq(Nat)
        BY <3>3, <3>5, FeedAssumption
      <4>2. list' = SubSeq(all, 1, Capacity)
        BY <3>5
      <4>3. \A a \in DOMAIN all : all[a] \in rendered'
        BY <3>3
      <4>4. \A a, b \in DOMAIN all : a < b => all[a] > all[b]
        BY <3>3 DEF Descending
      <4> HIDE DEF all
      <4>5. list' \in Seq(Nat) /\ DOMAIN list' = 1..Capacity /\ 1..Capacity \subseteq DOMAIN all
            /\ \A a \in 1..Capacity : list'[a] = all[a]
        BY <4>1, <4>2
      <4> QED
        BY <4>3, <4>4, <4>5 DEF RowsInOrder, Descending
    <3> QED
      BY <3>1, <3>4, <3>5
  <2> QED
    BY <2>1, <2>3, <2>4
<1>3. ASSUME NEW i \in Slots, Handle(i) PROVE RowsInOrder'
  <2>1. CASE page = "map"
    BY <1>1, <1>3, <2>1, Zenon DEF Handle, MapShows, pageVars
  <2>2. CASE page # "map" /\ fetches[i].packets = {}
    <3>1. UNCHANGED list /\ rendered' = rendered \cup fetches[i].packets
      BY <1>3, <2>2, AnswerIsShown DEF FeedInv
    <3> QED
      BY <1>1, <3>1
  <2> QED
    BY <1>2, <1>3, <2>1, <2>2
<1>4. ASSUME NEW i \in Slots, RequestStep(i) PROVE RowsInOrder'
  BY <1>1, <1>4, RequestSteps DEF FeedInv
<1> QED
  BY <1>1, <1>3, <1>4 DEF Next, RequestStep, vars, pageVars, Arrive, TogglePause, HideMap

\* An answer to the firehose's one request holds only packets it has not shown.
LEMMA TurnHandled ==
  ASSUME FeedInv, TopInv, page = "firehose", NEW i \in Slots, Handle(i)
  PROVE  FirehoseInTurn'
<1> DEFINE P == fetches[i].packets
<1>1. /\ fetches[i].at = "page" /\ fetches' = [fetches EXCEPT ![i] = Idle]
      /\ rendered' = rendered \cup P
      /\ \/ P = {} /\ cursor' = cursor
         \/ P # {} /\ cursor' = Newest(P)
  BY AnswerIsShown DEF FeedInv
<1>2. P \cap rendered = {} /\ \A j \in Slots : fetches[j].at # "idle" => j = i
  BY <1>1 DEF TopInv, FirehoseInTurn
<1>3. \A j \in Slots : fetches'[j].at = "idle"
  BY <1>1, <1>2 DEF FeedInv, FeedShape, Idle
<1>4. P \subseteq 1..Len(log) /\ rendered \subseteq 1..Len(log) /\ Len(log) \in Nat
  BY <1>1 DEF FeedInv, FeedShape
<1>5. \A p \in P : \A b \in rendered : p > b
  BY <1>1, <1>2, UnshownIsNewer
<1>6. cursor' # NoCursor => \A b \in rendered' : b <= cursor'
  <2>1. CASE P = {} /\ cursor' = cursor
    BY <1>1, <2>1 DEF TopInv, FirehoseInTurn
  <2>2. CASE P # {} /\ cursor' = Newest(P)
    <3> HIDE DEF P
    <3>1. P \in SUBSET Nat /\ \A p \in P : p <= Len(log)
      BY <1>4
    <3>2. Newest(P) \in P /\ \A p \in P : p <= Newest(P)
      BY <1>4, <2>2, <3>1, NewestOfBounded
    <3>3. PICK n \in Nat : n = Newest(P)
      BY <3>1, <3>2
    <3>4. \A b \in rendered : n > b
      BY <1>5, <3>2, <3>3, Zenon
    <3>5. \A b \in rendered : b <= n
      <4>1. \A b \in rendered : b \in Nat
        BY <1>4
      <4> QED
        BY <3>4, <4>1
    <3> QED
      BY <1>1, <2>2, <3>2, <3>3, <3>5
  <2> QED
    BY <1>1, <2>1, <2>2
<1> QED
  BY <1>3, <1>6 DEF FirehoseInTurn

LEMMA TurnStep ==
  FeedInv /\ TopInv /\ "firehose" \notin Slow /\ [Next]_vars => FirehoseInTurn'
<1> SUFFICES ASSUME FeedInv, TopInv, "firehose" \notin Slow, [Next]_vars,
                    page' = "firehose"
             PROVE  FirehoseInTurn'
  BY DEF FirehoseInTurn
<1>0. page = "firehose"
  BY DEF Next, vars, Arrive, TogglePause, HideMap, ShowMap, Serve, Refuse, Poll, Handle,
         HandleError, Fail
<1> USE DEF TopInv
<1>1. CASE UNCHANGED <<cursor, rendered, fetches>>
  BY <1>0, <1>1 DEF FirehoseInTurn
<1>2. ASSUME NEW i \in Slots, Handle(i) PROVE FirehoseInTurn'
  BY <1>0, <1>2, TurnHandled
<1>3. ASSUME NEW i \in Slots, UNCHANGED <<cursor, rendered>>,
             NEW f, fetches' = [fetches EXCEPT ![i] = f],
             f.at # "idle" => \A j \in Slots : fetches[j].at # "idle" => j = i,
             f.at = "server" => f.since = cursor,
             f.at = "page" => f.packets \cap rendered = {}
      PROVE  FirehoseInTurn'
  <2>1. \A j \in Slots : fetches'[j] = IF j = i THEN f ELSE fetches[j]
    BY <1>3 DEF FeedInv, FeedShape
  <2> QED
    BY <1>0, <1>3, <2>1 DEF FirehoseInTurn
<1>4. ASSUME NEW i \in Slots, Poll(i) PROVE FirehoseInTurn'
  <2>1. \A j \in Slots : fetches[j].at = "idle"
    BY <1>0, <1>4 DEF Poll, Idle
  <2>2. UNCHANGED <<cursor, rendered>> /\ fetches' = [fetches EXCEPT ![i] = Asked(cursor, FALSE)]
    BY <1>4 DEF Poll, pageVars
  <2>3. Asked(cursor, FALSE).at = "server" /\ Asked(cursor, FALSE).since = cursor
    BY DEF Asked
  <2> QED
    BY <1>3, <2>1, <2>2, <2>3
<1>5. ASSUME NEW i \in Slots, Serve(i) PROVE FirehoseInTurn'
  <2> DEFINE f == Answered(Select(fetches[i].since), fetches[i].first)
  <2>1. /\ fetches[i].at = "server" /\ UNCHANGED <<cursor, rendered>>
        /\ fetches' = [fetches EXCEPT ![i] = f]
    BY <1>5 DEF Serve, pageVars
  <2>2. fetches[i].since = cursor /\ \A j \in Slots : fetches[j].at # "idle" => j = i
    BY <1>0, <2>1 DEF FirehoseInTurn
  <2>3. Select(cursor) \cap rendered = {}
    <3>1. CASE cursor = NoCursor
      BY <1>0, <3>1 DEF FeedInv, CursorIsShown
    <3>2. CASE cursor # NoCursor
      <4>1. cursor \in Nat /\ rendered \subseteq Nat
        BY <1>0, <3>2 DEF FeedInv, FeedShape, CursorIsShown
      <4>2. \A b \in rendered : b <= cursor
        BY <1>0, <3>2 DEF FirehoseInTurn
      <4>3. \A b \in rendered : ~(b > cursor)
        BY <4>1, <4>2
      <4>4. \A b \in Select(cursor) : b > cursor
        BY <3>2, Zenon DEF Select, Newer
      <4> QED
        BY <4>3, <4>4
    <3> QED
      BY <3>1, <3>2
  <2>4. f.at = "page" /\ f.packets \cap rendered = {}
    BY <2>2, <2>3 DEF Answered
  <2> HIDE DEF f
  <2> QED
    BY <1>3, <2>1, <2>2, <2>4
<1>6. ASSUME NEW i \in Slots, Fail(i) \/ HandleError(i) PROVE FirehoseInTurn'
  <2>1. UNCHANGED <<cursor, rendered>> /\ fetches' = [fetches EXCEPT ![i] = Idle]
    BY <1>0, <1>6 DEF Fail, HandleError, pageVars
  <2> QED
    BY <1>3, <2>1 DEF Idle
<1>7. ASSUME NEW i \in Slots, ShowMap(i) PROVE FALSE
  BY <1>0, <1>7 DEF ShowMap
<1>8. ASSUME NEW i \in Slots, Refuse(i) PROVE FirehoseInTurn'
  <2> DEFINE f == Refused(fetches[i].first)
  <2>1. /\ fetches[i].at = "server" /\ UNCHANGED <<cursor, rendered>>
        /\ fetches' = [fetches EXCEPT ![i] = f]
    BY <1>8 DEF Refuse, pageVars
  <2>2. \A j \in Slots : fetches[j].at # "idle" => j = i
    BY <1>0, <2>1 DEF FirehoseInTurn
  <2>3. f.at = "error"
    BY DEF Refused
  <2> HIDE DEF f
  <2> QED
    BY <1>3, <2>1, <2>2, <2>3
<1> QED
  BY <1>1, <1>2, <1>4, <1>5, <1>6, <1>7, <1>8
  DEF Next, vars, pageVars, Arrive, TogglePause, HideMap

\* On a chat, whose requests may overtake each other, and on a firehose, whose
\* answers come within its timer's period, the rows are in the order of import and
\* no packet is there twice, if no more than an answer's worth of packets comes
\* between two polls.
THEOREM FeedKeepsOrder ==
  ~Bursts /\ "firehose" \notin Slow /\ Spec => []NewestOnTop
<1> SUFFICES ASSUME ~Bursts, "firehose" \notin Slow PROVE Spec => []NewestOnTop
  OBVIOUS
<1>1. FeedInv /\ TopInv /\ [Next]_vars => TopInv'
  BY RowsStep, TurnStep DEF TopInv
<1>2. TopInv => NewestOnTop
  BY DEF TopInv, RowsInOrder, Descending, NewestOnTop
<1> QED
  BY <1>1, <1>2, TopInit, FeedInvHolds, PTL DEF Spec
=============================================================================
