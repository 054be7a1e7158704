-------------------------- MODULE OperatorPageProofs --------------------------
(***************************************************************************)
(* What the page shows of its sessions, for any number of sessions, clicks *)
(* and unanswered polls.                                                   *)
(*                                                                         *)
(* A transcript only grows while its session has a tab: the one request    *)
(* that clears it is sent when the tab is closed, and a tab that is opened *)
(* has a fresh id.  So whatever the page holds of a session with a tab, an *)
(* answer on its way, a cached state or painted nodes, is a beginning of   *)
(* that session's transcript (Behind), and answers may overtake each other.*)
(***************************************************************************)
EXTENDS OperatorPage, SequenceTheorems, FiniteSetTheorems, WellFoundedInduction, TLAPS

\* What a session was when it was asked: its transcript has grown since.
Behind(old, s) ==
  /\ Len(old.messages) <= Len(s.messages)
  /\ \A k \in DOMAIN old.messages : old.messages[k] = s.messages[k]

\* The tabs are different sessions, and what is cached of them was true.
TabsInv(p) ==
  /\ p \in Pages /\ IsInjective(p.sessions)
  /\ \A id \in ToSet(p.sessions) :
       p.cache[id].lastState # None => Behind(p.cache[id].lastState, server[id])

\* The chat is what renderedIds says, and that is true of the active session.
ChatInv(p) ==
  /\ p.active \in ToSet(p.sessions)
  /\ p.cache[p.active].rendered = DOMAIN p.painted
  /\ Len(p.painted) <= Len(server[p.active].messages)
  /\ \A k \in DOMAIN p.painted : p.painted[k] = Node(server[p.active], k)
  /\ p.button # None => p.button.at \in Blocks(p.painted)

\* Answers and requests on their way; only closed sessions are reset.
WireInv ==
  /\ posts \subseteq Posts /\ failed \subseteq Posts /\ polls \subseteq Polls
  /\ \A r \in polls : r.session \in ToSet(page.sessions) => Behind(r.state, server[r.session])
  /\ \A q \in posts : q.kind = "reset" => q.session \notin ToSet(page.sessions)

\* A bubble of p stands for a message whose echo p still waits for.
Awaited(p, content) ==
  \/ \E q \in posts \cup failed : q.session = p.active /\ q.kind = "message" /\ q.content = content
  \/ \E k \in DOMAIN server[p.active].messages :
       k > Len(p.painted) /\ server[p.active].messages[k] = [role |-> "user", content |-> content]
BubblesInv(p) == \A content \in p.bubbles : Awaited(p, content)

IInv ==
  /\ server \in [Sessions -> States] /\ clicks \in 0..MaxClicks
  /\ TabsInv(page) /\ ChatInv(page) /\ BubblesInv(page) /\ WireInv

USE SessionsAssumption, BoundsAssumption

-----------------------------------------------------------------------------
(* Numbers.                                                                 *)

\* A non-empty set of numbers has a least one.
LEMMA NatHasLeast ==
  ASSUME NEW T \in SUBSET Nat, T # {}
  PROVE  \E x \in T : \A y \in T : x <= y
<1>1. \E x \in T : \A y \in T : ~(<<y, x>> \in OpToRel(<, Nat))
  BY NatLessThanWellFounded, WFMin
<1>2. ASSUME NEW x \in Nat, NEW y \in Nat, y < x PROVE <<y, x>> \in OpToRel(<, Nat)
  <2>1. <<y, x>> \in Nat \X Nat /\ <<y, x>>[1] < <<y, x>>[2]
    BY <1>2
  <2>2. QED BY <2>1 DEF OpToRel
<1>3. PICK x \in T : \A y \in T : ~(<<y, x>> \in OpToRel(<, Nat))
  BY <1>1, Zenon
<1>4. ASSUME NEW y \in T PROVE x <= y
  <2>1. x \in Nat /\ y \in Nat
    OBVIOUS
  <2>2. ~(y < x)
    BY <1>2, <1>3, <2>1, Zenon
  <2>3. QED BY <2>1, <2>2
<1>5. QED BY <1>4

\* Where the elements of two sequences are when one follows the other.
LEMMA Concatenated ==
  ASSUME NEW S, NEW u \in Seq(S), NEW v \in Seq(S)
  PROVE  /\ u \o v \in Seq(S) /\ Len(u \o v) = Len(u) + Len(v)
         /\ \A k \in 1..Len(u) : (u \o v)[k] = u[k]
         /\ \A n \in 1..Len(v) : (u \o v)[Len(u) + n] = v[n]
<1>1. /\ u \o v \in Seq(S) /\ Len(u \o v) = Len(u) + Len(v)
      /\ \A k \in 1..(Len(u) + Len(v)) : (u \o v)[k] = IF k <= Len(u) THEN u[k] ELSE v[k - Len(u)]
  BY ConcatProperties
<1>2. Len(u) \in Nat /\ Len(v) \in Nat
  OBVIOUS
<1>3. ASSUME NEW k \in 1..Len(u) PROVE (u \o v)[k] = u[k]
  BY <1>1, <1>2
<1>4. ASSUME NEW n \in 1..Len(v) PROVE (u \o v)[Len(u) + n] = v[n]
  <2>1. Len(u) + n \in 1..(Len(u) + Len(v)) /\ ~(Len(u) + n <= Len(u)) /\ Len(u) + n - Len(u) = n
    BY <1>2
  <2>2. (u \o v)[Len(u) + n] = v[Len(u) + n - Len(u)]
    BY <1>1, <2>1
  <2>3. QED BY <2>1, <2>2
<1>5. QED BY <1>1, <1>3, <1>4

\* A non-empty set of numbers below a bound has a last one: its least bound.
LEMMA LastExists ==
  ASSUME NEW T \in SUBSET Nat, T # {}, NEW m \in Nat, \A k \in T : k <= m
  PROVE  (CHOOSE k \in T : \A j \in T : j <= k) \in T
<1> DEFINE Bounds == {n \in Nat : \A k \in T : k <= n}
<1>1. PICK b \in Bounds : \A n \in Bounds : b <= n
  <2>1. m \in Bounds
    OBVIOUS
  <2>2. QED BY <2>1, NatHasLeast
<1>2. b \in T
  <2>1. SUFFICES ASSUME b \notin T PROVE FALSE
    OBVIOUS
  <2>2. \A k \in T : k <= b - 1 /\ k \in Nat
    BY <1>1, <2>1
  <2>3. b - 1 \in Nat
    <3>1. PICK k \in T : TRUE
      OBVIOUS
    <3>2. k \in Nat /\ k <= b - 1 /\ b \in Nat
      BY <1>1, <2>2
    <3>3. QED BY <3>2
  <2>4. b - 1 \in Bounds
    BY <2>2, <2>3
  <2>5. QED BY <1>1, <2>3, <2>4
<1>3. \E k \in T : \A j \in T : j <= k
  BY <1>1, <1>2
<1>4. QED BY <1>3

\* The numbers after l up to m: how many there are, and the n-th of them.
LEMMA NthAfter ==
  ASSUME NEW l \in Nat, NEW m \in Nat, NEW S, S = (1..m) \ (1..l)
  PROVE  /\ Cardinality(S) = IF m > l THEN m - l ELSE 0
         /\ \A n \in 1..Cardinality(S) : Nth(S, n) = l + n
<1>1. S = (l + 1)..m
  OBVIOUS
<1>2. \A a, b \in Int : Cardinality(a..b) = IF a > b THEN 0 ELSE b - a + 1
  BY FS_Interval
<1>3. Cardinality(S) = IF m > l THEN m - l ELSE 0
  <2>1. l + 1 \in Int /\ m \in Int
    OBVIOUS
  <2>2. Cardinality((l + 1)..m) = IF l + 1 > m THEN 0 ELSE m - (l + 1) + 1
    BY <1>2, <2>1, Zenon
  <2>3. Cardinality(S) = IF l + 1 > m THEN 0 ELSE m - (l + 1) + 1
    BY <1>1, <2>2, Zenon
  <2>4. QED BY <2>3
<1>4. ASSUME NEW i \in S PROVE Cardinality({j \in S : j < i}) = i - 1 - l
  <2>1. {j \in S : j < i} = (l + 1)..(i - 1)
    BY <1>1
  <2>2. l + 1 \in Int /\ i - 1 \in Int /\ i > l
    BY <1>1
  <2>3. Cardinality((l + 1)..(i - 1)) = IF l + 1 > i - 1 THEN 0 ELSE i - 1 - (l + 1) + 1
    BY <1>2, <2>2, Zenon
  <2>4. Cardinality({j \in S : j < i}) = IF l + 1 > i - 1 THEN 0 ELSE i - 1 - (l + 1) + 1
    BY <2>1, <2>3, Zenon
  <2>5. QED BY <2>2, <2>4
<1>5. ASSUME NEW n \in 1..Cardinality(S) PROVE Nth(S, n) = l + n
  <2>1. l + n \in S
    BY <1>1, <1>3
  <2>2. ASSUME NEW i \in S PROVE Cardinality({j \in S : j < i}) = n - 1 <=> i = l + n
    <3>1. Cardinality({j \in S : j < i}) = i - 1 - l
      BY <1>4
    <3>2. i \in Int /\ n \in Int
      BY <1>1, <1>3
    <3>3. QED BY <3>1, <3>2
  <2>3. QED BY <2>1, <2>2 DEF Nth
<1>6. QED BY <1>3, <1>5

-----------------------------------------------------------------------------
(* Sessions: what they write only makes their transcripts longer.           *)

Transcripts == Seq([role : Roles, content : Texts])

\* A longer transcript of a session that was asked before.
LEMMA BehindGrows ==
  ASSUME NEW old \in States, NEW s \in States, NEW t \in States, Behind(old, s), Behind(s, t)
  PROVE  Behind(old, t)
<1>1. /\ old.messages \in Transcripts /\ s.messages \in Transcripts /\ t.messages \in Transcripts
  BY DEF States, Transcripts
<1>2. QED BY <1>1 DEF Behind, Transcripts

LEMMA BehindItself == ASSUME NEW s \in States PROVE Behind(s, s)
<1>1. s.messages \in Transcripts
  BY DEF States, Transcripts
<1>2. QED BY <1>1 DEF Behind, Transcripts

\* One message more.
LEMMA Longer ==
  ASSUME NEW s \in States, NEW t, NEW m \in [role : Roles, content : Texts],
         t.messages = Append(s.messages, m)
  PROVE  /\ t.messages \in Transcripts /\ Behind(s, t)
         /\ Len(t.messages) = Len(s.messages) + 1 /\ t.messages[Len(s.messages) + 1] = m
<1>1. s.messages \in Transcripts
  BY DEF States, Transcripts
<1>2. QED BY <1>1 DEF Behind, Transcripts

LEMMA SayGrows ==
  ASSUME NEW s \in States, NEW role \in Roles, NEW content \in Texts, NEW next \in Statuses
  PROVE  /\ Say(s, role, content, next) \in States /\ Say(s, role, content, next).next = next
         /\ Behind(s, Say(s, role, content, next))
<1> DEFINE m == [role |-> role, content |-> content]
           longer == Append(s.messages, m)
           t == [s EXCEPT !.messages = longer, !.next = next]
<1>1. m \in [role : Roles, content : Texts]
  OBVIOUS
<1>2. Say(s, role, content, next) = t
  BY DEF Say
<1> HIDE DEF m
<1>3. t.messages = longer /\ t.next = next
  <2> HIDE DEF longer
  <2>1. QED BY DEF States
<1>4. longer \in Transcripts /\ Behind(s, t)
  <2> HIDE DEF t
  <2>1. QED BY <1>1, <1>3, Longer
<1>5. t \in States
  <2> HIDE DEF longer
  <2>1. QED BY <1>4 DEF States, Transcripts
<1>6. QED BY <1>2, <1>3, <1>4, <1>5

LEMMA SetStatusGrows ==
  ASSUME NEW s \in States, s.next # "none"
  PROVE  SetStatus(s) \in States /\ SetStatus(s).messages = s.messages
  BY DEF States, SetStatus

LEMMA NoteGrows ==
  ASSUME NEW s \in States, NEW status \in Statuses
  PROVE  Note(s, status) \in States /\ Behind(s, Note(s, status))
<1> DEFINE t == Say(s, "other", "", status)
<1>1. t \in States /\ t.next = status /\ Behind(s, t)
  BY SayGrows DEF Roles, Texts
<1>2. status # "none"
  BY DEF Statuses, Busy
<1>3. SetStatus(t) \in States /\ SetStatus(t).messages = t.messages
  <2> HIDE DEF t
  <2>1. QED BY <1>1, <1>2, SetStatusGrows
<1>4. Behind(s, SetStatus(t))
  BY <1>1, <1>3 DEF Behind
<1>5. QED BY <1>3, <1>4 DEF Note

\* What may follow the status of a running turn.
LEMMA AfterGrows ==
  ASSUME NEW s \in States, NEW t \in After(s)
  PROVE  t \in States /\ Behind(s, t)
<1> USE DEF Statuses, Busy
<1>1. CASE s.status = "thinking"
  <2>1. t = Note(s, "complete") \/ t = [s EXCEPT !.status = "calling_tool"]
    BY <1>1 DEF After, AfterThinking
  <2>2. [s EXCEPT !.status = "calling_tool"] \in States /\ Behind(s, [s EXCEPT !.status = "calling_tool"])
    <3>1. [s EXCEPT !.status = "calling_tool"] \in States
          /\ [s EXCEPT !.status = "calling_tool"].messages = s.messages
      BY DEF States
    <3>2. QED BY <3>1, BehindItself DEF Behind
  <2>3. QED BY <2>1, <2>2, NoteGrows
<1>2. CASE s.status = "calling_tool"
  <2> DEFINE u == [s EXCEPT !.appeal = TRUE]
             v == [s EXCEPT !.approval = TRUE, !.status = "needs_approval"]
  <2>1. \/ t = Note(s, "failed") \/ t = Note(s, "thinking")
        \/ t = Say(u, "block", "", "blocked_appealable") \/ t = v
    BY <1>2 DEF After, AfterCall
  <2>2. u \in States /\ u.messages = s.messages /\ v \in States /\ v.messages = s.messages
    BY DEF States
  <2> HIDE DEF u, v
  <2>3. Say(u, "block", "", "blocked_appealable") \in States /\ Behind(s, Say(u, "block", "", "blocked_appealable"))
    <3>1. "block" \in Roles /\ "" \in Texts /\ "blocked_appealable" \in Statuses
      BY DEF Roles, Texts
    <3>2. /\ Say(u, "block", "", "blocked_appealable") \in States
          /\ Behind(u, Say(u, "block", "", "blocked_appealable"))
      BY <2>2, <3>1, SayGrows
    <3>3. QED BY <2>2, <3>2 DEF Behind
  <2>4. Behind(s, v)
    BY <2>2, BehindItself DEF Behind
  <2>5. QED BY <2>1, <2>2, <2>3, <2>4, NoteGrows
<1>3. CASE s.status = "needs_approval"
  <2> DEFINE u == [s EXCEPT !.approval = FALSE]
             longer == Append(s.messages, Waiting)
             v == [s EXCEPT !.messages = longer]
  <2>1. t = Note(u, "calling_tool") \/ t = Note(u, "failed") \/ t = v
    BY <1>3 DEF After, AfterApproval
  <2>2. u \in States /\ u.messages = s.messages
    BY DEF States
  <2>3. v.messages = longer
    <3> HIDE DEF longer
    <3>1. QED BY DEF States
  <2> HIDE DEF u
  <2>4. Waiting \in [role : Roles, content : Texts]
    BY DEF Waiting, Roles, Texts
  <2>5. v.messages \in Transcripts /\ Behind(s, v)
    <3> HIDE DEF v
    <3>1. QED BY <2>3, <2>4, Longer
  <2>6. v \in States
    <3> HIDE DEF longer
    <3>1. QED BY <2>3, <2>5 DEF States, Transcripts
  <2> HIDE DEF v
  <2>7. Behind(s, Note(u, "calling_tool")) /\ Behind(s, Note(u, "failed"))
    BY <2>2, NoteGrows DEF Behind
  <2>8. QED BY <2>1, <2>2, <2>5, <2>6, <2>7, NoteGrows
<1>4. CASE s.status = "appeal_pending"
  <2> DEFINE u == [s EXCEPT !.appeal = FALSE]
  <2>1. t = Note(u, "thinking") \/ t = Note(u, "failed") \/ t = Note(s, "failed")
    BY <1>4 DEF After, AfterAppeal
  <2>2. u \in States /\ u.messages = s.messages
    BY DEF States
  <2> HIDE DEF u
  <2>3. Behind(s, Note(u, "thinking")) /\ Behind(s, Note(u, "failed"))
    BY <2>2, NoteGrows DEF Behind
  <2>4. QED BY <2>1, <2>2, <2>3, NoteGrows
<1>5. QED BY <1>1, <1>2, <1>3, <1>4 DEF After

\* A request that is served; only a reset clears the transcript.
LEMMA ServedGrows ==
  ASSUME NEW s \in States, NEW q \in Posts
  PROVE  Served(s, q) \in States /\ (q.kind # "reset" => Behind(s, Served(s, q)))
<1>1. q.kind \in {"message", "reset", "appeal"} /\ q.content \in Texts
  BY DEF Posts, Texts
<1>2. CASE q.kind = "message"
  <2>1. Served(s, q) = Say(s, "user", q.content, "thinking")
    BY <1>2 DEF Served
  <2>2. QED BY <1>1, <2>1, SayGrows DEF Roles, Statuses, Busy
<1>3. CASE q.kind = "reset"
  BY <1>3 DEF Served, NewSession, States, Statuses
<1>4. CASE q.kind = "appeal"
  <2>1. Served(s, q) = Note(s, "appeal_pending") \/ Served(s, q) = s
    BY <1>4 DEF Served
  <2>2. QED BY <2>1, NoteGrows, BehindItself DEF Statuses, Busy
<1>5. QED BY <1>1, <1>2, <1>3, <1>4

-----------------------------------------------------------------------------
(* Painting a state of the active session.                                  *)

\* The fields of a page that is painted anew.
LEMMA RenderFields ==
  ASSUME NEW p \in Pages, NEW s \in States
  PROVE  LET r == RenderActive(p, s) IN
         /\ r.sessions = p.sessions /\ r.active = p.active /\ r.note = p.note
         /\ r.painted = AppendNew(p, s) /\ r.bubbles = Bubbles(p, s)
         /\ r.status = s.status /\ r.disabled = (s.status \in Busy) /\ r.banner = s.approval
         /\ r.button = Button(p, s)
         /\ DOMAIN r.cache = Sessions
         /\ \A id \in Sessions : /\ r.cache[id].lastState = p.cache[id].lastState
                                 /\ DOMAIN r.cache[id] = {"rendered", "lastState"}
                                 /\ id # p.active => r.cache[id].rendered = p.cache[id].rendered
         /\ r.cache[p.active].rendered = p.cache[p.active].rendered \cup DOMAIN s.messages
  BY DEF RenderActive, Pages, Caches

\* A message of a state is painted as a node.
LEMMA NodeType ==
  ASSUME NEW s \in States, NEW k \in DOMAIN s.messages
  PROVE  Node(s, k) \in Nodes /\ Node(s, k).id = k /\ Node(s, k).kind = s.messages[k].role
<1> DEFINE M == [role : Roles, content : Texts]
<1>1. s.messages \in Seq(M)
  BY DEF States
<1>2. s.messages[k] \in M /\ k \in Nat
  <2> HIDE DEF M
  <2>1. QED BY <1>1
<1>3. QED BY <1>2 DEF Node, Nodes

\* The nodes a state adds are those of the messages after the painted ones.
LEMMA Painting ==
  ASSUME NEW p \in Pages, NEW s \in States, p.cache[p.active].rendered = DOMAIN p.painted
  PROVE  /\ Unseen(p, s) = (1..Len(s.messages)) \ (1..Len(p.painted))
         /\ AppendNew(p, s) \in Seq(Nodes)
         /\ Len(AppendNew(p, s)) = IF Len(s.messages) > Len(p.painted) THEN Len(s.messages) ELSE Len(p.painted)
         /\ \A k \in 1..Len(p.painted) : AppendNew(p, s)[k] = p.painted[k]
         /\ \A k \in 1..Len(s.messages) : k > Len(p.painted) => AppendNew(p, s)[k] = Node(s, k)
<1> DEFINE l == Len(p.painted)
           m == Len(s.messages)
           S == Unseen(p, s)
           new == [n \in 1..Cardinality(S) |-> Node(s, Nth(S, n))]
<1>1. p.painted \in Seq(Nodes) /\ s.messages \in Transcripts
  BY DEF Pages, States, Transcripts
<1>2. l \in Nat /\ m \in Nat /\ DOMAIN p.painted = 1..l /\ DOMAIN s.messages = 1..m
  BY <1>1 DEF Transcripts
<1>3. S = (1..m) \ (1..l)
  BY <1>2 DEF Unseen
<1>4. AppendNew(p, s) = p.painted \o new
  BY DEF AppendNew
<1> HIDE DEF l, m, S
<1>5. /\ Cardinality(S) = IF m > l THEN m - l ELSE 0
      /\ \A n \in 1..Cardinality(S) : Nth(S, n) = l + n
  <2>1. l \in Nat /\ m \in Nat
    BY <1>2
  <2>2. \A T : T = (1..m) \ (1..l) =>
               /\ Cardinality(T) = IF m > l THEN m - l ELSE 0
               /\ \A n \in 1..Cardinality(T) : Nth(T, n) = l + n
    BY <2>1, NthAfter
  <2>3. QED BY <2>2, <1>3, Zenon
<1>6. \A n \in 1..Cardinality(S) : Nth(S, n) = l + n /\ l + n \in DOMAIN s.messages
  BY <1>2, <1>5
<1>7. \A n \in 1..Cardinality(S) : new[n] = Node(s, l + n)
  BY <1>5
<1>8. new \in Seq(Nodes) /\ Len(new) = Cardinality(S)
  <2>1. Cardinality(S) \in Nat
    BY <1>2, <1>5
  <2>2. \A n \in 1..Cardinality(S) : new[n] \in Nodes
    BY <1>6, <1>7, NodeType
  <2>3. new = [n \in 1..Cardinality(S) |-> new[n]]
    OBVIOUS
  <2> HIDE DEF new
  <2>4. QED BY <2>1, <2>2, <2>3
<1> HIDE DEF new
<1>9. /\ p.painted \o new \in Seq(Nodes) /\ Len(p.painted \o new) = l + Len(new)
      /\ \A k \in 1..l : (p.painted \o new)[k] = p.painted[k]
      /\ \A n \in 1..Len(new) : (p.painted \o new)[l + n] = new[n]
  <2> DEFINE old == p.painted
  <2>1. old \in Seq(Nodes) /\ new \in Seq(Nodes) /\ l = Len(old)
    BY <1>1, <1>8 DEF l
  <2> HIDE DEF old
  <2>2. /\ old \o new \in Seq(Nodes) /\ Len(old \o new) = Len(old) + Len(new)
        /\ \A k \in 1..Len(old) : (old \o new)[k] = old[k]
        /\ \A n \in 1..Len(new) : (old \o new)[Len(old) + n] = new[n]
    BY <2>1, Concatenated
  <2>3. /\ old \o new \in Seq(Nodes) /\ Len(old \o new) = l + Len(new)
        /\ \A k \in 1..l : (old \o new)[k] = old[k]
        /\ \A n \in 1..Len(new) : (old \o new)[l + n] = new[n]
    BY <2>1, <2>2
  <2>4. QED BY <2>3 DEF old
<1>10. Len(p.painted \o new) = IF m > l THEN m ELSE l
  BY <1>2, <1>5, <1>8, <1>9
<1>11. ASSUME NEW k \in 1..m, k > l PROVE (p.painted \o new)[k] = Node(s, k)
  <2>1. k - l \in 1..Len(new) /\ l + (k - l) = k
    BY <1>2, <1>5, <1>8, <1>11
  <2>2. (p.painted \o new)[l + (k - l)] = Node(s, l + (k - l))
    BY <1>7, <1>8, <1>9, <2>1
  <2>3. QED BY <2>1, <2>2
<1>12. QED BY <1>3, <1>4, <1>9, <1>10, <1>11 DEF l, m, S

\* The appeal action sits in a block that is painted.
LEMMA ButtonSits ==
  ASSUME NEW p \in Pages, NEW s \in States,
         \A k \in DOMAIN p.painted : p.painted[k].id = k,
         p.button # None => p.button.at \in Blocks(p.painted)
  PROVE  /\ Button(p, s) \in Buttons \cup {None}
         /\ Button(p, s) # None => Button(p, s).at \in Blocks(p.painted)
<1> DEFINE blocks == Blocks(p.painted)
           last == CHOOSE k \in blocks : \A j \in blocks : j <= k
<1>1. p.painted \in Seq(Nodes) /\ p.button \in Buttons \cup {None}
  BY DEF Pages
<1>2. blocks \in SUBSET Nat /\ \A k \in blocks : k <= Len(p.painted)
  BY <1>1 DEF Blocks
<1>3. blocks # {} => last \in blocks
  <2>1. Len(p.painted) \in Nat
    BY <1>1
  <2> HIDE DEF blocks
  <2>2. QED BY <1>2, <2>1, LastExists
<1>4. Button(p, s) = IF s.status # "blocked_appealable" \/ ~s.appeal THEN None
                     ELSE IF blocks = {} \/ (p.button # None /\ p.button.at = last) THEN p.button
                     ELSE [at |-> last, click |-> 0]
  BY DEF Button
<1> HIDE DEF blocks, last
<1>5. 0 \in 0..MaxClicks
  OBVIOUS
<1>6. p.button # None => p.button.at \in blocks
  BY DEF blocks
<1>7. CASE Button(p, s) \in {None, p.button}
  BY <1>1, <1>6, <1>7 DEF blocks
<1>8. CASE blocks # {} /\ Button(p, s) = [at |-> last, click |-> 0]
  <2>1. last \in blocks /\ last \in Nat
    BY <1>2, <1>3, <1>8
  <2>2. Button(p, s) \in Buttons /\ Button(p, s).at = last
    BY <1>5, <1>8, <2>1 DEF Buttons
  <2>3. QED BY <2>1, <2>2 DEF blocks
<1>9. QED BY <1>4, <1>7, <1>8

\* A page painted anew from a state its active session was in is true of that
\* session, and the bubbles it keeps are echoed by no message it painted.
LEMMA RenderKeeps ==
  ASSUME server \in [Sessions -> States], NEW p, TabsInv(p), ChatInv(p),
         NEW s \in States, Behind(s, server[p.active])
  PROVE  LET r == RenderActive(p, s) IN
         /\ TabsInv(r) /\ ChatInv(r) /\ r.sessions = p.sessions /\ r.active = p.active
         /\ Len(p.painted) <= Len(r.painted)
         /\ r.bubbles \subseteq p.bubbles
         /\ \A k \in 1..Len(r.painted) :
              k > Len(p.painted) /\ server[p.active].messages[k].role = "user" =>
                server[p.active].messages[k].content \notin r.bubbles
<1> DEFINE r == RenderActive(p, s)
           l == Len(p.painted)
           m == Len(s.messages)
           now == server[p.active]
<1>1. /\ p \in Pages /\ p.active \in Sessions /\ p.painted \in Seq(Nodes) /\ p.bubbles \subseteq Contents
      /\ now \in States /\ s.messages \in Transcripts /\ now.messages \in Transcripts
  BY DEF TabsInv, Pages, States, Transcripts
<1>2. /\ l \in Nat /\ m \in Nat /\ DOMAIN p.painted = 1..l /\ DOMAIN s.messages = 1..m
      /\ Len(now.messages) \in Nat /\ DOMAIN now.messages = 1..Len(now.messages)
  BY <1>1 DEF Transcripts
<1>3. /\ p.cache[p.active].rendered = 1..l /\ l <= Len(now.messages)
      /\ \A k \in 1..l : p.painted[k] = Node(now, k)
      /\ p.button # None => p.button.at \in Blocks(p.painted)
  BY <1>2 DEF ChatInv
<1>4. m <= Len(now.messages) /\ \A k \in 1..m : s.messages[k] = now.messages[k]
  BY <1>2 DEF Behind
<1>5. /\ r.sessions = p.sessions /\ r.active = p.active
      /\ r.painted = AppendNew(p, s) /\ r.bubbles = Bubbles(p, s) /\ r.button = Button(p, s)
      /\ \A id \in Sessions : r.cache[id].lastState = p.cache[id].lastState
      /\ r.cache[p.active].rendered = (1..l) \cup (1..m)
  <2>1. p \in Pages /\ s \in States
    BY <1>1
  <2>2. /\ r.sessions = p.sessions /\ r.active = p.active
        /\ r.painted = AppendNew(p, s) /\ r.bubbles = Bubbles(p, s) /\ r.button = Button(p, s)
        /\ \A id \in Sessions : r.cache[id].lastState = p.cache[id].lastState
        /\ r.cache[p.active].rendered = p.cache[p.active].rendered \cup DOMAIN s.messages
    BY <2>1, RenderFields
  <2> HIDE DEF r, l, m, now
  <2>3. p.cache[p.active].rendered \cup DOMAIN s.messages = (1..l) \cup (1..m)
    BY <1>2, <1>3
  <2>4. QED BY <2>2, <2>3
<1>6. /\ Unseen(p, s) = (1..m) \ (1..l)
      /\ r.painted \in Seq(Nodes)
      /\ Len(r.painted) = IF m > l THEN m ELSE l
      /\ \A k \in 1..l : r.painted[k] = p.painted[k]
      /\ \A k \in 1..m : k > l => r.painted[k] = Node(s, k)
  BY <1>1, <1>2, <1>3, <1>5, Painting
<1>7. DOMAIN r.painted = 1..Len(r.painted) /\ (1..l) \cup (1..m) = 1..Len(r.painted)
  BY <1>2, <1>6
<1>8. \A k \in DOMAIN r.painted : r.painted[k] = Node(now, k)
  <2>1. \A k \in 1..m : Node(s, k) = Node(now, k)
    BY <1>4 DEF Node
  <2>2. QED BY <1>2, <1>3, <1>6, <1>7, <2>1
<1>9. Button(p, s) \in Buttons \cup {None} /\ (r.button # None => r.button.at \in Blocks(r.painted))
  <2>1. \A k \in DOMAIN p.painted : p.painted[k].id = k
    BY <1>1, <1>2, <1>3, NodeType
  <2>2. /\ Button(p, s) \in Buttons \cup {None}
        /\ Button(p, s) # None => Button(p, s).at \in Blocks(p.painted)
    BY <1>1, <1>3, <2>1, ButtonSits
  <2>3. Blocks(p.painted) \subseteq Blocks(r.painted)
    BY <1>2, <1>6, <1>7 DEF Blocks
  <2>4. QED BY <1>5, <2>2, <2>3
<1>10. r \in Pages
  <2>1. AppendNew(p, s) \in Seq(Nodes) /\ Bubbles(p, s) \subseteq Contents /\ Button(p, s) \in Buttons \cup {None}
    BY <1>1, <1>5, <1>6, <1>9 DEF Bubbles
  <2>2. s.status \in Statuses /\ (s.status \in Busy) \in BOOLEAN /\ s.approval \in BOOLEAN /\ DOMAIN s.messages \subseteq Nat
    BY <1>2 DEF States
  <2> HIDE DEF l, m, now
  <2> DEFINE caches == [p.cache EXCEPT ![p.active].rendered = @ \cup DOMAIN s.messages]
  <2>3. caches \in [Sessions -> Caches]
    BY <1>1, <2>2 DEF Pages, Caches
  <2>4. r = [p EXCEPT !.status = s.status, !.disabled = s.status \in Busy, !.banner = s.approval,
                      !.button = Button(p, s), !.painted = AppendNew(p, s), !.bubbles = Bubbles(p, s),
                      !.cache = caches]
    BY DEF RenderActive
  <2> HIDE DEF caches, r
  <2>5. QED BY <1>1, <2>1, <2>2, <2>3, <2>4 DEF Pages
<1>11. TabsInv(r)
  <2>1. \A id \in ToSet(p.sessions) : id \in Sessions
    BY <1>1 DEF ToSet, Pages
  <2> HIDE DEF r, now
  <2>2. QED BY <1>5, <1>10, <2>1 DEF TabsInv
<1>12. ChatInv(r)
  <2> HIDE DEF r
  <2>1. Len(r.painted) <= Len(now.messages)
    BY <1>2, <1>3, <1>4, <1>6
  <2>2. QED BY <1>5, <1>7, <1>8, <1>9, <2>1 DEF ChatInv
<1>13. ASSUME NEW k \in 1..Len(r.painted), k > l, now.messages[k].role = "user"
       PROVE  now.messages[k].content \notin r.bubbles
  <2>1. k \in 1..m /\ k \in Unseen(p, s)
    BY <1>2, <1>6, <1>13
  <2>2. s.messages[k] = now.messages[k]
    BY <1>4, <2>1
  <2>3. QED BY <1>5, <1>13, <2>1, <2>2 DEF Bubbles
<1>14. l <= Len(r.painted) /\ r.bubbles \subseteq p.bubbles
  BY <1>2, <1>5, <1>6 DEF Bubbles
<1>15. QED BY <1>5, <1>11, <1>12, <1>13, <1>14

-----------------------------------------------------------------------------
(* Tabs.                                                                    *)

\* Closing a tab leaves the others.
LEMMA WithoutTab ==
  ASSUME NEW tabs \in Seq(Sessions), IsInjective(tabs), NEW id \in ToSet(tabs)
  PROVE  /\ Without(tabs, id) \in Seq(Sessions) /\ IsInjective(Without(tabs, id))
         /\ ToSet(Without(tabs, id)) = ToSet(tabs) \ {id}
         /\ Len(Without(tabs, id)) = Len(tabs) - 1
<1> DEFINE i == CHOOSE j \in DOMAIN tabs : tabs[j] = id
           n == Len(tabs)
           rest == Without(tabs, id)
<1>1. n \in Nat /\ DOMAIN tabs = 1..n
  OBVIOUS
<1>2. i \in 1..n /\ tabs[i] = id
  BY <1>1 DEF ToSet
<1> HIDE DEF i
<1> DEFINE front == SubSeq(tabs, 1, i - 1)
           back == SubSeq(tabs, i + 1, n)
<1>3. rest = front \o back
  BY DEF Without, RemoveAt, i
<1>4. \A j, k \in 1..n : tabs[j] = tabs[k] => j = k
  BY <1>1 DEF IsInjective
<1>5. i - 1 \in Nat /\ n - i \in Nat /\ i \in Nat /\ i - 1 <= n
  BY <1>1, <1>2
<1>6. /\ front \in Seq(Sessions) /\ Len(front) = i - 1
      /\ \A k \in 1..(i - 1) : front[k] = tabs[k]
  <2>1. 1 \in Int /\ i - 1 \in Int /\ \A k \in 1..(i - 1) : tabs[k] \in Sessions
    BY <1>1, <1>5
  <2>2. /\ SubSeq(tabs, 1, i - 1) \in Seq(Sessions)
        /\ Len(SubSeq(tabs, 1, i - 1)) = IF 1 <= i - 1 THEN i - 1 - 1 + 1 ELSE 0
        /\ \A k \in 1..(i - 1 - 1 + 1) : SubSeq(tabs, 1, i - 1)[k] = tabs[1 + k - 1]
    BY <2>1, SubSeqProperties
  <2>3. QED BY <1>5, <2>2
<1>7. /\ back \in Seq(Sessions) /\ Len(back) = n - i
      /\ \A k \in 1..(n - i) : back[k] = tabs[i + k]
  <2>1. i + 1 \in Int /\ n \in Int /\ \A k \in (i + 1)..n : tabs[k] \in Sessions
    BY <1>1, <1>5
  <2>2. /\ SubSeq(tabs, i + 1, n) \in Seq(Sessions)
        /\ Len(SubSeq(tabs, i + 1, n)) = IF i + 1 <= n THEN n - (i + 1) + 1 ELSE 0
        /\ \A k \in 1..(n - (i + 1) + 1) : SubSeq(tabs, i + 1, n)[k] = tabs[i + 1 + k - 1]
    BY <2>1, SubSeqProperties
  <2>3. /\ n - (i + 1) + 1 = n - i /\ (IF i + 1 <= n THEN n - (i + 1) + 1 ELSE 0) = n - i
        /\ \A k \in 1..(n - i) : i + 1 + k - 1 = i + k
    <3> HIDE DEF n
    <3>1. n - (i + 1) + 1 = n - i /\ \A k \in 1..(n - i) : i + 1 + k - 1 = i + k
      BY <1>1, <1>5
    <3>2. i + 1 <= n \/ i = n
      BY <1>1, <1>2
    <3>3. QED BY <1>1, <1>5, <3>1, <3>2
  <2> HIDE DEF back, n
  <2>4. Len(SubSeq(tabs, i + 1, n)) = n - i /\ \A k \in 1..(n - i) : SubSeq(tabs, i + 1, n)[k] = tabs[i + k]
    BY <2>2, <2>3
  <2>5. QED BY <2>2, <2>4 DEF back
<1> HIDE DEF front, back, rest
<1>8. /\ rest \in Seq(Sessions) /\ Len(rest) = n - 1 /\ DOMAIN rest = 1..(n - 1)
      /\ \A k \in 1..(n - 1) : rest[k] = IF k < i THEN tabs[k] ELSE tabs[k + 1]
  <2>1. /\ front \o back \in Seq(Sessions) /\ Len(front \o back) = i - 1 + (n - i)
        /\ \A k \in 1..(i - 1 + (n - i)) : (front \o back)[k] = IF k <= i - 1 THEN front[k] ELSE back[k - (i - 1)]
    <3>1. /\ front \o back \in Seq(Sessions) /\ Len(front \o back) = Len(front) + Len(back)
          /\ \A k \in 1..(Len(front) + Len(back)) :
               (front \o back)[k] = IF k <= Len(front) THEN front[k] ELSE back[k - Len(front)]
      BY <1>6, <1>7, ConcatProperties
    <3>2. Len(front) = i - 1 /\ Len(back) = n - i
      BY <1>6, <1>7
    <3>3. QED BY <3>1, <3>2
  <2>2. i - 1 + (n - i) = n - 1
    BY <1>1, <1>5
  <2>3. rest \in Seq(Sessions) /\ Len(rest) = n - 1 /\ DOMAIN rest = 1..(n - 1)
    BY <1>3, <2>1, <2>2
  <2>4. ASSUME NEW k \in 1..(n - 1) PROVE rest[k] = IF k < i THEN tabs[k] ELSE tabs[k + 1]
    <3>1. rest[k] = IF k <= i - 1 THEN front[k] ELSE back[k - (i - 1)]
      BY <1>3, <2>1, <2>2
    <3>2. CASE k < i
      <4>1. k \in 1..(i - 1) /\ k <= i - 1
        BY <1>5, <3>2
      <4>2. QED BY <1>6, <3>1, <3>2, <4>1
    <3>3. CASE ~(k < i)
      <4>1. k - (i - 1) \in 1..(n - i) /\ i + (k - (i - 1)) = k + 1 /\ ~(k <= i - 1)
        BY <1>1, <1>5, <3>3
      <4>2. back[k - (i - 1)] = tabs[i + (k - (i - 1))]
        BY <1>7, <4>1
      <4>3. QED BY <3>1, <3>3, <4>1, <4>2
    <3>4. QED BY <3>2, <3>3
  <2>5. QED BY <2>3, <2>4
<1>9. \A j, k \in 1..(n - 1) : rest[j] = rest[k] => j = k
  <2>1. ASSUME NEW j \in 1..(n - 1), NEW k \in 1..(n - 1), rest[j] = rest[k] PROVE j = k
    <3>1. /\ (IF j < i THEN j ELSE j + 1) \in 1..n /\ rest[j] = tabs[IF j < i THEN j ELSE j + 1]
          /\ (IF k < i THEN k ELSE k + 1) \in 1..n /\ rest[k] = tabs[IF k < i THEN k ELSE k + 1]
      BY <1>1, <1>8
    <3>2. (IF j < i THEN j ELSE j + 1) = (IF k < i THEN k ELSE k + 1)
      BY <1>4, <2>1, <3>1
    <3>3. QED BY <1>5, <3>2
  <2>2. QED BY <2>1
<1>10. ToSet(rest) = ToSet(tabs) \ {id}
  <2>1. ASSUME NEW k \in 1..(n - 1) PROVE rest[k] \in ToSet(tabs) /\ rest[k] # id
    <3> DEFINE j == IF k < i THEN k ELSE k + 1
    <3>1. j \in 1..n /\ j # i /\ rest[k] = tabs[j]
      BY <1>1, <1>5, <1>8
    <3> HIDE DEF j
    <3>2. QED BY <1>1, <1>2, <1>4, <3>1 DEF ToSet
  <2>2. ASSUME NEW k \in 1..n, tabs[k] # id PROVE tabs[k] \in ToSet(rest)
    <3>1. k # i
      BY <1>2, <2>2
    <3>2. CASE k < i
      <4>1. k \in 1..(n - 1) /\ rest[k] = tabs[k]
        BY <1>1, <1>2, <1>8, <3>2
      <4>2. QED BY <1>8, <4>1 DEF ToSet
    <3>3. CASE k > i
      <4>1. k - 1 \in 1..(n - 1) /\ ~(k - 1 < i) /\ k - 1 + 1 = k
        BY <1>1, <1>5, <3>3
      <4>2. rest[k - 1] = tabs[k]
        BY <1>8, <4>1
      <4>3. QED BY <1>8, <4>1, <4>2 DEF ToSet
    <3>4. QED BY <1>5, <3>1, <3>2, <3>3
  <2>3. QED BY <1>1, <1>8, <2>1, <2>2 DEF ToSet
<1>11. QED BY <1>8, <1>9, <1>10 DEF rest, IsInjective

\* What is shown of a session that is switched to is true of it.
LEMMA SwitchedToKeeps ==
  ASSUME server \in [Sessions -> States], NEW p, TabsInv(p), NEW id \in ToSet(p.sessions)
  PROVE  LET r == SwitchedTo(p, id) IN
         /\ TabsInv(r) /\ ChatInv(r) /\ r.sessions = p.sessions /\ r.active = id /\ r.bubbles = {}
<1> DEFINE caches == [p.cache EXCEPT ![id].rendered = {}]
           wiped == [p EXCEPT !.active = id, !.cache = caches, !.painted = <<>>,
                              !.bubbles = {}, !.note = FALSE, !.button = None]
           idle == [wiped EXCEPT !.status = "idle"]
<1>1. p \in Pages /\ p.sessions \in Seq(Sessions)
  BY DEF TabsInv, Pages
<1>2. id \in Sessions
  BY <1>1 DEF ToSet
<1>3. /\ caches \in [Sessions -> Caches] /\ caches[id].rendered = {}
      /\ \A other \in Sessions : caches[other].lastState = p.cache[other].lastState
  BY <1>1, <1>2 DEF Pages, Caches
<1>4. SwitchedTo(p, id) = IF p.cache[id].lastState # None THEN RenderActive(wiped, p.cache[id].lastState) ELSE idle
  BY DEF SwitchedTo
<1> HIDE DEF caches
<1>5. /\ wiped.sessions = p.sessions /\ wiped.active = id /\ wiped.cache = caches
      /\ wiped.painted = <<>> /\ wiped.bubbles = {} /\ wiped.button = None
  BY <1>1 DEF Pages
<1>6. /\ idle.sessions = p.sessions /\ idle.active = id /\ idle.cache = caches
      /\ idle.painted = <<>> /\ idle.bubbles = {} /\ idle.button = None
  BY <1>1 DEF Pages
<1>7. wiped \in Pages /\ idle \in Pages
  <2>1. /\ id \in Sessions /\ <<>> \in Seq(Nodes) /\ {} \in SUBSET Contents /\ FALSE \in BOOLEAN
        /\ None \in Buttons \cup {None} /\ "idle" \in Statuses
    BY <1>2 DEF Statuses
  <2> HIDE DEF idle
  <2>2. wiped \in Pages
    BY <1>1, <1>3, <2>1 DEF Pages
  <2> HIDE DEF wiped
  <2>3. idle \in Pages
    BY <2>1, <2>2 DEF Pages, idle
  <2>4. QED BY <2>2, <2>3
<1> HIDE DEF wiped, idle
<1>8. \A other \in ToSet(p.sessions) : other \in Sessions
  BY <1>1 DEF ToSet
<1>9. TabsInv(wiped) /\ TabsInv(idle)
  BY <1>3, <1>5, <1>6, <1>8, <1>7 DEF TabsInv
<1>10. ChatInv(wiped) /\ ChatInv(idle)
  <2>1. server[id].messages \in Transcripts
    BY <1>2 DEF States, Transcripts
  <2>2. Len(<<>>) = 0 /\ DOMAIN <<>> = {} /\ 0 <= Len(server[id].messages)
    BY <2>1 DEF Transcripts
  <2>3. QED BY <1>3, <1>5, <1>6, <2>2 DEF ChatInv
<1>11. CASE p.cache[id].lastState # None
  <2> DEFINE s == p.cache[id].lastState
             r == RenderActive(wiped, s)
  <2>1. s \in States /\ Behind(s, server[wiped.active])
    BY <1>1, <1>2, <1>5, <1>11 DEF TabsInv, Pages, Caches
  <2>2. TabsInv(r) /\ ChatInv(r) /\ r.sessions = wiped.sessions /\ r.active = wiped.active
        /\ r.bubbles \subseteq wiped.bubbles
    <3> HIDE DEF s
    <3>1. QED BY <1>9, <1>10, <2>1, RenderKeeps
  <2> HIDE DEF r
  <2>3. QED BY <1>4, <1>5, <1>11, <2>2 DEF r
<1>12. CASE p.cache[id].lastState = None
  BY <1>4, <1>6, <1>9, <1>10, <1>12
<1>13. QED BY <1>11, <1>12

-----------------------------------------------------------------------------
(* Each step keeps the invariant.                                           *)

Tabs == ToSet(page.sessions)

\* Sessions with a tab, and the shown one, are sessions.
LEMMA TabsAreSessions ==
  ASSUME IInv
  PROVE  /\ Tabs \subseteq Sessions /\ page.active \in Tabs /\ page \in Pages
         /\ \A id \in Tabs : server[id] \in States
<1>1. page.sessions \in Seq(Sessions) /\ page \in Pages
  BY DEF IInv, TabsInv, Pages
<1>2. Tabs \subseteq Sessions
  BY <1>1 DEF Tabs, ToSet
<1>3. QED BY <1>1, <1>2 DEF IInv, ChatInv, Tabs

\* The transcripts of open sessions grow under an unchanged page.
LEMMA SessionsGrow ==
  ASSUME IInv, server' \in [Sessions -> States], page' = page, polls' = polls,
         \A id \in Tabs : Behind(server[id], server'[id])
  PROVE  /\ TabsInv(page)' /\ ChatInv(page)'
         /\ \A r \in polls : r.session \in Tabs => Behind(r.state, server'[r.session])
<1>1. \A id \in Tabs : id \in Sessions /\ server[id] \in States /\ server'[id] \in States
  BY TabsAreSessions
<1>2. TabsInv(page)'
  <2>1. ASSUME NEW id \in Tabs, page.cache[id].lastState # None
        PROVE  Behind(page.cache[id].lastState, server'[id])
    <3>1. page.cache[id].lastState \in States /\ Behind(page.cache[id].lastState, server[id])
      BY <1>1, <2>1 DEF IInv, TabsInv, Pages, Caches, Tabs
    <3>2. QED BY <1>1, <2>1, <3>1, BehindGrows
  <2>2. QED BY <2>1 DEF IInv, TabsInv, Tabs
<1>3. ChatInv(page)'
  <2> DEFINE s == server[page.active]
             t == server'[page.active]
  <2>1. s \in States /\ t \in States /\ Behind(s, t) /\ page.active \in Tabs
    BY <1>1, TabsAreSessions
  <2>2. s.messages \in Transcripts /\ t.messages \in Transcripts /\ page.painted \in Seq(Nodes)
    BY <2>1, TabsAreSessions DEF States, Transcripts, Pages
  <2>3. /\ Len(page.painted) <= Len(s.messages) /\ DOMAIN page.painted = 1..Len(page.painted)
        /\ \A k \in DOMAIN page.painted : page.painted[k] = Node(s, k)
    BY <2>2 DEF IInv, ChatInv
  <2> HIDE DEF s, t
  <2>4. Len(page.painted) <= Len(t.messages)
    BY <2>1, <2>2, <2>3 DEF Behind, Transcripts
  <2>5. \A k \in DOMAIN page.painted : Node(s, k) = Node(t, k)
    BY <2>1, <2>2, <2>3 DEF Behind, Node, Transcripts
  <2>6. QED BY <2>3, <2>4, <2>5 DEF IInv, ChatInv, s, t
<1>4. ASSUME NEW r \in polls, r.session \in Tabs PROVE Behind(r.state, server'[r.session])
  <2>1. r.state \in States /\ Behind(r.state, server[r.session])
    BY <1>4 DEF IInv, WireInv, Polls, Tabs
  <2>2. QED BY <1>1, <1>4, <2>1, BehindGrows
<1>5. QED BY <1>2, <1>3, <1>4

\* What a bubble waits for is not lost when its session goes on, as long as
\* the request is there or became the last message.
LEMMA BubblesWait ==
  ASSUME IInv, server' \in [Sessions -> States], page' = page,
         Behind(server[page.active], server'[page.active]),
         \A q \in posts \cup failed :
            q.session = page.active /\ q.kind = "message" =>
              \/ \E other \in posts' \cup failed' :
                    other.session = q.session /\ other.kind = q.kind /\ other.content = q.content
              \/ \E k \in DOMAIN server'[page.active].messages :
                    /\ k > Len(server[page.active].messages)
                    /\ server'[page.active].messages[k] = [role |-> "user", content |-> q.content]
  PROVE  BubblesInv(page)'
<1> DEFINE s == server[page.active]
           t == server'[page.active]
           l == Len(page.painted)
<1>1. s \in States /\ t \in States /\ page.painted \in Seq(Nodes)
  BY TabsAreSessions DEF Pages
<1>2. s.messages \in Transcripts /\ t.messages \in Transcripts /\ l \in Nat /\ l <= Len(s.messages)
  BY <1>1 DEF States, Transcripts, IInv, ChatInv
<1>3. ASSUME NEW content \in page.bubbles PROVE Awaited(page, content)'
  <2>1. Awaited(page, content)
    BY DEF IInv, BubblesInv
  <2>2. CASE \E k \in DOMAIN s.messages : k > l /\ s.messages[k] = [role |-> "user", content |-> content]
    <3>1. PICK k \in DOMAIN s.messages : k > l /\ s.messages[k] = [role |-> "user", content |-> content]
      BY <2>2
    <3>2. k \in DOMAIN t.messages /\ t.messages[k] = s.messages[k]
      <4> HIDE DEF s, t
      <4>1. /\ DOMAIN s.messages = 1..Len(s.messages) /\ DOMAIN t.messages = 1..Len(t.messages)
            /\ Len(s.messages) \in Nat /\ Len(t.messages) \in Nat
        BY <1>2 DEF Transcripts
      <4>2. Len(s.messages) <= Len(t.messages) /\ t.messages[k] = s.messages[k]
        BY DEF Behind, s, t
      <4>3. QED BY <4>1, <4>2
    <3>3. QED BY <3>1, <3>2 DEF Awaited
  <2>3. CASE \E q \in posts \cup failed : q.session = page.active /\ q.kind = "message" /\ q.content = content
    <3>1. PICK q \in posts \cup failed : q.session = page.active /\ q.kind = "message" /\ q.content = content
      BY <2>3
    <3>2. CASE \E other \in posts' \cup failed' :
                 other.session = q.session /\ other.kind = q.kind /\ other.content = q.content
      BY <3>1, <3>2 DEF Awaited
    <3>3. CASE \E k \in DOMAIN t.messages :
                 k > Len(s.messages) /\ t.messages[k] = [role |-> "user", content |-> q.content]
      <4>1. PICK k \in DOMAIN t.messages :
                   k > Len(s.messages) /\ t.messages[k] = [role |-> "user", content |-> q.content]
        BY <3>3
      <4>2. k \in Nat /\ Len(s.messages) \in Nat
        BY <1>2 DEF Transcripts
      <4>3. k > l
        BY <1>2, <4>1, <4>2
      <4>4. QED BY <3>1, <4>1, <4>3 DEF Awaited
    <3>4. QED BY <3>1, <3>2, <3>3
  <2>4. QED BY <2>1, <2>2, <2>3 DEF Awaited
<1>4. QED BY <1>3 DEF BubblesInv

\* A request that is served; the one that clears a session is of a closed one.
LEMMA ServeKeeps == ASSUME IInv, NEW q \in posts, Serve(q) PROVE IInv'
<1> DEFINE id == q.session
           s == server[id]
           t == Served(s, q)
<1>1. /\ q \in Posts /\ id \in Sessions /\ s \in States
      /\ server' = [server EXCEPT ![id] = t] /\ posts' = posts \ {q} /\ UNCHANGED <<failed, polls, page, clicks>>
  BY DEF Serve, IInv, WireInv, Posts
<1>2. t \in States /\ (q.kind # "reset" => Behind(s, t))
  BY <1>1, ServedGrows
<1>3. id \in Tabs => q.kind # "reset"
  BY DEF IInv, WireInv, Tabs
<1> HIDE DEF t
<1>4. server' \in [Sessions -> States]
  BY <1>1, <1>2 DEF IInv
<1>5. \A other \in Tabs : Behind(server[other], server'[other])
  BY <1>1, <1>2, <1>3, TabsAreSessions, BehindItself DEF IInv
<1>6. /\ TabsInv(page)' /\ ChatInv(page)'
      /\ \A r \in polls : r.session \in Tabs => Behind(r.state, server'[r.session])
  BY <1>1, <1>4, <1>5, SessionsGrow
<1>7. BubblesInv(page)'
  <2>1. ASSUME q.kind = "message"
        PROVE  \E k \in DOMAIN t.messages :
                 k > Len(s.messages) /\ t.messages[k] = [role |-> "user", content |-> q.content]
    <3> DEFINE m == [role |-> "user", content |-> q.content]
    <3>1. t = Say(s, "user", q.content, "thinking") /\ q.content \in Texts
      BY <1>1, <2>1 DEF t, Served, Posts, Texts
    <3>2. m \in [role : Roles, content : Texts]
      BY <3>1 DEF Roles
    <3>3. t.messages = Append(s.messages, m)
      BY <1>1, <3>1 DEF Say, States
    <3> HIDE DEF m
    <3>4. /\ t.messages \in Transcripts /\ s.messages \in Transcripts /\ Len(t.messages) = Len(s.messages) + 1
          /\ t.messages[Len(s.messages) + 1] = m
      BY <1>1, <3>2, <3>3, Longer DEF States, Transcripts
    <3>5. Len(s.messages) + 1 \in DOMAIN t.messages /\ Len(s.messages) + 1 > Len(s.messages)
      <4>1. Len(s.messages) \in Nat /\ DOMAIN t.messages = 1..Len(t.messages)
        BY <3>4 DEF Transcripts
      <4>2. QED BY <3>4, <4>1
    <3>6. QED BY <3>4, <3>5 DEF m
  <2>2. ASSUME NEW other \in posts \cup failed, other.session = page.active, other.kind = "message"
        PROVE  \/ \E kept \in posts' \cup failed' :
                    kept.session = other.session /\ kept.kind = other.kind /\ kept.content = other.content
               \/ \E k \in DOMAIN server'[page.active].messages :
                    /\ k > Len(server[page.active].messages)
                    /\ server'[page.active].messages[k] = [role |-> "user", content |-> other.content]
    <3>1. CASE other = q
      <4>1. page.active = id /\ q.kind = "message" /\ server'[id] = t
        BY <1>1, <2>2, <3>1 DEF IInv
      <4>2. QED BY <2>1, <3>1, <4>1
    <3>2. CASE other # q
      <4>1. other \in posts' \cup failed'
        BY <1>1, <2>2, <3>2
      <4>2. QED BY <4>1
    <3>3. QED BY <3>1, <3>2
  <2>3. Behind(server[page.active], server'[page.active])
    BY <1>5, TabsAreSessions
  <2>4. QED BY <1>1, <1>4, <2>2, <2>3, BubblesWait
<1>8. WireInv'
  BY <1>1, <1>6 DEF IInv, WireInv, Tabs
<1>9. QED BY <1>1, <1>4, <1>6, <1>7, <1>8 DEF IInv

LEMMA TurnKeeps == ASSUME IInv, NEW id \in Sessions, Turn(id) PROVE IInv'
<1> DEFINE s == server[id]
<1>1. UNCHANGED <<posts, failed, polls, page, clicks>> /\ s \in States
  BY DEF Turn, IInv
<1>2. PICK t \in IF s.next = "none" THEN After(s) ELSE {SetStatus(s)} : server' = [server EXCEPT ![id] = t]
  BY DEF Turn
<1>3. t \in States /\ Behind(s, t)
  <2>1. CASE s.next = "none"
    BY <1>1, <1>2, <2>1, AfterGrows
  <2>2. CASE s.next # "none"
    <3>1. t \in States /\ t.messages = s.messages
      BY <1>1, <1>2, <2>2, SetStatusGrows
    <3>2. QED BY <1>1, <3>1, BehindItself DEF Behind
  <2>3. QED BY <2>1, <2>2
<1>4. server' \in [Sessions -> States]
  BY <1>2, <1>3 DEF IInv
<1>5. \A other \in Tabs : Behind(server[other], server'[other])
  BY <1>2, <1>3, TabsAreSessions, BehindItself DEF IInv
<1>6. /\ TabsInv(page)' /\ ChatInv(page)'
      /\ \A r \in polls : r.session \in Tabs => Behind(r.state, server'[r.session])
  BY <1>1, <1>4, <1>5, SessionsGrow
<1>7. BubblesInv(page)'
  <2>1. Behind(server[page.active], server'[page.active])
    BY <1>5, TabsAreSessions
  <2>2. \A q \in posts \cup failed : q \in posts' \cup failed'
    BY <1>1
  <2>3. QED BY <1>1, <1>4, <2>1, <2>2, BubblesWait
<1>8. WireInv'
  BY <1>1, <1>6 DEF IInv, WireInv, Tabs
<1>9. QED BY <1>1, <1>4, <1>6, <1>7, <1>8 DEF IInv

\* An answer is a state its session was in.
LEMMA PollKeeps == ASSUME IInv, NEW id \in Sessions, Poll(id) PROVE IInv'
<1> DEFINE s == server[id]
           r == [session |-> id, state |-> Shown(s)]
<1>1. polls' = polls \cup {r} /\ UNCHANGED <<server, posts, failed, page, clicks>> /\ s \in States
  BY DEF Poll, IInv
<1>2. Shown(s) \in States /\ Shown(s).messages = s.messages
  BY <1>1 DEF Shown, States
<1>3. r \in Polls /\ r.session = id /\ r.state = Shown(s)
  BY <1>2 DEF Polls
<1>4. Behind(Shown(s), s)
  BY <1>1, <1>2, BehindItself DEF Behind
<1> HIDE DEF r
<1>5. WireInv'
  BY <1>1, <1>3, <1>4 DEF IInv, WireInv
<1>6. TabsInv(page)' /\ ChatInv(page)' /\ BubblesInv(page)'
  BY <1>1 DEF IInv, TabsInv, ChatInv, BubblesInv, Awaited
<1>7. QED BY <1>1, <1>5, <1>6 DEF IInv

\* An answer that arrives, of whichever session and however late.
LEMMA ReceiveKeeps == ASSUME IInv, NEW r \in polls, Receive(r) PROVE IInv'
<1> DEFINE id == r.session
           caches == [page.cache EXCEPT ![id].lastState = r.state]
           p == [page EXCEPT !.cache = caches]
<1>1. /\ r \in Polls /\ id \in Sessions /\ r.state \in States
      /\ polls' = polls \ {r} /\ UNCHANGED <<server, posts, failed, clicks>>
      /\ id \in Tabs => Behind(r.state, server[id])
  BY DEF Receive, IInv, WireInv, Polls, Tabs
<1>2. page' = IF id = p.active THEN RenderActive(p, r.state) ELSE p
  BY DEF Receive
<1>3. /\ caches \in [Sessions -> Caches] /\ caches[id].lastState = r.state
      /\ \A other \in Sessions : /\ caches[other].rendered = page.cache[other].rendered
                                 /\ other # id => caches[other].lastState = page.cache[other].lastState
  BY <1>1, TabsAreSessions DEF Pages, Caches
<1> HIDE DEF caches
<1>4. /\ p \in Pages /\ p.sessions = page.sessions /\ p.active = page.active /\ p.cache = caches
      /\ p.painted = page.painted /\ p.bubbles = page.bubbles /\ p.button = page.button
  BY <1>3, TabsAreSessions DEF Pages
<1> HIDE DEF p
<1>5. TabsInv(p)
  <2>1. \A other \in Tabs : p.cache[other].lastState # None => Behind(p.cache[other].lastState, server[other])
    BY <1>1, <1>3, <1>4, TabsAreSessions DEF IInv, TabsInv, Tabs
  <2>2. QED BY <1>4, <2>1 DEF IInv, TabsInv, Tabs
<1>6. ChatInv(p)
  BY <1>3, <1>4, TabsAreSessions DEF IInv, ChatInv
<1>7. BubblesInv(p)
  BY <1>4 DEF IInv, BubblesInv, Awaited
<1>8. TabsInv(page') /\ ChatInv(page') /\ BubblesInv(page') /\ page'.sessions = page.sessions
  <2>1. CASE id # p.active
    BY <1>2, <1>4, <1>5, <1>6, <1>7, <2>1
  <2>2. CASE id = p.active
    <3> DEFINE q == RenderActive(p, r.state)
               now == server[p.active]
    <3>1. Behind(r.state, server[p.active])
      BY <1>1, <1>4, <2>2, TabsAreSessions
    <3>2. /\ TabsInv(q) /\ ChatInv(q) /\ q.sessions = p.sessions /\ q.active = p.active
          /\ Len(p.painted) <= Len(q.painted) /\ q.bubbles \subseteq p.bubbles
          /\ \A k \in 1..Len(q.painted) :
               k > Len(p.painted) /\ now.messages[k].role = "user" => now.messages[k].content \notin q.bubbles
      BY <1>1, <1>5, <1>6, <3>1, RenderKeeps DEF IInv
    <3>3. page' = q
      BY <1>2, <2>2
    <3> HIDE DEF q, now
    <3>4. ASSUME NEW content \in q.bubbles PROVE Awaited(q, content)
      <4>1. Awaited(p, content)
        BY <1>7, <3>2 DEF BubblesInv
      <4>2. ASSUME NEW k \in DOMAIN now.messages, k > Len(p.painted),
                   now.messages[k] = [role |-> "user", content |-> content]
            PROVE  k > Len(q.painted)
        <5>1. now \in States /\ now.messages \in Seq([role : Roles, content : Texts])
          BY <1>4, TabsAreSessions DEF now, States
        <5>2. k \in Nat /\ k >= 1
          BY <5>1
        <5>3. q.painted \in Seq(Nodes)
          BY <3>2 DEF TabsInv, Pages
        <5>4. k \notin 1..Len(q.painted)
          BY <3>2, <4>2
        <5>5. QED BY <5>2, <5>3, <5>4
      <4>3. QED BY <3>2, <4>1, <4>2 DEF Awaited, now
    <3>5. QED BY <1>4, <3>2, <3>3, <3>4 DEF BubblesInv
  <2>3. QED BY <2>1, <2>2
<1>9. WireInv'
  BY <1>1, <1>8 DEF IInv, WireInv
<1>10. TabsInv(page)' /\ ChatInv(page)' /\ BubblesInv(page)'
  BY <1>1, <1>8 DEF TabsInv, ChatInv, BubblesInv, Awaited
<1>11. QED BY <1>1, <1>9, <1>10 DEF IInv

\* Every action of the operator counts, and numbers its request.
LEMMA ClickCounts ==
  ASSUME IInv, Click
  PROVE  clicks' \in 0..MaxClicks /\ clicks + 1 \in 1..MaxClicks /\ clicks + 1 \in 0..MaxClicks
<1>1. clicks \in Nat /\ MaxClicks \in Nat /\ clicks < MaxClicks /\ clicks' = clicks + 1
  BY DEF IInv, Click
<1>2. QED BY <1>1

LEMMA RequestType ==
  ASSUME IInv, Click, NEW kind \in {"message", "reset", "appeal"}, NEW id \in Sessions,
         NEW content \in Contents \cup {""}
  PROVE  Request(kind, id, content) \in Posts
  BY ClickCounts DEF Request, Posts

\* The bubble and its request come together.
LEMMA SubmitKeeps == ASSUME IInv, NEW content \in Contents, Submit(content) PROVE IInv'
<1> DEFINE q == Request("message", page.active, content)
           bubbles == page.bubbles \cup {content}
<1>1. /\ Click /\ posts' = posts \cup {q} /\ UNCHANGED <<server, failed, polls>>
      /\ page' = [page EXCEPT !.bubbles = bubbles]
  BY DEF Submit
<1>2. q \in Posts /\ q.kind = "message" /\ q.session = page.active /\ q.content = content /\ clicks' \in 0..MaxClicks
  <2>1. page.active \in Sessions /\ content \in Contents \cup {""} /\ "message" \in {"message", "reset", "appeal"}
    BY TabsAreSessions
  <2>2. q \in Posts /\ q.kind = "message" /\ q.session = page.active /\ q.content = content
    <3>1. Click
      BY <1>1
    <3>2. q \in Posts
      BY <2>1, <3>1, RequestType
    <3>3. QED BY <3>2 DEF Request
  <2>3. QED BY <1>1, <2>2, ClickCounts
<1> HIDE DEF q
<1>3. bubbles \in SUBSET Contents
  BY TabsAreSessions DEF Pages
<1> HIDE DEF bubbles
<1>4. /\ page' \in Pages /\ page'.sessions = page.sessions /\ page'.active = page.active /\ page'.cache = page.cache
      /\ page'.painted = page.painted /\ page'.button = page.button /\ page'.bubbles = bubbles
  BY <1>1, <1>3, TabsAreSessions DEF Pages
<1>5. TabsInv(page)' /\ ChatInv(page)'
  BY <1>1, <1>4 DEF IInv, TabsInv, ChatInv
<1>6. BubblesInv(page)'
  BY <1>1, <1>2, <1>4 DEF IInv, BubblesInv, Awaited, bubbles
<1>7. WireInv'
  BY <1>1, <1>2, <1>4 DEF IInv, WireInv
<1>8. QED BY <1>1, <1>2, <1>5, <1>6, <1>7 DEF IInv

LEMMA ClickAppealKeeps == ASSUME IInv, ClickAppeal PROVE IInv'
<1> DEFINE q == Request("appeal", page.active, "")
           button == [page.button EXCEPT !.click = clicks + 1]
<1>1. /\ Click /\ posts' = posts \cup {q} /\ UNCHANGED <<server, failed, polls>>
      /\ page' = [page EXCEPT !.button = button] /\ page.button # None
  BY DEF ClickAppeal
<1>2. q \in Posts /\ q.kind = "appeal" /\ clicks' \in 0..MaxClicks /\ clicks + 1 \in 0..MaxClicks
  <2>1. page.active \in Sessions /\ "" \in Contents \cup {""} /\ "appeal" \in {"message", "reset", "appeal"}
    BY TabsAreSessions
  <2>2. q \in Posts /\ q.kind = "appeal"
    <3>1. Click
      BY <1>1
    <3>2. q \in Posts
      BY <2>1, <3>1, RequestType
    <3>3. QED BY <3>2 DEF Request
  <2>3. QED BY <1>1, <2>2, ClickCounts
<1> HIDE DEF q
<1>3. button \in Buttons /\ button.at = page.button.at
  <2>1. page.button \in Buttons
    BY <1>1, TabsAreSessions DEF Pages
  <2>2. QED BY <1>2, <2>1 DEF Buttons
<1> HIDE DEF button
<1>4. /\ page' \in Pages /\ page'.sessions = page.sessions /\ page'.active = page.active /\ page'.cache = page.cache
      /\ page'.painted = page.painted /\ page'.button = button /\ page'.bubbles = page.bubbles
  BY <1>1, <1>3, TabsAreSessions DEF Pages
<1>5. TabsInv(page)' /\ ChatInv(page)'
  BY <1>1, <1>3, <1>4 DEF IInv, TabsInv, ChatInv
<1>6. BubblesInv(page)'
  BY <1>1, <1>4 DEF IInv, BubblesInv, Awaited
<1>7. WireInv'
  BY <1>1, <1>2, <1>4 DEF IInv, WireInv
<1>8. QED BY <1>1, <1>2, <1>5, <1>6, <1>7 DEF IInv

\* Switching wipes the chat, so nothing in it waits.
LEMMA SwitchToKeeps == ASSUME IInv, NEW id \in Sessions, SwitchTo(id) PROVE IInv'
<1>1. /\ Click /\ id \in ToSet(page.sessions) /\ page' = SwitchedTo(page, id)
      /\ UNCHANGED <<server, posts, failed, polls>> /\ clicks' \in 0..MaxClicks
  BY ClickCounts DEF SwitchTo
<1>2. /\ TabsInv(page') /\ ChatInv(page') /\ page'.sessions = page.sessions /\ page'.bubbles = {}
  BY <1>1, SwitchedToKeeps DEF IInv
<1>3. TabsInv(page)' /\ ChatInv(page)' /\ BubblesInv(page)'
  BY <1>1, <1>2 DEF TabsInv, ChatInv, BubblesInv
<1>4. WireInv'
  BY <1>1, <1>2 DEF IInv, WireInv
<1>5. QED BY <1>1, <1>3, <1>4 DEF IInv

\* A fresh id has nothing on its way and nothing in the cache.
LEMMA AddSessionKeeps == ASSUME IInv, NEW id \in Sessions, AddSession(id) PROVE IInv'
<1> DEFINE tabs == Append(page.sessions, id)
           p == [page EXCEPT !.sessions = tabs]
<1>1. /\ Click /\ id \notin Tabs /\ page.cache[id] = NoCache
      /\ \A q \in posts \cup failed \cup polls : q.session # id
      /\ page' = SwitchedTo(p, id) /\ UNCHANGED <<server, posts, failed, polls>> /\ clicks' \in 0..MaxClicks
  BY ClickCounts DEF AddSession, Tabs
<1>2. tabs \in Seq(Sessions) /\ IsInjective(tabs) /\ ToSet(tabs) = Tabs \cup {id}
  <2>1. page.sessions \in Seq(Sessions) /\ IsInjective(page.sessions)
    BY TabsAreSessions DEF IInv, TabsInv, Pages
  <2> DEFINE n == Len(page.sessions)
  <2>2. /\ n \in Nat /\ DOMAIN page.sessions = 1..n
        /\ tabs \in Seq(Sessions) /\ DOMAIN tabs = 1..(n + 1) /\ tabs[n + 1] = id
        /\ \A k \in 1..n : tabs[k] = page.sessions[k]
    BY <2>1
  <2> HIDE DEF tabs
  <2>3. \A k \in 1..(n + 1) : k \in 1..n \/ k = n + 1
    BY <2>2
  <2>4. \A k \in 1..n : k \in 1..(n + 1) /\ n + 1 \in 1..(n + 1)
    BY <2>2
  <2>5. n + 1 \in 1..(n + 1)
    BY <2>2
  <2> HIDE DEF n
  <2>6. ToSet(tabs) = Tabs \cup {id}
    BY <2>2, <2>3, <2>4, <2>5 DEF ToSet, Tabs
  <2>7. \A k \in 1..n : page.sessions[k] # id
    BY <1>1, <2>2 DEF ToSet, Tabs
  <2>8. IsInjective(tabs)
    BY <2>1, <2>2, <2>3, <2>7 DEF IsInjective
  <2>9. QED BY <2>2, <2>6, <2>8
<1> HIDE DEF tabs
<1>3. p \in Pages /\ p.sessions = tabs /\ p.cache = page.cache
  BY <1>2, TabsAreSessions DEF Pages
<1> HIDE DEF p
<1>4. TabsInv(p)
  <2>1. page.cache[id].lastState = None
    BY <1>1 DEF NoCache
  <2>2. QED BY <1>2, <1>3, <2>1 DEF IInv, TabsInv, Tabs
<1>5. TabsInv(page') /\ ChatInv(page') /\ page'.sessions = tabs /\ page'.bubbles = {}
  <2>1. id \in ToSet(p.sessions)
    BY <1>2, <1>3
  <2>2. QED BY <1>1, <1>3, <1>4, <2>1, SwitchedToKeeps DEF IInv
<1>6. TabsInv(page)' /\ ChatInv(page)' /\ BubblesInv(page)'
  BY <1>1, <1>5 DEF TabsInv, ChatInv, BubblesInv
<1>7. WireInv'
  BY <1>1, <1>2, <1>5 DEF IInv, WireInv, Tabs
<1>8. QED BY <1>1, <1>6, <1>7 DEF IInv

\* A session is reset when its tab goes.
LEMMA CloseSessionKeeps == ASSUME IInv, NEW id \in Sessions, CloseSession(id) PROVE IInv'
<1> DEFINE tabs == Without(page.sessions, id)
           caches == [page.cache EXCEPT ![id] = NoCache]
           closed == [page EXCEPT !.sessions = tabs, !.cache[id] = NoCache]
           q == Request("reset", id, "")
<1>1. /\ Click /\ id \in Tabs /\ Len(page.sessions) > 1
      /\ posts' = posts \cup {q} /\ UNCHANGED <<server, failed, polls>>
      /\ page' = IF page.active = id THEN SwitchedTo(closed, tabs[1]) ELSE closed
  BY DEF CloseSession, Tabs
<1>2. q \in Posts /\ q.session = id /\ clicks' \in 0..MaxClicks
  <2>1. "" \in Contents \cup {""} /\ "reset" \in {"message", "reset", "appeal"}
    OBVIOUS
  <2>2. q \in Posts /\ q.session = id
    <3>1. Click
      BY <1>1
    <3>2. q \in Posts
      BY <2>1, <3>1, RequestType
    <3>3. QED BY <3>2 DEF Request
  <2>3. QED BY <1>1, <2>2, ClickCounts
<1>3. /\ page.sessions \in Seq(Sessions) /\ tabs \in Seq(Sessions) /\ IsInjective(tabs)
      /\ ToSet(tabs) = Tabs \ {id} /\ Len(tabs) = Len(page.sessions) - 1
  BY <1>1, TabsAreSessions, WithoutTab DEF IInv, TabsInv, Pages, Tabs
<1> HIDE DEF tabs, q
<1>4. /\ caches \in [Sessions -> Caches]
      /\ \A other \in Sessions \ {id} : caches[other] = page.cache[other]
  <2>1. NoCache \in Caches
    BY DEF NoCache, Caches
  <2>2. QED BY <2>1, TabsAreSessions DEF Pages
<1>5. closed = [page EXCEPT !.sessions = tabs, !.cache = caches]
  OBVIOUS
<1> HIDE DEF caches, closed
<1>6. /\ closed \in Pages /\ closed.sessions = tabs /\ closed.active = page.active /\ closed.cache = caches
      /\ closed.painted = page.painted /\ closed.bubbles = page.bubbles /\ closed.button = page.button
  BY <1>3, <1>4, <1>5, TabsAreSessions DEF Pages
<1>7. TabsInv(closed)
  BY <1>3, <1>4, <1>6, TabsAreSessions DEF IInv, TabsInv, Tabs
<1>8. TabsInv(page') /\ ChatInv(page') /\ BubblesInv(page)' /\ page'.sessions = tabs
  <2>1. CASE page.active = id
    <3>1. tabs[1] \in ToSet(tabs)
      <4>1. Len(page.sessions) \in Nat /\ DOMAIN tabs = 1..Len(tabs)
        BY <1>3
      <4>2. 1 \in DOMAIN tabs
        BY <1>1, <1>3, <4>1
      <4>3. QED BY <4>2 DEF ToSet
    <3>2. TabsInv(page') /\ ChatInv(page') /\ page'.sessions = tabs /\ page'.bubbles = {}
      BY <1>1, <1>6, <1>7, <2>1, <3>1, SwitchedToKeeps DEF IInv
    <3>3. QED BY <3>2 DEF BubblesInv
  <2>2. CASE page.active # id
    <3>1. page' = closed
      BY <1>1, <2>2
    <3>2. ChatInv(closed)
      BY <1>3, <1>4, <1>6, <2>2, TabsAreSessions DEF IInv, ChatInv, Tabs
    <3>3. BubblesInv(page)'
      BY <1>1, <1>6, <3>1 DEF IInv, BubblesInv, Awaited
    <3>4. QED BY <1>6, <1>7, <3>1, <3>2, <3>3
  <2>3. QED BY <2>1, <2>2
<1>9. TabsInv(page)' /\ ChatInv(page)'
  BY <1>1, <1>8 DEF TabsInv, ChatInv
<1>10. WireInv'
  BY <1>1, <1>2, <1>3, <1>8 DEF IInv, WireInv, Tabs
<1>11. QED BY <1>1, <1>2, <1>8, <1>9, <1>10 DEF IInv

\* A page that is loaded again has nothing cached and nothing painted.
LEMMA LoadedKeeps ==
  ASSUME server \in [Sessions -> States], NEW tabs \in Seq(Sessions), IsInjective(tabs), NEW id \in ToSet(tabs)
  PROVE  LET p == Loaded(tabs, id) IN TabsInv(p) /\ ChatInv(p) /\ p.sessions = tabs /\ p.bubbles = {}
<1> DEFINE p == Loaded(tabs, id)
           caches == [other \in Sessions |-> NoCache]
<1>1. \A other \in ToSet(tabs) : other \in Sessions
  BY DEF ToSet
<1>2. /\ caches \in [Sessions -> Caches]
      /\ \A other \in Sessions : caches[other].lastState = None /\ caches[other].rendered = {}
  <2>1. NoCache \in Caches /\ NoCache.lastState = None /\ NoCache.rendered = {}
    BY DEF NoCache, Caches
  <2>2. QED BY <2>1
<1>3. p = [sessions |-> tabs, active |-> id, cache |-> caches, painted |-> <<>>, bubbles |-> {}, note |-> FALSE,
           status |-> "idle", disabled |-> FALSE, banner |-> FALSE, button |-> None]
  BY DEF Loaded
<1> HIDE DEF p, caches
<1>4. /\ p.sessions = tabs /\ p.active = id /\ p.cache = caches /\ p.painted = <<>>
      /\ p.bubbles = {} /\ p.button = None
  BY <1>3
<1>5. p \in Pages
  BY <1>1, <1>2, <1>3 DEF Pages, Statuses
<1>6. TabsInv(p)
  BY <1>1, <1>2, <1>4, <1>5 DEF TabsInv
<1>7. ChatInv(p)
  <2>1. server[id].messages \in Transcripts
    BY <1>1 DEF States, Transcripts
  <2>2. Len(<<>>) = 0 /\ DOMAIN <<>> = {} /\ 0 <= Len(server[id].messages)
    BY <2>1 DEF Transcripts
  <2>3. QED BY <1>1, <1>2, <1>4, <2>2 DEF ChatInv
<1>8. QED BY <1>4, <1>6, <1>7 DEF p

LEMMA ReloadKeeps == ASSUME IInv, Reload PROVE IInv'
<1>1. /\ page' = Loaded(page.sessions, page.active) /\ posts' = {[q EXCEPT !.open = FALSE] : q \in posts}
      /\ polls' = {} /\ UNCHANGED <<server, failed>> /\ clicks' \in 0..MaxClicks
  BY ClickCounts DEF Reload
<1>2. /\ page.sessions \in Seq(Sessions) /\ IsInjective(page.sessions) /\ page.active \in ToSet(page.sessions)
  BY TabsAreSessions DEF IInv, TabsInv, ChatInv, Pages
<1>3. TabsInv(page') /\ ChatInv(page') /\ page'.sessions = page.sessions /\ page'.bubbles = {}
  BY <1>1, <1>2, LoadedKeeps DEF IInv
<1>4. TabsInv(page)' /\ ChatInv(page)' /\ BubblesInv(page)'
  BY <1>1, <1>3 DEF TabsInv, ChatInv, BubblesInv
<1>5. \A q \in Posts : [q EXCEPT !.open = FALSE] \in Posts /\ [q EXCEPT !.open = FALSE].kind = q.kind
                       /\ [q EXCEPT !.open = FALSE].session = q.session
  BY DEF Posts
<1>6. WireInv'
  <2>1. ASSUME NEW other \in posts'
        PROVE  other \in Posts /\ (other.kind = "reset" => other.session \notin ToSet(page.sessions))
    <3>1. PICK q \in posts : other = [q EXCEPT !.open = FALSE]
      BY <1>1
    <3>2. q \in Posts /\ (q.kind = "reset" => q.session \notin ToSet(page.sessions))
      BY DEF IInv, WireInv
    <3>3. QED BY <1>5, <3>1, <3>2
  <2>2. QED BY <1>1, <1>3, <2>1 DEF IInv, WireInv
<1>7. QED BY <1>1, <1>4, <1>6 DEF IInv

\* A lost request will never be echoed: its bubble stays.
LEMMA LostKeeps == ASSUME IInv, NEW q \in posts, Lost(q) PROVE IInv'
<1>1. posts' = posts \ {q} /\ failed' = failed \cup {q} /\ UNCHANGED <<server, polls, page, clicks>>
  BY DEF Lost
<1>2. posts' \cup failed' = posts \cup failed
  BY <1>1
<1>3. TabsInv(page)' /\ ChatInv(page)' /\ BubblesInv(page)'
  BY <1>1, <1>2 DEF IInv, TabsInv, ChatInv, BubblesInv, Awaited
<1>4. WireInv'
  BY <1>1 DEF IInv, WireInv
<1>5. QED BY <1>1, <1>3, <1>4 DEF IInv

\* A fetch that throws may have been a call all the same.
LEMMA FetchFailsKeeps == ASSUME IInv, NEW q \in posts, FetchFails(q) PROVE IInv'
<1> DEFINE shut == [q EXCEPT !.open = FALSE]
           button == [page.button EXCEPT !.click = 0]
<1>1. /\ q \in Posts /\ posts' = (posts \ {q}) \cup {shut} /\ UNCHANGED <<server, failed, polls, clicks>>
      /\ \/ page' = [page EXCEPT !.note = TRUE]
         \/ page.button # None /\ page' = [page EXCEPT !.button = button]
         \/ page' = page
  BY DEF FetchFails, IInv, WireInv
<1>2. shut \in Posts /\ shut.session = q.session /\ shut.kind = q.kind /\ shut.content = q.content
  BY <1>1 DEF Posts
<1> HIDE DEF shut
<1>3. page.button # None => button \in Buttons /\ button.at = page.button.at
  <2>1. 0 \in 0..MaxClicks
    OBVIOUS
  <2>2. QED BY <2>1, TabsAreSessions DEF Pages, Buttons
<1> HIDE DEF button
<1>4. /\ page' \in Pages /\ page'.sessions = page.sessions /\ page'.active = page.active /\ page'.cache = page.cache
      /\ page'.painted = page.painted /\ page'.bubbles = page.bubbles
      /\ page'.button # None => page.button # None /\ page'.button.at = page.button.at
  <2>1. CASE page' = [page EXCEPT !.note = TRUE]
    BY <2>1, TabsAreSessions DEF Pages
  <2>2. CASE page.button # None /\ page' = [page EXCEPT !.button = button]
    BY <1>3, <2>2, TabsAreSessions DEF Pages
  <2>3. CASE page' = page
    BY <2>3, TabsAreSessions
  <2>4. QED BY <1>1, <2>1, <2>2, <2>3
<1>5. TabsInv(page)' /\ ChatInv(page)'
  BY <1>1, <1>4 DEF IInv, TabsInv, ChatInv
<1>6. BubblesInv(page)'
  <2>1. \A other \in posts \cup failed : \E kept \in posts' \cup failed' :
          kept.session = other.session /\ kept.kind = other.kind /\ kept.content = other.content
    BY <1>1, <1>2
  <2>2. \A content \in page.bubbles : Awaited(page, content)
    BY DEF IInv, BubblesInv
  <2>3. \A content \in page.bubbles : Awaited(page, content)'
    BY <1>1, <1>4, <2>1, <2>2 DEF Awaited
  <2>4. QED BY <1>4, <2>3 DEF BubblesInv
<1>7. WireInv'
  BY <1>1, <1>2, <1>4 DEF IInv, WireInv
<1>8. QED BY <1>1, <1>5, <1>6, <1>7 DEF IInv

-----------------------------------------------------------------------------
(* The invariant.                                                           *)

LEMMA InitHolds == Init => IInv
<1> SUFFICES ASSUME Init PROVE IInv
  OBVIOUS
<1> DEFINE tabs == <<FirstOne>>
<1>1. /\ server = [id \in Sessions |-> NewSession] /\ posts = {} /\ failed = {} /\ polls = {}
      /\ page = Loaded(tabs, FirstOne) /\ clicks = 0
  BY DEF Init
<1>2. NewSession \in States
  BY DEF NewSession, States, Statuses
<1>3. server \in [Sessions -> States] /\ clicks \in 0..MaxClicks
  BY <1>1, <1>2
<1>4. tabs \in Seq(Sessions) /\ IsInjective(tabs) /\ FirstOne \in ToSet(tabs)
  BY DEF IsInjective, ToSet
<1> HIDE DEF tabs
<1>5. TabsInv(page) /\ ChatInv(page) /\ page.bubbles = {}
  BY <1>1, <1>3, <1>4, LoadedKeeps
<1>6. QED BY <1>1, <1>3, <1>5 DEF IInv, BubblesInv, WireInv

\* Steps of nobody keep it.
LEMMA StutterKeeps == ASSUME IInv, UNCHANGED vars PROVE IInv'
<1> USE DEF vars
<1>1. TabsInv(page)' /\ ChatInv(page)' /\ BubblesInv(page)' /\ WireInv'
  BY DEF IInv, TabsInv, ChatInv, BubblesInv, Awaited, WireInv
<1>2. QED BY <1>1 DEF IInv

LEMMA NextKeeps == IInv /\ [Next]_vars => IInv'
<1> SUFFICES ASSUME IInv, [Next]_vars PROVE IInv'
  OBVIOUS
<1>1. CASE \E content \in Contents : Submit(content)
  BY <1>1, SubmitKeeps
<1>2. CASE ClickAppeal
  BY <1>2, ClickAppealKeeps
<1>3. CASE \E id \in Sessions : SwitchTo(id) \/ AddSession(id) \/ CloseSession(id)
  BY <1>3, SwitchToKeeps, AddSessionKeeps, CloseSessionKeeps
<1>4. CASE Reload
  BY <1>4, ReloadKeeps
<1>5. CASE \E q \in posts : Serve(q) \/ Lost(q) \/ FetchFails(q)
  BY <1>5, ServeKeeps, LostKeeps, FetchFailsKeeps
<1>6. CASE \E r \in polls : Receive(r)
  BY <1>6, ReceiveKeeps
<1>7. CASE \E id \in Sessions : Turn(id) \/ Poll(id)
  BY <1>7, TurnKeeps, PollKeeps
<1>8. CASE UNCHANGED vars
  BY <1>8, StutterKeeps
<1>9. QED BY <1>1, <1>2, <1>3, <1>4, <1>5, <1>6, <1>7, <1>8 DEF Next, Operator

LEMMA Invariant == Spec => []IInv
<1>1. QED BY InitHolds, NextKeeps, PTL DEF Spec

-----------------------------------------------------------------------------
(* The theorems.                                                            *)

\* TypeOK, for any sessions, contents and bounds: the tabs stay different
\* sessions through adding, closing and reloading, the shown session keeps a
\* tab, and the appeal button (app.js:281-306) sits in a block that is painted.
THEOREM TypesCorrect == Spec => []TypeOK
<1>1. IInv => TypeOK
  BY DEF IInv, TabsInv, ChatInv, WireInv, TypeOK, Pages
<1>2. QED BY <1>1, Invariant, PTL

\* TranscriptFaithful: whatever the order in which answers arrive and tabs are
\* switched, closed and added, the chat is a beginning of the transcript of
\* its session (app.js:137-153, 222-233, 308-328).
THEOREM ChatsFaithful == Spec => []TranscriptFaithful
<1>1. IInv => TranscriptFaithful
  BY DEF IInv, ChatInv, TranscriptFaithful
<1>2. QED BY <1>1, Invariant, PTL

\* BubbleIsOnItsWay: a bubble is never shown beside the echo of its message
\* and none stands for nothing (app.js:70-85, 317-324).
THEOREM BubblesOnTheirWay == Spec => []BubbleIsOnItsWay
<1>1. IInv => BubbleIsOnItsWay
  BY DEF IInv, BubblesInv, Awaited, BubbleIsOnItsWay, OnItsWay
<1>2. QED BY <1>1, Invariant, PTL
=============================================================================
