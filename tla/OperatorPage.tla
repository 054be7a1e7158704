----------------------------- MODULE OperatorPage -----------------------------
(***************************************************************************)
(* web/operator/app.js: one operator page with its session tabs, over      *)
(* sessions whose turns go on while the page polls them.                   *)
(*                                                                         *)
(* The page asks for the state of every session each 800 ms and does not   *)
(* wait for earlier answers, so answers may arrive in any order (polls).   *)
(* Requests that change a session travel in posts and may be reordered,    *)
(* refused or lost.  A session is what getState shows of it; a turn is     *)
(* reduced to the messages and statuses a page can tell apart.             *)
(***************************************************************************)
EXTENDS Naturals, Sequences, FiniteSets, SequencesExt

CONSTANTS
  Sessions,    \* ids freshSessionId may draw
  FirstOne,    \* the session that is shown first
  Contents,    \* what the operator may type
  MaxMessages, \* bound of the model: a transcript this long ends its turn
  MaxClicks,   \* bound of the model: things the operator does
  MaxPolls     \* bound of the model: unanswered polls

ASSUME SessionsAssumption == FirstOne \in Sessions
ASSUME BoundsAssumption == {MaxMessages, MaxClicks, MaxPolls} \subseteq Nat

Busy == {"thinking", "calling_tool", "needs_approval", "appeal_pending"}
Statuses == {"idle", "complete", "failed", "blocked_appealable"} \cup Busy

None == [none |-> TRUE]

VARIABLES
  server, \* server[id]: what getState answers, and the status about to be set
  posts,  \* requests on their way: [session, kind, content, click, open]
  failed, \* requests that will never be served (history)
  polls,  \* answers on their way: [session, state]
  page,   \* the page: tabs, caches, and what it shows
  clicks  \* things the operator did

vars == <<server, posts, failed, polls, page, clicks>>

NewSession == [status |-> "idle", next |-> "none", messages |-> <<>>,
               approval |-> FALSE, appeal |-> FALSE]

NoCache == [rendered |-> {}, lastState |-> None]

\* A page as it loads: it knows its tabs from localStorage and nothing else.
Loaded(tabs, active) ==
  [sessions |-> tabs, active |-> active, cache |-> [id \in Sessions |-> NoCache],
   painted |-> <<>>, bubbles |-> {}, note |-> FALSE, status |-> "idle",
   disabled |-> FALSE, banner |-> FALSE, button |-> None]

\* A page that is opened for the first time: localStorage is empty.
Init ==
  /\ server = [id \in Sessions |-> NewSession]
  /\ posts = {} /\ failed = {} /\ polls = {}
  /\ page = Loaded(<<FirstOne>>, FirstOne)
  /\ clicks = 0

-----------------------------------------------------------------------------
(* The sessions.  A message is written before the status that follows it,  *)
(* and getState may be answered in between: for the user's message and the  *)
(* block, where the page looks at both, that is a step of its own.          *)

Say(s, role, content, next) ==
  [s EXCEPT !.messages = Append(@, [role |-> role, content |-> content]), !.next = next]
SetStatus(s) == [s EXCEPT !.status = s.next, !.next = "none"]
Note(s, status) == SetStatus(Say(s, "other", "", status))

\* What getState shows.
Shown(s) == [s EXCEPT !.next = "none"]

AtRest(s) == s.next = "none" /\ s.status \notin Busy

\* sendMessage, reset and requestAppeal, once nothing else runs on the object.
Served(s, p) ==
  CASE p.kind = "message" -> Say(s, "user", p.content, "thinking")
    [] p.kind = "reset" -> NewSession
    [] p.kind = "appeal" -> IF s.appeal /\ s.status = "blocked_appealable"
                            THEN Note(s, "appeal_pending") ELSE s

Serve(p) ==
  /\ p \in posts /\ AtRest(server[p.session])
  /\ server' = [server EXCEPT ![p.session] = Served(@, p)]
  /\ posts' = posts \ {p}
  /\ UNCHANGED <<failed, polls, page, clicks>>

\* runLoop, dispatchToolCall and the decisions they wait for: what may follow
\* the status s is in.  A turn that fails and one that completes end alike.
More(s) == Len(s.messages) < MaxMessages
AfterThinking(s) == {Note(s, "complete")} \cup IF More(s) THEN {[s EXCEPT !.status = "calling_tool"]} ELSE {}
AfterCall(s) ==
  {Note(s, "failed"), Say([s EXCEPT !.appeal = TRUE], "block", "", "blocked_appealable")} \cup
  IF More(s) THEN {Note(s, "thinking"), [s EXCEPT !.approval = TRUE, !.status = "needs_approval"]} ELSE {}

\* The note that it waits follows the status.
Waiting == [role |-> "other", content |-> "Waiting"]
AfterApproval(s) ==
  LET t == [s EXCEPT !.approval = FALSE]
  IN IF Last(s.messages) = Waiting THEN {Note(t, "calling_tool"), Note(t, "failed")}
     ELSE {[s EXCEPT !.messages = Append(@, Waiting)]}

AfterAppeal(s) == {Note([s EXCEPT !.appeal = FALSE], "thinking"), Note([s EXCEPT !.appeal = FALSE], "failed"), Note(s, "failed")}

After(s) ==
  CASE s.status = "thinking" -> AfterThinking(s)
    [] s.status = "calling_tool" -> AfterCall(s)
    [] s.status = "needs_approval" -> AfterApproval(s)
    [] s.status = "appeal_pending" -> AfterAppeal(s)
    [] OTHER -> {}

Turn(id) ==
  /\ \E s \in IF server[id].next = "none" THEN After(server[id]) ELSE {SetStatus(server[id])} :
       server' = [server EXCEPT ![id] = s]
  /\ UNCHANGED <<posts, failed, polls, page, clicks>>

-----------------------------------------------------------------------------
(* renderActive: what a page makes of a state of its active session.  The   *)
(* nodes of messages are painted one below the other; of the bubbles only   *)
(* their contents matter, as an echo removes all with its content, and of   *)
(* the notes that a request failed only that there are some.                *)

Node(s, k) == [kind |-> s.messages[k].role, id |-> k, content |-> s.messages[k].content]

Blocks(nodes) == {nodes[i].id : i \in {j \in DOMAIN nodes : nodes[j].kind = "block"}}

\* Mutant: nobody removes an appeal action.
ButtonNeverRemoved(p, s) ==
  LET blocks == Blocks(p.painted)
      last == CHOOSE k \in blocks : \A j \in blocks : j <= k
  IN IF blocks = {} THEN p.button
     ELSE IF s.status = "blocked_appealable" /\ s.appeal THEN [at |-> last, click |-> 0] ELSE p.button

\* The appeal action sits in the last block that is painted by now; the new
\* messages of s are painted after it was placed.
Button(p, s) ==
  LET blocks == Blocks(p.painted)
      last == CHOOSE k \in blocks : \A j \in blocks : j <= k
  IN IF s.status # "blocked_appealable" \/ ~s.appeal THEN None
     ELSE IF blocks = {} \/ (p.button # None /\ p.button.at = last) THEN p.button
     ELSE [at |-> last, click |-> 0]

\* The messages of s that are not painted yet, in their order.
Unseen(p, s) == DOMAIN s.messages \ p.cache[p.active].rendered
Nth(S, n) == CHOOSE k \in S : Cardinality({j \in S : j < k}) = n - 1
AppendNew(p, s) ==
  p.painted \o [n \in 1..Cardinality(Unseen(p, s)) |-> Node(s, Nth(Unseen(p, s), n))]

\* Mutant: the echo leaves the bubble it answers.
BubblesBesideEcho(p, s) == p.bubbles

\* An echo removes the bubbles with its content.
Bubbles(p, s) ==
  p.bubbles \ {s.messages[k].content : k \in {j \in Unseen(p, s) : s.messages[j].role = "user"}}

\* Mutant: what is painted is taken from the last answer alone.
RenderActiveForgets(p, s) ==
  [p EXCEPT !.status = s.status,
            !.disabled = s.status \in Busy,
            !.banner = s.approval,
            !.button = Button(p, s),
            !.painted = AppendNew(p, s),
            !.bubbles = Bubbles(p, s),
            !.cache[p.active].rendered = DOMAIN s.messages]

RenderActive(p, s) ==
  [p EXCEPT !.status = s.status,
            !.disabled = s.status \in Busy,
            !.banner = s.approval,
            !.button = Button(p, s),
            !.painted = AppendNew(p, s),
            !.bubbles = Bubbles(p, s),
            !.cache[p.active].rendered = @ \cup DOMAIN s.messages]

-----------------------------------------------------------------------------
(* Polling.                                                                 *)

Poll(id) ==
  /\ id \in ToSet(page.sessions)
  /\ Cardinality(polls) < MaxPolls
  /\ polls' = polls \cup {[session |-> id, state |-> Shown(server[id])]}
  /\ UNCHANGED <<server, posts, failed, page, clicks>>

\* pollOne, when the answer is there.
Receive(r) ==
  LET p == [page EXCEPT !.cache[r.session].lastState = r.state] IN
  /\ r \in polls
  /\ polls' = polls \ {r}
  /\ page' = IF r.session = p.active THEN RenderActive(p, r.state) ELSE p
  /\ UNCHANGED <<server, posts, failed, clicks>>

-----------------------------------------------------------------------------
(* The operator.                                                            *)

Click == clicks < MaxClicks /\ clicks' = clicks + 1

Request(kind, id, content) == [session |-> id, kind |-> kind, content |-> content, click |-> clicks + 1,
                               open |-> kind # "reset"]

\* The submit event: the bubble first, then the request.
Submit(content) ==
  /\ Click /\ ~page.disabled
  /\ page' = [page EXCEPT !.bubbles = @ \cup {content}]
  /\ posts' = posts \cup {Request("message", page.active, content)}
  /\ UNCHANGED <<server, failed, polls>>

ClickAppeal ==
  /\ Click /\ page.button # None /\ page.button.click = 0
  /\ page' = [page EXCEPT !.button.click = clicks + 1]
  /\ posts' = posts \cup {Request("appeal", page.active, "")}
  /\ UNCHANGED <<server, failed, polls>>

\* switchTo: wipe, and paint what was polled last, if anything was.
SwitchedTo(p, id) ==
  LET wiped == [p EXCEPT !.active = id, !.cache[id].rendered = {}, !.painted = <<>>,
                         !.bubbles = {}, !.note = FALSE, !.button = None]
  IN IF p.cache[id].lastState # None THEN RenderActive(wiped, p.cache[id].lastState)
     ELSE [wiped EXCEPT !.status = "idle"]

SwitchTo(id) ==
  /\ Click /\ id \in ToSet(page.sessions)
  /\ page' = SwitchedTo(page, id)
  /\ UNCHANGED <<server, posts, failed, polls>>

\* A fresh id: one no tab, no request and no session has used.
AddSession(id) ==
  /\ Click /\ id \notin ToSet(page.sessions) /\ server[id] = NewSession
  /\ page.cache[id] = NoCache /\ \A p \in posts \cup failed \cup polls : p.session # id
  /\ page' = SwitchedTo([page EXCEPT !.sessions = Append(@, id)], id)
  /\ UNCHANGED <<server, posts, failed, polls>>

\* The tabs are different sessions, so closing removes one.
Without(tabs, id) == RemoveAt(tabs, CHOOSE i \in DOMAIN tabs : tabs[i] = id)

\* Mutant: the tab that is shown is closed and stays shown.
CloseSessionShown(id) ==
  /\ Click /\ id \in ToSet(page.sessions) /\ Len(page.sessions) > 1
  /\ posts' = posts \cup {Request("reset", id, "")}
  /\ page' = [page EXCEPT !.sessions = Without(@, id), !.cache[id] = NoCache]
  /\ UNCHANGED <<server, failed, polls>>

CloseSession(id) ==
  LET tabs == Without(page.sessions, id)
      closed == [page EXCEPT !.sessions = tabs, !.cache[id] = NoCache]
  IN /\ Click /\ id \in ToSet(page.sessions) /\ Len(page.sessions) > 1
     /\ posts' = posts \cup {Request("reset", id, "")}
     /\ page' = IF page.active = id THEN SwitchedTo(closed, tabs[1]) ELSE closed
     /\ UNCHANGED <<server, failed, polls>>

\* The tabs and the active one are stored at every change and survive; the
\* answers the old page waited for do not.
Reload ==
  /\ Click
  /\ page' = Loaded(page.sessions, page.active)
  /\ posts' = {[p EXCEPT !.open = FALSE] : p \in posts}
  /\ polls' = {}
  /\ UNCHANGED <<server, failed>>

\* A request that never becomes a call; if it is answered with an error
\* status nobody looks at it.
Lost(p) ==
  /\ p \in posts
  /\ posts' = posts \ {p} /\ failed' = failed \cup {p}
  /\ UNCHANGED <<server, polls, page, clicks>>

\* fetch throws, whether the call was made or not: a note in the messages
\* that are shown by now, or the button of this very click enabled again.
FetchFails(p) ==
  /\ p \in posts /\ p.open
  /\ posts' = (posts \ {p}) \cup {[p EXCEPT !.open = FALSE]}
  /\ page' = CASE p.kind = "message" -> [page EXCEPT !.note = TRUE]
               [] p.kind = "appeal" /\ page.button # None /\ page.button.click = p.click ->
                    [page EXCEPT !.button.click = 0]
               [] OTHER -> page
  /\ UNCHANGED <<server, failed, polls, clicks>>

-----------------------------------------------------------------------------

Operator ==
  \/ \E content \in Contents : Submit(content)
  \/ ClickAppeal
  \/ \E id \in Sessions : SwitchTo(id) \/ AddSession(id) \/ CloseSession(id)
  \/ Reload

Next ==
  \/ Operator
  \/ \E p \in posts : Serve(p) \/ Lost(p) \/ FetchFails(p)
  \/ \E r \in polls : Receive(r)
  \/ \E id \in Sessions : Turn(id) \/ Poll(id)

\* setInterval polls every tab again and again, and for every tab answers keep
\* arriving.  Nothing else is fair: turns may wait for a human for ever,
\* requests may stay on their way, and the operator may stop.
Fairness ==
  \A id \in Sessions : SF_vars(Poll(id)) /\ WF_vars(\E r \in polls : r.session = id /\ Receive(r))

Spec == Init /\ [][Next]_vars /\ Fairness

-----------------------------------------------------------------------------
(* Properties.                                                              *)

Roles == {"user", "block", "other"}
Texts == Contents \cup {"", "Waiting"}
States == [status : Statuses, next : Statuses \cup {"none"}, messages : Seq([role : Roles, content : Texts]),
           approval : BOOLEAN, appeal : BOOLEAN]
Posts == [session : Sessions, kind : {"message", "reset", "appeal"}, content : Contents \cup {""},
          click : 1..MaxClicks, open : BOOLEAN]
Polls == [session : Sessions, state : States]
Caches == [rendered : SUBSET Nat, lastState : States \cup {None}]
Nodes == [kind : Roles, id : Nat, content : Texts]
Buttons == [at : Nat, click : 0..MaxClicks]
Pages == [sessions : Seq(Sessions), active : Sessions, cache : [Sessions -> Caches],
          painted : Seq(Nodes), bubbles : SUBSET Contents, note : BOOLEAN,
          status : Statuses, disabled : BOOLEAN, banner : BOOLEAN, button : Buttons \cup {None}]

\* Every value is of its type, the tabs are different sessions and the shown
\* one is among them, and the appeal button sits in a block that is painted.
TypeOK ==
  /\ server \in [Sessions -> States]
  /\ posts \subseteq Posts /\ failed \subseteq Posts /\ polls \subseteq Polls
  /\ page \in Pages
  /\ IsInjective(page.sessions) /\ page.active \in ToSet(page.sessions)
  /\ page.button # None => page.button.at \in Blocks(page.painted)
  /\ clicks \in 0..MaxClicks

\* The chat shows the transcript of the active session from its beginning,
\* in order, nothing twice and nothing left out, whatever the order in which
\* answers arrive and tabs are switched (renderedIds and the DOM agree).
TranscriptFaithful ==
  LET s == server[page.active] IN
  /\ Len(page.painted) <= Len(s.messages)
  /\ \A k \in DOMAIN page.painted : page.painted[k] = Node(s, k)

\* A bubble stands for a message whose echo is still to come (or never will
\* because its request failed): it is never shown beside its echo.
OnItsWay(content) ==
  \/ \E p \in posts \cup failed : p.session = page.active /\ p.kind = "message" /\ p.content = content
  \/ \E k \in DOMAIN server[page.active].messages :
       k > Len(page.painted) /\ server[page.active].messages[k] = [role |-> "user", content |-> content]
BubbleIsOnItsWay == \A content \in page.bubbles : OnItsWay(content)

\* Once the operator rests, the page comes to show its active session as it
\* is: status, input, banner, whole transcript, no bubble left over but those
\* of failed requests, and the appeal button exactly on the last block while
\* that can be appealed.
LastBlock(s) == {k \in DOMAIN s.messages : s.messages[k].role = "block" /\
                   \A j \in DOMAIN s.messages : s.messages[j].role = "block" => j <= k}
InSync ==
  LET s == server[page.active] IN
  /\ page.status = s.status /\ (page.disabled <=> s.status \in Busy) /\ (page.banner <=> s.approval)
  /\ Len(page.painted) = Len(s.messages)
  /\ IF s.status = "blocked_appealable" /\ s.appeal
       THEN page.button # None /\ page.button.at \in LastBlock(s)
       ELSE page.button = None
  /\ \A content \in page.bubbles :
       \E p \in posts \cup failed : p.session = page.active /\ p.kind = "message" /\ p.content = content
PageCatchesUp == <>[]InSync
=============================================================================
