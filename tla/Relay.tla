------------------------------- MODULE Relay -------------------------------
(***************************************************************************)
(* The ChatGPT relay: the dialog of the browser (app/static/app.js) that   *)
(* leases a piece of semantic work, shows its prompt and posts the answer  *)
(* that a human brings back, over the handlers of app/server.py.           *)
(*                                                                         *)
(* A tab runs callbacks one at a time, but a flow that awaits a call leaves *)
(* the tab to the user and to other flows, and gptRelayState is whatever   *)
(* the last of them wrote.  Calls arrive late, or are lost before or after *)
(* the server has handled them.                                            *)
(*                                                                         *)
(* A job is abstracted to what the relay can tell apart: the revision of   *)
(* its workflow, what that waits for, and its requests, numbered as they   *)
(* are made (SemanticOperations has the rest).  A text is known by what it *)
(* was written for.  An owner's gate is known by its revision.             *)
(***************************************************************************)
EXTENDS Integers, Sequences, FiniteSets

CONSTANTS
  Job, Tab,
  HolderOf,    \* holder of each tab and job
  Slot,        \* places for flows that await something
  Demo,        \* holder of the leases of a synthetic generation
  Review,      \* numbers of the requests that ask for a review verdict
  MaxRevision, \* bound on the revisions of a workflow
  MaxRequests, \* bound on the requests of a job
  None

ASSUME RelayAssumption ==
  /\ Demo \notin Tab
  /\ None \notin Tab \cup Job \cup {Demo}
  /\ MaxRevision \in Nat /\ MaxRequests \in Nat

VARIABLES
  revision,   \* revision of the workflow of a job
  waits,      \* what the workflow waits for
  requests,   \* revision of each request of a job
  lease,      \* holder of the current request of a job, or None
  accepted,   \* text accepted for each request of a job, or None
  demo,       \* request that a synthetic generation works on, or 0
  relay,      \* gptRelayState of a tab: [job, holder, identity], or None
  dialog,     \* whether the dialog of a tab is open
  ready,      \* whether it shows a prompt and a box for the answer
  enabled,    \* whether its submit button is enabled
  shown,      \* the prompt: [job, request, revision], or None
  pasted,     \* the text in the box, or None
  flow,       \* the flows of the tabs that await something
  told,       \* answers of which a tab said that they are saved
  overlapped  \* tabs that opened a relay beside a running flow

server  == <<revision, waits, requests, lease, accepted, demo>>
page    == <<relay, dialog, ready, enabled, shown, pasted>>
history == <<told, overlapped>>
vars    == <<server, page, flow, history>>

-----------------------------------------------------------------------------
(* The server                                                              *)

\* gptHolderId: a holder of the tab and the job; but a tab that is duplicated
\* copies the holders of the first one, and tabs that cannot store theirs all use
\* the same, so nothing is assumed of HolderOf.
Holder(t, j) == HolderOf[t, j]

Text == [job : Job, request : 0..MaxRequests, revision : 0..MaxRevision,
         author : Tab \cup {Demo}]

Latest(j) == Len(requests[j])

Open(j) == Latest(j) > 0 /\ accepted[j][Latest(j)] = None

SlipCurrent(j) == IF Open(j) THEN Latest(j) ELSE 0

\* load_current_for_job: the live request of the present revision, or 0.
Current(j) ==
  IF Open(j) /\ requests[j][Latest(j)] = revision[j] THEN Latest(j) ELSE 0

\* The leases of a synthetic generation are dated in the past.
Leasable(j, holder) == lease[j] \in {None, holder, Demo}

Reply(status, n) == [status |-> status, request |-> n, revision |-> 0]

Handled(s, at, reply) ==
  flow' = [flow EXCEPT ![s].at = at, ![s].reply = reply]

\* A transition of the workflow.
Moves(j, next) ==
  /\ revision[j] < MaxRevision
  /\ revision' = [revision EXCEPT ![j] = @ + 1]
  /\ waits' = [waits EXCEPT ![j] = next]

\* POST semantic-request leases the current request, or makes it.
LeaseCurrent(j, holder) ==
  IF Current(j) # 0
    THEN Leasable(j, holder) /\ UNCHANGED requests
    ELSE Latest(j) < MaxRequests /\ requests' = [requests EXCEPT ![j] = Append(@, revision[j])]

Grant(s) ==
  LET f == flow[s] IN
  /\ f.at \in {"acquire", "renew"}
  /\ waits[f.job] = "semantic"
  /\ f.holder # None
  /\ LeaseCurrent(f.job, f.holder)
  /\ lease' = [lease EXCEPT ![f.job] = f.holder]
  /\ Handled(s, IF f.at = "acquire" THEN "acquired" ELSE "renewed",
             Reply("request", Len(requests'[f.job])))
  /\ UNCHANGED <<revision, waits, accepted, demo, page, history>>

\* Nothing to do, a holder with a lease that runs, or no holder in the body.
Deny(s) ==
  LET f == flow[s] IN
  /\ f.at \in {"acquire", "renew"}
  /\ \/ waits[f.job] # "semantic"
     \/ f.holder = None
     \/ Current(f.job) # 0 /\ ~Leasable(f.job, f.holder)
  /\ Handled(s, IF f.at = "acquire" THEN "acquired" ELSE "renewed",
             Reply(IF f.holder # None /\ waits[f.job] # "semantic"
                     THEN "none" ELSE "refused", 0))
  /\ UNCHANGED <<server, page, history>>

\* GET pending_work looks the request up ...
Observe(s) ==
  LET f == flow[s] IN
  /\ f.at = "pending"
  /\ IF Current(f.job) = 0
       THEN Handled(s, "pended", Reply("none", 0))
       ELSE Handled(s, "observed", Reply("request", Current(f.job)))
  /\ UNCHANGED <<server, page, history>>

\* The continuation, of which the relay can tell only how new it is.
ContinuationOf(j) == revision[j]

\* ... and builds its prompt from the continuation, read after it.
BuildPrompt(s) ==
  /\ flow[s].at = "observed"
  /\ flow' = [flow EXCEPT ![s].at = "pended",
                          ![s].reply.revision = ContinuationOf(flow[s].job)]
  /\ UNCHANGED <<server, page, history>>

\* The link to a piece of evidence is for one request, and works while that is
\* the current one.
Download(s, t) ==
  /\ dialog[t] /\ ready[t] /\ flow[s] = None
  /\ shown[t].request = Current(shown[t].job)
  /\ flow' = [flow EXCEPT ![s] =
       [tab |-> t, at |-> "download", job |-> shown[t].job, holder |-> None,
        identity |-> [job |-> shown[t].job, request |-> shown[t].request],
        text |-> None, reply |-> None]]
  /\ UNCHANGED <<server, page, history>>

\* Its bytes come from the continuation, read after the look at the request:
\* what the user has then is as new as that.
ReadEvidence(s) ==
  LET f == flow[s] IN
  /\ f.at = "download"
  /\ flow' = [flow EXCEPT ![s] = None]
  /\ shown' = IF /\ shown[f.tab].job = f.identity.job
                 /\ shown[f.tab].request = f.identity.request
                THEN [shown EXCEPT ![f.tab].revision = ContinuationOf(f.job)]
                ELSE shown
  /\ UNCHANGED <<server, relay, dialog, ready, enabled, pasted, history>>

SlipMatches(text, j, n) == TRUE

\* matches_accepted_text
Matches(text, j, n) == accepted[j][n] = text

\* What POST result looks at first.
Repeats(f) ==
  /\ f.identity.job = f.job
  /\ accepted[f.job][f.identity.request] # None
  /\ f.identity.request \notin Review
  /\ Matches(f.text, f.job, f.identity.request)

\* canonicalize_relay_result puts the identity of the request in progress around
\* whatever text came back.
Canonicalized(j, text) == [accepted[j] EXCEPT ![Current(j)] = text]

\* submit_semantic_result: a piece of evidence leaves the workflow where it is
\* and opens the owner's gate; any other answer is a transition.
Accept(j, text) ==
  /\ accepted' = [accepted EXCEPT ![j] = Canonicalized(j, text)]
  /\ lease' = [lease EXCEPT ![j] = None]
  /\ \/ waits' = [waits EXCEPT ![j] = "owner"] /\ UNCHANGED revision
     \/ \E next \in {"semantic", "owner", "nothing"} : Moves(j, next)

Posted(f) == IF f.at = "post" THEN "posted" ELSE "repeated"

\* The identity that came with an answer is that of the request in progress.
IsAwaited(f) == f.identity.request = Current(f.job)

\* POST result takes the answer when its request is the one the job waits for
\* and the lease is the poster's.
TakeAnswer(s) ==
  LET f == flow[s] IN
  /\ f.at \in {"repeat", "post"}
  /\ f.identity.job = f.job
  /\ IsAwaited(f)
  /\ waits[f.job] = "semantic"
  /\ lease[f.job] = f.holder
  /\ Accept(f.job, f.text)
  /\ Handled(s, Posted(f), Reply("ok", 0))
  /\ UNCHANGED <<requests, demo, page, history>>

\* An exact repeat of what was accepted for the request of this job is ok.
RepeatAnswer(s) ==
  LET f == flow[s] IN
  /\ f.at \in {"repeat", "post"}
  /\ Repeats(f)
  /\ Handled(s, Posted(f), Reply("ok", 0))
  /\ UNCHANGED <<server, page, history>>

\* Any other post is refused: other content, a request of another job, a stale
\* request, a lease that is another's or has run out, a text that cannot be
\* bound; a repeated verdict breaks the handler, which looks for the lectures of
\* a workflow it was not given.
RefuseAnswer(s) ==
  LET f == flow[s] IN
  /\ f.at \in {"repeat", "post"}
  /\ ~Repeats(f)
  /\ Handled(s, Posted(f), Reply("refused", 0))
  /\ UNCHANGED <<server, page, history>>

\* POST owner/map and owner/priority: the subject must be that of the open gate.
Decide(j, subject) ==
  /\ waits[j] = "owner"
  /\ subject = revision[j]
  /\ \E next \in {"semantic", "nothing"} : Moves(j, next)

\* The owner decides on a card, which may show a gate of some time ago.
OwnerDecides(j) ==
  /\ \E subject \in 0..revision[j] : Decide(j, subject)
  /\ UNCHANGED <<requests, lease, accepted, demo, page, flow, history>>

Expire(j) ==
  /\ lease[j] # None
  /\ lease' = [lease EXCEPT ![j] = None]
  /\ UNCHANGED <<revision, waits, requests, accepted, demo, page, flow, history>>

\* A transition of another client, over the MCP server.
Elsewhere(j) ==
  /\ \E next \in {"semantic", "owner", "nothing"} : Moves(j, next)
  /\ UNCHANGED <<requests, lease, accepted, demo, page, flow, history>>

\* Run Synthetic Demo Generation: the handler leases work, writes a fixture and
\* submits it, and approves what waits for the owner (OwnerDecides).
DemoLeases(j) ==
  /\ waits[j] = "semantic"
  /\ lease[j] \in {None, Demo} \/ Current(j) = 0
  /\ LeaseCurrent(j, Demo)
  /\ lease' = [lease EXCEPT ![j] = Demo]
  /\ demo' = [demo EXCEPT ![j] = Len(requests'[j])]
  /\ UNCHANGED <<revision, waits, accepted, page, flow, history>>

\* ScriptProvider.execute writes for the request it is given.
Fixture(j) ==
  [job |-> j, request |-> demo[j], revision |-> requests[j][demo[j]],
   author |-> Demo]

DemoSubmits(j) ==
  /\ demo[j] # 0
  /\ demo' = [demo EXCEPT ![j] = 0]
  /\ IF demo[j] = Current(j) /\ waits[j] = "semantic" /\ lease[j] = Demo
       THEN Accept(j, Fixture(j))
       ELSE UNCHANGED <<revision, waits, lease, accepted>>
  /\ UNCHANGED <<requests, page, flow, history>>

-----------------------------------------------------------------------------
(* The flows of the dialog                                                 *)

\* The flows of the dialog; the browser downloads beside them.
Busy(t) == {s \in Slot : flow[s] # None /\ flow[s].tab = t /\ flow[s].at # "download"}

Finish(s) == flow' = [flow EXCEPT ![s] = None]

SlipEmptyBox(t) == pasted

EmptyBox(t) == [pasted EXCEPT ![t] = None]

\* What openGptRelay does before it awaits its first call; plan is the text that
\* is to be submitted once the relay is ready, or None.
Prepare(s, t, j, plan) ==
  /\ relay' = [relay EXCEPT ![t] = [job |-> j, holder |-> None, identity |-> None]]
  /\ dialog' = [dialog EXCEPT ![t] = TRUE]
  /\ ready' = [ready EXCEPT ![t] = FALSE]
  /\ enabled' = [enabled EXCEPT ![t] = FALSE]
  /\ pasted' = EmptyBox(t)
  /\ flow' = [flow EXCEPT ![s] =
                [tab |-> t, at |-> "acquire", job |-> j, holder |-> Holder(t, j),
                 identity |-> None, text |-> plan, reply |-> None]]
  /\ overlapped' = IF Busy(t) \ {s} = {} THEN overlapped ELSE overlapped \cup {t}
  /\ UNCHANGED <<shown, told>>

OpenRelay(t, j) ==
  /\ ~dialog[t]
  /\ \E s \in Slot : flow[s] = None /\ Prepare(s, t, j, None)
  /\ UNCHANGED server

\* Use edited plan: the card's plan is rejected, the next request for one is
\* opened and the edited text submitted.
RevisePlan(t, j) ==
  /\ ~dialog[t]
  /\ \E s \in Slot : \E subject \in 0..revision[j] :
       /\ flow[s] = None
       /\ flow' = [flow EXCEPT ![s] =
            [tab |-> t, at |-> "reject", job |-> j, holder |-> None,
             identity |-> None,
             text |-> [job |-> j, request |-> 0, revision |-> 0, author |-> t],
             reply |-> [status |-> "none", request |-> 0, revision |-> subject]]]
  /\ UNCHANGED <<server, page, history>>

RejectPlan(s) ==
  LET f == flow[s] IN
  /\ f.at = "reject"
  /\ \/ Decide(f.job, f.reply.revision) /\ Handled(s, "rejected", Reply("ok", 0))
     \/ /\ waits[f.job] # "owner" \/ f.reply.revision # revision[f.job]
        /\ Handled(s, "rejected", Reply("refused", 0))
        /\ UNCHANGED <<revision, waits>>
  /\ UNCHANGED <<requests, lease, accepted, demo, page, history>>

OnRejected(s) ==
  LET f == flow[s] IN
  /\ f.at = "rejected"
  /\ IF f.reply.status = "ok" THEN Prepare(s, f.tab, f.job, f.text)
                              ELSE Finish(s) /\ UNCHANGED <<page, history>>
  /\ UNCHANGED server

\* A click on the submit button: the text is read, the rest of gptRelayState is
\* read again after each call.
Submit(s, t, state, text) ==
  /\ enabled' = [enabled EXCEPT ![t] = FALSE]
  /\ flow' = [flow EXCEPT ![s] =
                [tab |-> t, at |-> "renew", job |-> state.job,
                 holder |-> state.holder, identity |-> None, text |-> text,
                 reply |-> None]]

Click(t) ==
  /\ dialog[t] /\ enabled[t] /\ relay[t] # None /\ pasted[t] # None
  /\ \E s \in Slot : flow[s] = None /\ Submit(s, t, relay[t], pasted[t])
  /\ UNCHANGED <<server, relay, dialog, ready, shown, pasted, history>>

\* openGptRelay returns without a prompt; the edited plan is put into the box
\* and the button clicked all the same.
Returns(s) ==
  LET f == flow[s]
      t == f.tab
  IN
  /\ IF f.text # None /\ enabled[t] /\ relay[t] # None
       THEN Submit(s, t, relay[t], f.text)
       ELSE Finish(s) /\ UNCHANGED enabled
  /\ pasted' = IF f.text = None THEN pasted ELSE [pasted EXCEPT ![t] = f.text]
  /\ UNCHANGED <<relay, dialog, ready, shown>>

OnAcquired(s) ==
  LET f == flow[s] IN
  /\ f.at = "acquired"
  /\ IF f.reply.status = "request"
       THEN /\ flow' = [flow EXCEPT
                          ![s].at = "pending",
                          ![s].identity = [job |-> f.job, request |-> f.reply.request]]
            /\ UNCHANGED page
       ELSE Returns(s)
  /\ UNCHANGED <<server, history>>

\* gptIdentityMismatch of the prompt's request and the leased one
SamePrompt(f) == f.reply.request = f.identity.request

\* The prompt must be for the request that was leased; then it is shown, and
\* the relay bound to it, whichever relay is there.
OnPrompt(s) ==
  LET f == flow[s]
      t == f.tab
      state == [job |-> relay[t].job, holder |-> f.holder, identity |-> f.identity]
  IN
  /\ f.at = "pended"
  /\ IF /\ f.reply.status = "request"
        /\ SamePrompt(f)
        /\ relay[t] # None
       THEN /\ relay' = [relay EXCEPT ![t] = state]
            /\ shown' = [shown EXCEPT ![t] =
                 [job |-> f.job, request |-> f.reply.request,
                  revision |-> f.reply.revision]]
            /\ ready' = [ready EXCEPT ![t] = TRUE]
            /\ IF f.text = None
                 THEN /\ Finish(s)
                      /\ enabled' = [enabled EXCEPT ![t] = TRUE]
                      /\ UNCHANGED pasted
                 ELSE /\ Submit(s, t, state, f.text)
                      /\ pasted' = [pasted EXCEPT ![t] = f.text]
            /\ UNCHANGED dialog
       ELSE Returns(s)
  /\ UNCHANGED <<server, history>>

\* The submit flow ends without success: the button is enabled again.
GivesUp(s) ==
  /\ Finish(s)
  /\ enabled' = [enabled EXCEPT ![flow[s].tab] = TRUE]
  /\ UNCHANGED <<relay, dialog, ready, shown, pasted>>

Sends(s, at, state) ==
  /\ flow' = [flow EXCEPT ![s].at = at, ![s].job = state.job,
                          ![s].holder = state.holder,
                          ![s].identity = state.identity]
  /\ UNCHANGED page

\* gptIdentityMismatch
SameRequest(f, state) ==
  state.identity = [job |-> f.job, request |-> f.reply.request]

\* The renewed request is compared with the identity the relay has now; with no
\* request to renew, what the relay has now is posted for a repeat.
OnRenewed(s) ==
  LET f == flow[s]
      state == relay[f.tab]
  IN
  /\ f.at = "renewed"
  /\ IF state = None THEN GivesUp(s)
     ELSE IF state.identity = None THEN GivesUp(s)
     ELSE IF f.reply.status = "none" THEN Sends(s, "repeat", state)
     ELSE IF f.reply.status = "request" /\ SameRequest(f, state)
       THEN Sends(s, "post", state)
     ELSE GivesUp(s)
  /\ UNCHANGED <<server, history>>

\* Success closes whatever relay is open; without one, the line after a post
\* fails and the user is told of a network error.
OnAnswered(s) ==
  LET f == flow[s]
      t == f.tab
  IN
  /\ f.at \in {"posted", "repeated"}
  /\ IF f.reply.status = "ok" /\ (f.at = "repeated" \/ relay[t] # None)
       THEN /\ relay' = [relay EXCEPT ![t] = None]
            /\ dialog' = [dialog EXCEPT ![t] = FALSE]
            /\ enabled' = [enabled EXCEPT ![t] = TRUE]
            /\ told' = told \cup {[identity |-> f.identity, text |-> f.text]}
            /\ Finish(s)
            /\ UNCHANGED <<ready, shown, pasted>>
       ELSE GivesUp(s) /\ UNCHANGED told
  /\ UNCHANGED <<server, overlapped>>

\* A call fails on its way to the server, or its response on the way back.
Fails(s) ==
  /\ flow[s] # None
  /\ IF flow[s].at \in {"reject", "rejected", "download"} THEN Finish(s) /\ UNCHANGED page
     ELSE IF flow[s].at \in {"acquire", "acquired", "pending", "observed", "pended"}
       THEN Returns(s)
     ELSE GivesUp(s)
  /\ UNCHANGED <<server, history>>

-----------------------------------------------------------------------------
(* The user                                                                *)

\* The Close button closes the relay, the Escape key only the dialog.
Close(t) ==
  /\ dialog[t]
  /\ dialog' = [dialog EXCEPT ![t] = FALSE]
  /\ relay' \in {relay, [relay EXCEPT ![t] = None]}
  /\ UNCHANGED <<server, ready, enabled, shown, pasted, flow, history>>

\* The answer to the prompt that is shown; the box keeps it when the prompt
\* changes.
Paste(t) ==
  /\ dialog[t] /\ ready[t]
  /\ pasted' = [pasted EXCEPT ![t] =
       [job |-> shown[t].job, request |-> shown[t].request,
        revision |-> shown[t].revision, author |-> t]]
  /\ UNCHANGED <<server, relay, dialog, ready, enabled, shown, flow, history>>

-----------------------------------------------------------------------------
Init ==
  /\ revision = [j \in Job |-> 0]
  /\ waits = [j \in Job |-> "semantic"]
  /\ requests = [j \in Job |-> <<>>]
  /\ lease = [j \in Job |-> None]
  /\ accepted = [j \in Job |-> [n \in 1..MaxRequests |-> None]]
  /\ demo = [j \in Job |-> 0]
  /\ relay = [t \in Tab |-> None]
  /\ dialog = [t \in Tab |-> FALSE]
  /\ ready = [t \in Tab |-> FALSE]
  /\ enabled = [t \in Tab |-> FALSE]
  /\ shown = [t \in Tab |-> None]
  /\ pasted = [t \in Tab |-> None]
  /\ flow = [s \in Slot |-> None]
  /\ told = {}
  /\ overlapped = {}

Serve(s) ==
  /\ flow[s] # None
  /\ \/ Grant(s) \/ Deny(s) \/ Observe(s) \/ BuildPrompt(s) \/ ReadEvidence(s)
     \/ TakeAnswer(s) \/ RepeatAnswer(s) \/ RefuseAnswer(s) \/ RejectPlan(s)

Resume(s) ==
  /\ flow[s] # None
  /\ OnRejected(s) \/ OnAcquired(s) \/ OnPrompt(s) \/ OnRenewed(s) \/ OnAnswered(s)

Next ==
  \/ \E s \in Slot : Serve(s) \/ Resume(s) \/ Fails(s)
  \/ \E t \in Tab : Click(t) \/ Close(t) \/ Paste(t)
  \/ \E s \in Slot, t \in Tab : Download(s, t)
  \/ \E t \in Tab, j \in Job : OpenRelay(t, j) \/ RevisePlan(t, j)
  \/ \E j \in Job : OwnerDecides(j) \/ Expire(j) \/ Elsewhere(j)
                     \/ DemoLeases(j) \/ DemoSubmits(j)

Spec == Init /\ [][Next]_vars

-----------------------------------------------------------------------------
(* Properties                                                              *)

Prompt == [job : Job, request : 1..MaxRequests, revision : 0..MaxRevision]
Identity == [job : Job, request : 1..MaxRequests]
Holders == {Holder(t, j) : t \in Tab, j \in Job}

RelayState ==
  [job : Job, holder : Holders \cup {None}, identity : Identity \cup {None}]

Response ==
  [status : {"ok", "request", "none", "refused"},
   request : 0..MaxRequests, revision : 0..MaxRevision]

At ==
  {"reject", "rejected", "acquire", "acquired", "pending", "observed", "pended",
   "download", "renew", "renewed", "repeat", "repeated", "post", "posted"}

Flow ==
  [tab : Tab, at : At, job : Job, holder : Holders \cup {None},
   identity : Identity \cup {None}, text : Text \cup {None}, reply : Response \cup {None}]

\* The absent value is no value of any of the types it completes.
ASSUME NoneAssumption ==
  /\ None \notin Text
  /\ None \notin Prompt
  /\ None \notin Identity
  /\ None \notin Holders
  /\ None \notin RelayState
  /\ None \notin Response
  /\ None \notin Flow

TypeOK ==
  /\ revision \in [Job -> 0..MaxRevision]
  /\ waits \in [Job -> {"semantic", "owner", "nothing"}]
  /\ requests \in [Job -> Seq(0..MaxRevision)]
  /\ \A j \in Job :
       /\ Latest(j) <= MaxRequests
       /\ \A n \in DOMAIN requests[j] : requests[j][n] <= revision[j]
  /\ lease \in [Job -> Holders \cup {Demo, None}]
  /\ accepted \in [Job -> [1..MaxRequests -> Text \cup {None}]]
  /\ demo \in [Job -> 0..MaxRequests]
  /\ relay \in [Tab -> RelayState \cup {None}]
  /\ dialog \in [Tab -> BOOLEAN]
  /\ ready \in [Tab -> BOOLEAN]
  /\ enabled \in [Tab -> BOOLEAN]
  /\ shown \in [Tab -> Prompt \cup {None}]
  /\ pasted \in [Tab -> Text \cup {None}]
  /\ flow \in [Slot -> Flow \cup {None}]
  /\ told \subseteq [identity : Identity, text : Text]
  /\ overlapped \subseteq Tab

\* Whether a text was written for a request; an edited plan is for the next
\* request of its job.
Suits(text, j, n) == text.job = j /\ text.request \in {0, n}

Answers == {a \in Job \X (1..MaxRequests) : accepted[a[1]][a[2]] # None}

\* The comment above the identity check (app.js): an old model result can never
\* be rebound to different authority.
AnswersReachTheirRequest ==
  \A a \in Answers : Suits(accepted[a[1]][a[2]], a[1], a[2])

\* An answer reaches the request, and the job, it was written for, however late
\* its calls are, whichever requests came and went meanwhile and whoever leased
\* them, unless its own tab had opened a relay beside a flow that was running.
OnlyReopeningRebinds ==
  \A a \in Answers :
    \/ Suits(accepted[a[1]][a[2]], a[1], a[2])
    \/ accepted[a[1]][a[2]].author \in overlapped

\* A prompt, or a piece of evidence with it, that was put together from two
\* revisions of the workflow, because a transition came between the look at the
\* request and the look at the continuation, never has its answer taken.
MixedPromptsAreNotAnswered ==
  \A a \in Answers :
    LET text == accepted[a[1]][a[2]] IN
    text.request = a[2] /\ text.job = a[1] => text.revision = requests[a[1]][a[2]]

\* What a tab says is saved is what the server has for that request, also when
\* another author, a tab or a synthetic generation, answered it meanwhile; two
\* answers of one tab to one prompt count as the same words.
SavedIsAccepted ==
  \A answer \in told :
    accepted[answer.identity.job][answer.identity.request] = answer.text

=============================================================================
