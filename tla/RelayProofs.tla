----------------------------- MODULE RelayProofs -----------------------------
(***************************************************************************)
(* Theorems about Relay, for every set of jobs, tabs and slots.            *)
(*                                                                         *)
(* A request and its revision are never taken back and the revision of a   *)
(* workflow only grows, so a text that was put together from two revisions *)
(* is for a request that can no longer be current.  A tab that never       *)
(* opened a relay beside a running flow has at most one flow that acts on  *)
(* its relay; what that flow carries suits the request that the relay is   *)
(* bound to as long as it is bound.                                        *)
(***************************************************************************)
EXTENDS Relay, SequenceTheorems, TLAPS

-----------------------------------------------------------------------------
(* The invariant                                                           *)

\* openGptRelay up to its prompt, and the submit handler before and after it
\* has read the identity that it posts under.
Opening    == {"acquire", "acquired", "pending", "observed", "pended"}
Renewing   == {"renew", "renewed"}
Posting    == {"repeat", "repeated", "post", "posted"}
Rejecting  == {"reject", "rejected"}

Runs(s) == flow[s] # None

\* What was read for a request is of its own revision, or the request is stale.
PromptHolds(j, n, r) ==
  /\ n \in DOMAIN requests[j]
  /\ r = requests[j][n] \/ requests[j][n] < revision[j]

TextHolds(x) ==
  x # None /\ x.request # 0 => PromptHolds(x.job, x.request, x.revision)

\* What a tab shows and what is in its box.
PageHolds(t) ==
  /\ TextHolds(pasted[t])
  /\ pasted[t] # None => pasted[t].author = t
  /\ shown[t] # None => PromptHolds(shown[t].job, shown[t].request, shown[t].revision)
  /\ ready[t] => shown[t] # None

\* What a flow carries: a text of its own tab, and an edited plan is for the
\* next request of its job; the identity and the reply that its call needs; the
\* server said ok only of what it has accepted.
FlowHolds(f) ==
  /\ TextHolds(f.text)
  /\ f.text # None => f.text.author = f.tab
  /\ f.text # None /\ f.at \in Opening \cup Rejecting =>
       f.text.job = f.job /\ f.text.request = 0
  /\ f.at \in Renewing \cup Posting => f.text # None
  /\ f.at \in Posting \cup {"pending", "observed", "pended", "download"} =>
       f.identity # None
  /\ f.at \in {"pending", "observed", "pended", "download"} =>
       f.identity.job = f.job
  /\ f.at \in {"reject", "rejected", "acquired", "observed", "pended", "renewed",
               "posted", "repeated"} => f.reply # None
  /\ f.at = "observed" => f.reply.status = "request"
  /\ f.at \in {"acquired", "observed", "pended", "renewed"} =>
       (f.reply.status = "request" => f.reply.request \in DOMAIN requests[f.job])
  /\ f.at = "pended" /\ f.reply.status = "request" =>
       PromptHolds(f.job, f.reply.request, f.reply.revision)
  /\ f.at = "download" => shown[f.tab] # None
  /\ f.at \in {"posted", "repeated"} /\ f.reply.status = "ok" =>
       accepted[f.identity.job][f.identity.request] = f.text

\* An answer is for a request that was made.
AnswersAreAsked == \A a \in Answers : a[2] \in DOMAIN requests[a[1]]

AnswersHold ==
  /\ AnswersAreAsked
  /\ OnlyReopeningRebinds
  /\ MixedPromptsAreNotAnswered

\* Flows that act on the relay of a tab.
Engaged(t) ==
  {s \in Slot : /\ Runs(s)
                /\ flow[s].tab = t
                /\ flow[s].at \in Opening \cup Renewing \cup Posting}

Bound(t) == relay[t] # None /\ relay[t].identity # None

SuitsRelay(t, x) == Suits(x, relay[t].identity.job, relay[t].identity.request)

\* Without an overlap one flow at a time acts on the relay: one that opens it
\* has an empty box before it, one that submits carries what suits the request.
Undisturbed(t) ==
  /\ enabled[t] => Engaged(t) = {}
  /\ \A r, s \in Engaged(t) : r = s
  /\ \A s \in Engaged(t) : flow[s].at \in Opening =>
       ~Bound(t) /\ ~ready[t] /\ pasted[t] = None
  /\ Bound(t) /\ ready[t] => /\ shown[t].job = relay[t].identity.job
                             /\ shown[t].request = relay[t].identity.request
  /\ Bound(t) /\ pasted[t] # None => SuitsRelay(t, pasted[t])
  /\ \A s \in Engaged(t) : Bound(t) /\ flow[s].at \in Renewing =>
       SuitsRelay(t, flow[s].text)
  /\ \A s \in Engaged(t) : flow[s].at \in Posting =>
       Suits(flow[s].text, flow[s].identity.job, flow[s].identity.request)

OneFlowActs == \A t \in Tab \ overlapped : Undisturbed(t)

\* The inductive invariant.
RelayInv ==
  /\ TypeOK
  /\ \A t \in Tab : PageHolds(t)
  /\ \A s \in Slot : Runs(s) => FlowHolds(flow[s])
  /\ OneFlowActs
  /\ AnswersHold
  /\ SavedIsAccepted

-----------------------------------------------------------------------------
(* The server                                                              *)

\* What a request was made for and what was accepted for it stay.
ServerGrows ==
  /\ \A j \in Job :
       /\ revision[j] <= revision'[j]
       /\ \A n \in DOMAIN requests[j] :
            n \in DOMAIN requests'[j] /\ requests'[j][n] = requests[j][n]
  /\ \A j \in Job, n \in 1..MaxRequests :
       accepted[j][n] # None => accepted'[j][n] = accepted[j][n]

ServerTyped ==
  /\ revision \in [Job -> 0..MaxRevision]
  /\ waits \in [Job -> {"semantic", "owner", "nothing"}]
  /\ requests \in [Job -> Seq(0..MaxRevision)]
  /\ \A j \in Job :
       /\ Latest(j) <= MaxRequests
       /\ \A n \in DOMAIN requests[j] : requests[j][n] <= revision[j]
  /\ lease \in [Job -> Holders \cup {Demo, None}]
  /\ accepted \in [Job -> [1..MaxRequests -> Text \cup {None}]]
  /\ demo \in [Job -> 0..MaxRequests]

\* The requests of a job, by number.
LEMMA RequestsTyped ==
  ASSUME TypeOK, NEW j \in Job
  PROVE  /\ Latest(j) \in 0..MaxRequests
         /\ DOMAIN requests[j] = 1..Latest(j)
         /\ \A n \in DOMAIN requests[j] : /\ n \in 1..MaxRequests
                                          /\ requests[j][n] \in 0..MaxRevision
                                          /\ requests[j][n] <= revision[j]
         /\ revision[j] \in 0..MaxRevision
<1>1. requests[j] \in Seq(0..MaxRevision) BY DEF TypeOK
<1>2. /\ Latest(j) \in Nat
      /\ DOMAIN requests[j] = 1..Latest(j)
      /\ \A n \in 1..Latest(j) : requests[j][n] \in 0..MaxRevision
  BY <1>1, LenProperties, ElementOfSeq DEF Latest
<1> QED BY <1>2, RelayAssumption DEF TypeOK

\* The current request is the latest; it was made and has no answer.
LEMMA CurrentIsOpen ==
  ASSUME TypeOK, NEW j \in Job
  PROVE  /\ Current(j) \in 0..MaxRequests
         /\ Current(j) # 0 => /\ Current(j) \in DOMAIN requests[j]
                              /\ Current(j) = Latest(j)
                              /\ Current(j) \in 1..MaxRequests
                              /\ accepted[j][Current(j)] = None
                              /\ requests[j][Current(j)] = revision[j]
<1>1. /\ Latest(j) \in 0..MaxRequests /\ MaxRequests \in Nat
      /\ DOMAIN requests[j] = 1..Latest(j)
      /\ \A n \in DOMAIN requests[j] : n \in 1..MaxRequests
  BY RequestsTyped, RelayAssumption
<1> DEFINE n == Latest(j)
<1>2. n > 0 => n \in 1..n /\ n # 0 BY <1>1
<1>3. \/ Current(j) = 0
      \/ /\ Current(j) = n /\ n > 0
         /\ accepted[j][n] = None /\ requests[j][n] = revision[j]
  BY DEF Current, Open
<1> HIDE DEF n
<1>4. CASE Current(j) = 0 BY <1>1, <1>4
<1>5. CASE Current(j) # 0
  <2>1. n \in DOMAIN requests[j] BY <1>1, <1>2, <1>3, <1>5 DEF n
  <2>2. Current(j) = n /\ n = Latest(j) BY <1>3, <1>5 DEF n
  <2> QED BY <1>1, <1>2, <1>3, <1>5, <2>1, <2>2
<1> QED BY <1>4, <1>5

\* A transition.
LEMMA Moved ==
  ASSUME TypeOK, NEW j \in Job, NEW next \in {"semantic", "owner", "nothing"},
         Moves(j, next)
  PROVE  /\ revision' \in [Job -> 0..MaxRevision]
         /\ waits' \in [Job -> {"semantic", "owner", "nothing"}]
         /\ \A k \in Job : revision[k] <= revision'[k]
<1>1. \A k \in Job : revision[k] \in 0..MaxRevision BY DEF TypeOK
<1> QED BY <1>1, RelayAssumption DEF Moves, TypeOK

\* A step that makes no request and takes no answer.
LEMMA RevisionsGrow ==
  ASSUME TypeOK, UNCHANGED <<requests, accepted>>,
         revision' \in [Job -> 0..MaxRevision],
         waits' \in [Job -> {"semantic", "owner", "nothing"}],
         \A k \in Job : revision[k] <= revision'[k],
         lease' \in [Job -> Holders \cup {Demo, None}],
         demo' \in [Job -> 0..MaxRequests]
  PROVE  ServerTyped' /\ ServerGrows
<1>1. \A k \in Job : \A n \in DOMAIN requests[k] :
        requests[k][n] <= revision[k] /\ requests[k][n] \in 0..MaxRevision
  BY RequestsTyped
<1>2. \A k \in Job : revision[k] \in 0..MaxRevision BY DEF TypeOK
<1>3. \A k \in Job : \A n \in DOMAIN requests'[k] : requests'[k][n] <= revision'[k]
  BY <1>1, <1>2
<1> QED BY <1>3 DEF ServerTyped, ServerGrows, TypeOK, Latest

\* The current request is leased, or one is made.
LEMMA Leased ==
  ASSUME TypeOK, NEW j \in Job, NEW holder \in Holders \cup {Demo},
         LeaseCurrent(j, holder), lease' = [lease EXCEPT ![j] = holder],
         demo' \in [Job -> 0..MaxRequests],
         UNCHANGED <<revision, waits, accepted>>
  PROVE  /\ ServerTyped' /\ ServerGrows
         /\ Len(requests'[j]) \in 1..MaxRequests
         /\ Len(requests'[j]) \in DOMAIN requests'[j]
<1>1. lease' \in [Job -> Holders \cup {Demo, None}] BY DEF TypeOK
<1>2. CASE Current(j) # 0
  <2>1. UNCHANGED requests BY <1>2 DEF LeaseCurrent
  <2>2. ServerTyped' /\ ServerGrows
    <3>1. \A k \in Job : revision[k] <= revision'[k] BY RequestsTyped
    <3> QED BY <1>1, <2>1, <3>1, RevisionsGrow DEF TypeOK
  <2>3. Latest(j) \in 1..MaxRequests /\ Latest(j) \in DOMAIN requests[j]
    BY <1>2, CurrentIsOpen
  <2> QED BY <2>1, <2>2, <2>3 DEF Latest
<1>3. CASE Current(j) = 0
  <2> DEFINE q == requests[j]
             n == Latest(j)
  <2>1. /\ n < MaxRequests
        /\ requests' = [requests EXCEPT ![j] = Append(q, revision[j])]
    BY <1>3 DEF LeaseCurrent
  <2>2. q \in Seq(0..MaxRevision) /\ revision[j] \in 0..MaxRevision
    BY DEF TypeOK
  <2>3. /\ Append(q, revision[j]) \in Seq(0..MaxRevision)
        /\ Len(Append(q, revision[j])) = n + 1
        /\ \A i \in 1..n : Append(q, revision[j])[i] = q[i]
        /\ Append(q, revision[j])[n + 1] = revision[j]
    BY <2>2, AppendProperties DEF Latest
  <2>4. DOMAIN Append(q, revision[j]) = 1..(n + 1)
    BY <2>3, LenProperties
  <2>5. n \in 0..MaxRequests /\ DOMAIN q = 1..n BY RequestsTyped
  <2>6. requests'[j] = Append(q, revision[j])
        /\ \A k \in Job \ {j} : requests'[k] = requests[k]
    BY <2>1 DEF TypeOK
  <2>7. requests' \in [Job -> Seq(0..MaxRevision)]
    BY <2>1, <2>3 DEF TypeOK
  <2>8. Len(requests'[j]) = n + 1 /\ DOMAIN requests'[j] = 1..(n + 1)
    BY <2>3, <2>4, <2>6
  <2>9. ASSUME NEW k \in Job
        PROVE  /\ Len(requests'[k]) <= MaxRequests
               /\ \A i \in DOMAIN requests'[k] : requests'[k][i] <= revision'[k]
               /\ \A i \in DOMAIN requests[k] :
                    i \in DOMAIN requests'[k] /\ requests'[k][i] = requests[k][i]
    <3>1. CASE k = j
      <4>1. \A i \in 1..n : q[i] <= revision[j] BY <2>5, RequestsTyped
      <4>2. revision[j] <= revision[j] BY <2>2
      <4>3. \A i \in 1..(n + 1) : i \in 1..n \/ i = n + 1 BY <2>5
      <4> HIDE DEF q, n
      <4>4. \A i \in 1..(n + 1) : Append(q, revision[j])[i] <= revision[j]
        BY <2>3, <4>1, <4>2, <4>3
      <4>5. n + 1 <= MaxRequests /\ \A i \in 1..n : i \in 1..(n + 1)
        BY <2>1, <2>5, RelayAssumption
      <4>6. requests[k] = q BY <3>1 DEF q
      <4>7. \A i \in DOMAIN q : i \in 1..n BY <2>5
      <4> QED BY <2>3, <2>6, <2>8, <3>1, <4>4, <4>5, <4>6, <4>7
    <3>2. CASE k # j
      BY <2>6, <3>2, RequestsTyped DEF Latest
    <3> QED BY <3>1, <3>2
  <2>10. \A k \in Job : revision[k] <= revision'[k] BY RequestsTyped
  <2>11. ServerTyped' BY <1>1, <2>7, <2>9 DEF ServerTyped, TypeOK, Latest
  <2>12. ServerGrows BY <2>9, <2>10 DEF ServerGrows
  <2>13. n + 1 \in 1..MaxRequests BY <2>1, <2>5, RelayAssumption
  <2> QED BY <2>8, <2>11, <2>12, <2>13
<1> QED BY <1>2, <1>3

\* An answer is put in for the current request.
LEMMA AnswerTaken ==
  ASSUME TypeOK, NEW j \in Job, Current(j) # 0, NEW x \in Text, Accept(j, x),
         UNCHANGED requests, demo' \in [Job -> 0..MaxRequests]
  PROVE  /\ ServerTyped' /\ ServerGrows
         /\ accepted'[j][Current(j)] = x
         /\ \A k \in Job, n \in 1..MaxRequests :
              <<k, n>> # <<j, Current(j)>> => accepted'[k][n] = accepted[k][n]
<1>1. accepted' = [accepted EXCEPT ![j] = [accepted[j] EXCEPT ![Current(j)] = x]]
  BY DEF Accept, Canonicalized
<1>2. /\ Current(j) \in 1..MaxRequests
      /\ accepted[j][Current(j)] = None
  BY CurrentIsOpen
<1>3. accepted \in [Job -> [1..MaxRequests -> Text \cup {None}]] BY DEF TypeOK
<1> HIDE DEF Current
<1>4. /\ accepted' \in [Job -> [1..MaxRequests -> Text \cup {None}]]
      /\ accepted'[j][Current(j)] = x
      /\ \A k \in Job, n \in 1..MaxRequests :
           <<k, n>> # <<j, Current(j)>> => accepted'[k][n] = accepted[k][n]
  BY <1>1, <1>2, <1>3
<1>5. \A k \in Job, n \in 1..MaxRequests :
        accepted[k][n] # None => accepted'[k][n] = accepted[k][n]
  BY <1>2, <1>4
<1>6. /\ revision' \in [Job -> 0..MaxRevision]
      /\ waits' \in [Job -> {"semantic", "owner", "nothing"}]
      /\ \A k \in Job : revision[k] <= revision'[k]
  <2>1. CASE waits' = [waits EXCEPT ![j] = "owner"] /\ UNCHANGED revision
    BY <2>1, RequestsTyped DEF TypeOK
  <2>2. CASE \E next \in {"semantic", "owner", "nothing"} : Moves(j, next)
    BY <2>2, Moved
  <2> QED BY <2>1, <2>2 DEF Accept
<1>7. lease' \in [Job -> Holders \cup {Demo, None}]
  BY DEF Accept, TypeOK
<1>8. \A k \in Job : \A n \in DOMAIN requests'[k] : requests'[k][n] <= revision'[k]
  <2>1. \A k \in Job : \A n \in DOMAIN requests[k] :
          requests[k][n] <= revision[k] /\ requests[k][n] \in 0..MaxRevision
    BY RequestsTyped
  <2>2. \A k \in Job : revision[k] \in 0..MaxRevision BY DEF TypeOK
  <2> QED BY <1>6, <2>1, <2>2
<1> QED
  BY <1>4, <1>5, <1>6, <1>7, <1>8
  DEF ServerTyped, ServerGrows, TypeOK, Latest

-----------------------------------------------------------------------------
(* What stays                                                              *)

PageTyped ==
  /\ relay \in [Tab -> RelayState \cup {None}]
  /\ dialog \in [Tab -> BOOLEAN]
  /\ ready \in [Tab -> BOOLEAN]
  /\ enabled \in [Tab -> BOOLEAN]
  /\ shown \in [Tab -> Prompt \cup {None}]
  /\ pasted \in [Tab -> Text \cup {None}]

HistoryTyped ==
  /\ told \subseteq [identity : Identity, text : Text]
  /\ overlapped \subseteq Tab

FlowTyped == flow \in [Slot -> Flow \cup {None}]

LEMMA TypeParts == TypeOK <=> ServerTyped /\ PageTyped /\ FlowTyped /\ HistoryTyped
BY DEF TypeOK, ServerTyped, PageTyped, FlowTyped, HistoryTyped

\* A step that leaves the server alone.
LEMMA ServerRests ==
  ASSUME TypeOK, UNCHANGED server
  PROVE  ServerTyped' /\ ServerGrows
<1>1. \A k \in Job : revision[k] <= revision'[k] BY RequestsTyped DEF server
<1> QED BY <1>1, RevisionsGrow DEF server, TypeOK

\* What was read once stays good.
LEMMA PromptStays ==
  ASSUME TypeOK, TypeOK', ServerGrows, NEW j \in Job, NEW n, NEW r,
         PromptHolds(j, n, r)
  PROVE  PromptHolds(j, n, r)'
<1>1. /\ requests[j][n] \in 0..MaxRevision
      /\ revision[j] \in 0..MaxRevision
  BY RequestsTyped DEF PromptHolds
<1>2. revision'[j] \in 0..MaxRevision BY DEF TypeOK
<1>3. /\ revision[j] <= revision'[j]
      /\ n \in DOMAIN requests'[j] /\ requests'[j][n] = requests[j][n]
  BY DEF ServerGrows, PromptHolds
<1> QED BY <1>1, <1>2, <1>3, RelayAssumption DEF PromptHolds

LEMMA TextStays ==
  ASSUME TypeOK, TypeOK', ServerGrows, NEW x \in Text \cup {None}, TextHolds(x)
  PROVE  TextHolds(x)'
<1>1. CASE x = None BY <1>1 DEF TextHolds
<1>2. CASE x \in Text
  <2>1. x.job \in Job BY <1>2 DEF Text
  <2> QED BY <2>1, PromptStays DEF TextHolds
<1> QED BY <1>1, <1>2

LEMMA FlowMembers ==
  ASSUME TypeOK, NEW s \in Slot, Runs(s)
  PROVE  /\ flow[s] \in Flow
         /\ flow[s].tab \in Tab
         /\ flow[s].at \in At
         /\ flow[s].job \in Job
         /\ flow[s].holder \in Holders \cup {None}
         /\ flow[s].identity \in Identity \cup {None}
         /\ flow[s].text \in Text \cup {None}
         /\ flow[s].reply \in Response \cup {None}
<1>1. flow[s] \in Flow BY DEF TypeOK, Runs
<1> QED BY <1>1 DEF Flow

\* A flow that does not move.
LEMMA FlowStays ==
  ASSUME TypeOK, TypeOK', ServerGrows, NEW s \in Slot, Runs(s), flow'[s] = flow[s],
         FlowHolds(flow[s]), \A t \in Tab : shown[t] # None => shown'[t] # None
  PROVE  FlowHolds(flow[s])'
<1> DEFINE f == flow[s]
<1>1. /\ f.tab \in Tab /\ f.job \in Job /\ f.at \in At
      /\ f.identity \in Identity \cup {None}
      /\ f.text \in Text \cup {None}
  BY FlowMembers
<1>2. TextHolds(f.text)'
  <2>1. TextHolds(f.text) BY DEF FlowHolds
  <2>2. PICK x \in Text \cup {None} : x = f.text BY <1>1
  <2>3. TextHolds(x)' BY <2>1, <2>2, TextStays
  <2> QED BY <2>2, <2>3 DEF TextHolds, PromptHolds
<1>3. /\ f.at \in {"acquired", "observed", "pended", "renewed"} /\ f.reply.status = "request"
      => f.reply.request \in DOMAIN requests'[f.job]
  BY <1>1 DEF FlowHolds, ServerGrows
<1>4. f.at = "pended" /\ f.reply.status = "request" =>
        PromptHolds(f.job, f.reply.request, f.reply.revision)'
  <2> SUFFICES ASSUME f.at = "pended" /\ f.reply.status = "request"
               PROVE  PromptHolds(f.job, f.reply.request, f.reply.revision)'
    OBVIOUS
  <2>1. PromptHolds(f.job, f.reply.request, f.reply.revision) BY DEF FlowHolds
  <2>2. PICK j \in Job : j = f.job BY <1>1
  <2>3. PICK n, r : n = f.reply.request /\ r = f.reply.revision OBVIOUS
  <2>4. PromptHolds(j, n, r)' BY <2>1, <2>2, <2>3, PromptStays
  <2> QED BY <2>2, <2>3, <2>4 DEF PromptHolds
<1>5. f.at \in {"posted", "repeated"} /\ f.reply.status = "ok" =>
        accepted'[f.identity.job][f.identity.request] = f.text
  <2> SUFFICES ASSUME f.at \in {"posted", "repeated"} /\ f.reply.status = "ok"
               PROVE  accepted'[f.identity.job][f.identity.request] = f.text
    OBVIOUS
  <2>1. /\ f.identity # None /\ f.text # None
        /\ accepted[f.identity.job][f.identity.request] = f.text
    BY DEF FlowHolds, Posting
  <2>2. f.identity.job \in Job /\ f.identity.request \in 1..MaxRequests
    BY <1>1, <2>1 DEF Identity
  <2> QED BY <2>1, <2>2 DEF ServerGrows
<1>6. f.at = "download" => shown'[f.tab] # None BY <1>1 DEF FlowHolds
<1> QED BY <1>2, <1>3, <1>4, <1>5, <1>6 DEF FlowHolds

\* A tab on which nothing is shown or put into the box.
LEMMA PageStays ==
  ASSUME TypeOK, TypeOK', ServerGrows, NEW t \in Tab, PageHolds(t),
         pasted'[t] \in {pasted[t], None}, shown'[t] = shown[t],
         ready'[t] \in {ready[t], FALSE}
  PROVE  PageHolds(t)'
<1>1. TextHolds(pasted[t])'
  <2>1. CASE pasted'[t] = None BY <2>1 DEF TextHolds
  <2>2. CASE pasted'[t] = pasted[t]
    <3>1. PICK x \in Text \cup {None} : x = pasted[t] BY DEF TypeOK
    <3>2. TextHolds(x)' BY <3>1, TextStays DEF PageHolds
    <3> QED BY <2>2, <3>1, <3>2 DEF TextHolds, PromptHolds
  <2> QED BY <2>1, <2>2
<1>2. shown[t] # None =>
        PromptHolds(shown[t].job, shown[t].request, shown[t].revision)'
  <2> SUFFICES ASSUME shown[t] # None
               PROVE  PromptHolds(shown[t].job, shown[t].request, shown[t].revision)'
    OBVIOUS
  <2>1. shown[t].job \in Job BY DEF TypeOK, Prompt
  <2>2. PICK j \in Job : j = shown[t].job BY <2>1
  <2>3. PICK n, r : n = shown[t].request /\ r = shown[t].revision OBVIOUS
  <2>4. PromptHolds(j, n, r)' BY <2>2, <2>3, PromptStays DEF PageHolds
  <2> QED BY <2>2, <2>3, <2>4 DEF PromptHolds
<1>3. pasted'[t] # None => pasted'[t].author = t BY DEF PageHolds
<1>4. ready'[t] => shown'[t] # None BY DEF PageHolds
<1>5. shown'[t] # None =>
        PromptHolds(shown[t].job, shown[t].request, shown[t].revision)'
  BY <1>2
<1> QED BY <1>1, <1>3, <1>4, <1>5 DEF PageHolds, PromptHolds

\* A step that takes no answer.
LEMMA AnswersStay ==
  ASSUME TypeOK, AnswersHold, ServerGrows, UNCHANGED accepted,
         overlapped \subseteq overlapped'
  PROVE  AnswersHold'
<1>1. Answers' = Answers BY DEF Answers
<1>2. \A a \in Answers :
        /\ a[1] \in Job /\ a[2] \in DOMAIN requests[a[1]]
        /\ a[2] \in DOMAIN requests'[a[1]]
        /\ requests'[a[1]][a[2]] = requests[a[1]][a[2]]
  BY DEF AnswersHold, AnswersAreAsked, ServerGrows, Answers
<1>3. AnswersAreAsked' BY <1>1, <1>2 DEF AnswersAreAsked
<1>4. OnlyReopeningRebinds' BY <1>1 DEF AnswersHold, OnlyReopeningRebinds, Suits
<1>5. MixedPromptsAreNotAnswered'
  BY <1>1, <1>2 DEF AnswersHold, MixedPromptsAreNotAnswered
<1> QED BY <1>3, <1>4, <1>5 DEF AnswersHold

\* A step that takes one, which suits its request or comes from a tab that
\* opened a relay beside a running flow.
LEMMA AnswerFits ==
  ASSUME TypeOK, AnswersHold, NEW j \in Job, Current(j) # 0, NEW x \in Text,
         Accept(j, x), UNCHANGED <<requests, overlapped>>,
         demo' \in [Job -> 0..MaxRequests], TextHolds(x),
         Suits(x, j, Current(j)) \/ x.author \in overlapped
  PROVE  AnswersHold'
<1> DEFINE n == Current(j)
<1>1. /\ n \in DOMAIN requests[j] /\ n \in 1..MaxRequests
      /\ requests[j][n] = revision[j] /\ revision[j] \in Int
  BY CurrentIsOpen, RequestsTyped
<1>2. /\ accepted'[j][n] = x
      /\ \A k \in Job, i \in 1..MaxRequests :
           <<k, i>> # <<j, n>> => accepted'[k][i] = accepted[k][i]
  BY AnswerTaken
<1> HIDE DEF n
<1>3. \A a \in Answers' :
        \/ a[1] = j /\ a[2] = n
        \/ a \in Answers /\ accepted'[a[1]][a[2]] = accepted[a[1]][a[2]]
  BY <1>2 DEF Answers
<1>4. AnswersAreAsked' BY <1>1, <1>3 DEF AnswersHold, AnswersAreAsked
<1>5. OnlyReopeningRebinds'
  <2> SUFFICES ASSUME NEW a \in Answers'
               PROVE  \/ Suits(accepted'[a[1]][a[2]], a[1], a[2])
                      \/ accepted'[a[1]][a[2]].author \in overlapped'
    BY DEF OnlyReopeningRebinds, Suits
  <2>1. CASE a[1] = j /\ a[2] = n BY <1>2, <2>1 DEF n
  <2>2. CASE a \in Answers /\ accepted'[a[1]][a[2]] = accepted[a[1]][a[2]]
    BY <2>2 DEF AnswersHold, OnlyReopeningRebinds
  <2> QED BY <1>3, <2>1, <2>2
<1>6. MixedPromptsAreNotAnswered'
  <2> SUFFICES ASSUME NEW a \in Answers',
                      accepted'[a[1]][a[2]].request = a[2],
                      accepted'[a[1]][a[2]].job = a[1]
               PROVE  accepted'[a[1]][a[2]].revision = requests[a[1]][a[2]]
    BY DEF MixedPromptsAreNotAnswered
  <2>1. CASE a[1] = j /\ a[2] = n
    <3>1. x.job = j /\ x.request = n BY <1>2, <2>1
    <3>2. x # None /\ x.request # 0 BY <1>1, <3>1, NoneAssumption
    <3>3. PromptHolds(j, n, x.revision) BY <3>1, <3>2 DEF TextHolds
    <3>4. x.revision = requests[j][n] BY <1>1, <3>3 DEF PromptHolds
    <3> QED BY <1>2, <2>1, <3>4
  <2>2. CASE a \in Answers /\ accepted'[a[1]][a[2]] = accepted[a[1]][a[2]]
    BY <2>2 DEF AnswersHold, MixedPromptsAreNotAnswered
  <2> QED BY <1>3, <2>1, <2>2
<1> QED BY <1>4, <1>5, <1>6 DEF AnswersHold

\* What was said to be saved stays saved.
LEMMA SavedStays ==
  ASSUME TypeOK, SavedIsAccepted, ServerGrows, UNCHANGED told
  PROVE  SavedIsAccepted'
<1>1. \A answer \in told :
        /\ answer.identity.job \in Job /\ answer.identity.request \in 1..MaxRequests
        /\ answer.text \in Text
  BY DEF TypeOK, Identity
<1> QED BY <1>1, NoneAssumption DEF SavedIsAccepted, ServerGrows

\* A tab whose page is left alone and whose flows, if they still act on its
\* relay, go on with what they carry.
GoesOn(s) ==
  /\ Runs(s)
  /\ flow'[s].tab = flow[s].tab
  /\ flow'[s].text = flow[s].text
  /\ flow'[s].identity = flow[s].identity
  /\ \A stage \in {Opening, Renewing, Posting} :
       flow'[s].at \in stage => flow[s].at \in stage

LEMMA TabRests ==
  ASSUME NEW t \in Tab, Undisturbed(t),
         relay'[t] = relay[t], enabled'[t] = enabled[t], ready'[t] = ready[t],
         pasted'[t] = pasted[t],
         Bound(t) /\ ready[t] => /\ shown'[t].job = shown[t].job
                                 /\ shown'[t].request = shown[t].request,
         \A s \in Engaged(t)' : GoesOn(s)
  PROVE  Undisturbed(t)'
<1>1. \A s \in Engaged(t)' : s \in Engaged(t) /\ GoesOn(s)
  BY DEF Engaged, GoesOn, Runs
<1>2. Bound(t)' = Bound(t) BY DEF Bound
<1>3. enabled'[t] => Engaged(t)' = {} BY <1>1 DEF Undisturbed
<1>4. \A r, s \in Engaged(t)' : r = s BY <1>1 DEF Undisturbed
<1>5. \A s \in Engaged(t)' : flow'[s].at \in Opening =>
        ~Bound(t)' /\ ~ready'[t] /\ pasted'[t] = None
  BY <1>1, <1>2 DEF Undisturbed, GoesOn
<1>6. Bound(t)' /\ pasted'[t] # None => SuitsRelay(t, pasted[t])'
  BY <1>2 DEF Undisturbed, SuitsRelay, Suits
<1>7. \A s \in Engaged(t)' : Bound(t)' /\ flow'[s].at \in Renewing =>
        SuitsRelay(t, flow[s].text)'
  BY <1>1, <1>2 DEF Undisturbed, SuitsRelay, Suits, GoesOn
<1>8. \A s \in Engaged(t)' : flow'[s].at \in Posting =>
        Suits(flow[s].text, flow[s].identity.job, flow[s].identity.request)'
  BY <1>1 DEF Undisturbed, Suits, GoesOn
<1>9. Bound(t)' /\ ready'[t] => /\ shown'[t].job = relay'[t].identity.job
                               /\ shown'[t].request = relay'[t].identity.request
  BY <1>2 DEF Undisturbed
<1> QED BY <1>3, <1>4, <1>5, <1>6, <1>7, <1>8, <1>9 DEF Undisturbed

-----------------------------------------------------------------------------
(* The handlers of the server                                              *)

\* A call that is handled.
LEMMA FlowHandled ==
  ASSUME TypeOK, NEW s \in Slot, Runs(s), NEW at \in At, NEW reply \in Response,
         Handled(s, at, reply)
  PROVE  /\ FlowTyped'
         /\ Runs(s)'
         /\ flow'[s].tab = flow[s].tab /\ flow'[s].job = flow[s].job
         /\ flow'[s].holder = flow[s].holder /\ flow'[s].identity = flow[s].identity
         /\ flow'[s].text = flow[s].text
         /\ flow'[s].at = at /\ flow'[s].reply = reply
         /\ \A r \in Slot \ {s} : flow'[r] = flow[r]
<1> DEFINE f == flow[s]
           g == [f EXCEPT !.at = at, !.reply = reply]
<1>1. f \in Flow BY FlowMembers
<1>2. g \in Flow BY <1>1 DEF Flow
<1>3. flow' = [flow EXCEPT ![s] = g] BY DEF Handled
<1>4. flow' \in [Slot -> Flow \cup {None}] /\ flow'[s] = g
  BY <1>2, <1>3 DEF TypeOK
<1>5. /\ g.tab = f.tab /\ g.job = f.job /\ g.holder = f.holder
      /\ g.identity = f.identity /\ g.text = f.text /\ g.at = at /\ g.reply = reply
  BY <1>1 DEF Flow
<1>6. \A r \in Slot \ {s} : flow'[r] = flow[r] BY <1>3 DEF TypeOK
<1>7. flow'[s] # None BY <1>2, <1>4, NoneAssumption
<1> HIDE DEF g
<1> QED BY <1>4, <1>5, <1>6, <1>7 DEF FlowTyped, Runs, g

\* A call that is handled keeps its text, and its text the revision it is of.
LEMMA TextKept ==
  ASSUME RelayInv, NEW s \in Slot, Runs(s), NEW at \in At, NEW reply \in Response,
         Handled(s, at, reply), UNCHANGED <<page, history>>, ServerTyped', ServerGrows
  PROVE  TypeOK' /\ TextHolds(flow[s].text)'
<1>1. TypeOK /\ FlowHolds(flow[s]) BY DEF RelayInv
<1>2. FlowTyped' /\ flow'[s].text = flow[s].text BY <1>1, FlowHandled
<1>3. TypeOK'
  BY <1>1, <1>2 DEF TypeOK, ServerTyped, PageTyped, FlowTyped, HistoryTyped, page, history
<1>4. PICK x \in Text \cup {None} : x = flow[s].text BY <1>1, FlowMembers
<1>5. TextHolds(x)' BY <1>1, <1>3, <1>4, TextStays DEF FlowHolds
<1> QED BY <1>2, <1>3, <1>4, <1>5 DEF TextHolds, PromptHolds

\* A step of the server that answers one call.
LEMMA Served ==
  ASSUME RelayInv, NEW s \in Slot, Runs(s), NEW at \in At, NEW reply \in Response,
         Handled(s, at, reply), UNCHANGED <<page, history>>,
         ServerTyped', ServerGrows, AnswersHold',
         \A stage \in {Opening, Renewing, Posting} : at \in stage => flow[s].at \in stage,
         FlowHolds(flow[s])'
  PROVE  RelayInv'
<1>1. TypeOK /\ SavedIsAccepted BY DEF RelayInv
<1>2. /\ FlowTyped' /\ Runs(s)'
      /\ flow'[s].tab = flow[s].tab /\ flow'[s].identity = flow[s].identity
      /\ flow'[s].text = flow[s].text /\ flow'[s].at = at
      /\ \A r \in Slot \ {s} : flow'[r] = flow[r]
  BY <1>1, FlowHandled
<1>3. PageTyped' /\ HistoryTyped'
  BY <1>1 DEF TypeOK, PageTyped, HistoryTyped, page, history
<1>4. TypeOK' BY <1>2, <1>3, TypeParts DEF TypeOK, ServerTyped, PageTyped, FlowTyped, HistoryTyped
<1>5. \A t \in Tab : PageHolds(t)' BY <1>1, <1>4, PageStays DEF RelayInv, page
<1>6. ASSUME NEW r \in Slot, Runs(r)' PROVE FlowHolds(flow[r])'
  <2>1. CASE r = s BY <2>1
  <2>2. CASE r # s
    <3>1. flow'[r] = flow[r] /\ Runs(r) BY <1>2, <1>6, <2>2 DEF Runs
    <3>2. FlowHolds(flow[r]) BY <3>1 DEF RelayInv
    <3> QED BY <1>1, <1>4, <3>1, <3>2, FlowStays DEF page
  <2> QED BY <2>1, <2>2
<1>7. OneFlowActs'
  <2> SUFFICES ASSUME NEW t \in Tab \ overlapped PROVE Undisturbed(t)'
    BY DEF OneFlowActs, history
  <2>1. Undisturbed(t) BY DEF RelayInv, OneFlowActs
  <2>2. \A r \in Engaged(t)' : GoesOn(r) BY <1>2 DEF Engaged, GoesOn, Runs
  <2> QED BY <2>1, <2>2, TabRests DEF page
<1>8. SavedIsAccepted' BY <1>1, SavedStays DEF history
<1> QED BY <1>4, <1>5, <1>6, <1>7, <1>8 DEF RelayInv

\* A step of the server beside the calls of the dialog.
LEMMA Beside ==
  ASSUME RelayInv, UNCHANGED <<page, flow, history>>, ServerTyped', ServerGrows,
         AnswersHold'
  PROVE  RelayInv'
<1>1. TypeOK /\ SavedIsAccepted BY DEF RelayInv
<1>2. TypeOK' BY <1>1, TypeParts DEF TypeOK, ServerTyped, PageTyped, FlowTyped, HistoryTyped, page, history
<1>3. \A t \in Tab : PageHolds(t)' BY <1>1, <1>2, PageStays DEF RelayInv, page
<1>4. ASSUME NEW r \in Slot, Runs(r)' PROVE FlowHolds(flow[r])'
  BY <1>1, <1>2, <1>4, FlowStays DEF RelayInv, Runs, page
<1>5. OneFlowActs'
  <2> SUFFICES ASSUME NEW t \in Tab \ overlapped PROVE Undisturbed(t)'
    BY DEF OneFlowActs, history
  <2>1. Undisturbed(t) BY DEF RelayInv, OneFlowActs
  <2>2. \A r \in Engaged(t)' : GoesOn(r) BY DEF Engaged, GoesOn, Runs
  <2> QED BY <2>1, <2>2, TabRests DEF page
<1>6. SavedIsAccepted' BY <1>1, SavedStays DEF history
<1> QED BY <1>2, <1>3, <1>4, <1>5, <1>6 DEF RelayInv

\* Replies are responses.
LEMMA Replies ==
  ASSUME NEW status \in {"ok", "request", "none", "refused"}, NEW n \in 0..MaxRequests
  PROVE  /\ Reply(status, n) \in Response
         /\ Reply(status, n).status = status /\ Reply(status, n).request = n
         /\ Reply(status, n).revision = 0
BY RelayAssumption DEF Reply, Response

LEMMA GrantKeeps ==
  ASSUME RelayInv, NEW s \in Slot, Runs(s), Grant(s)
  PROVE  RelayInv'
<1> DEFINE f == flow[s]
           j == f.job
           at == IF f.at = "acquire" THEN "acquired" ELSE "renewed"
           n == Len(requests'[j])
<1>1. TypeOK /\ AnswersHold /\ FlowHolds(f) BY DEF RelayInv
<1>2. /\ j \in Job /\ f.holder \in Holders /\ f.at \in {"acquire", "renew"}
  BY <1>1, FlowMembers DEF Grant
<1>3. /\ LeaseCurrent(j, f.holder) /\ lease' = [lease EXCEPT ![j] = f.holder]
      /\ UNCHANGED <<revision, waits, accepted, demo, page, history>>
      /\ Handled(s, at, Reply("request", n))
  BY DEF Grant
<1>4. demo' \in [Job -> 0..MaxRequests] BY <1>1, <1>3 DEF TypeOK
<1>5. /\ ServerTyped' /\ ServerGrows
      /\ n \in 1..MaxRequests /\ n \in DOMAIN requests'[j]
  BY <1>1, <1>2, <1>3, <1>4, Leased
<1> HIDE DEF n
<1>6. /\ Reply("request", n) \in Response
      /\ Reply("request", n).status = "request" /\ Reply("request", n).request = n
  BY <1>5, Replies
<1>7. at \in At /\ at # "observed" /\ at \notin Posting BY DEF At, Posting
<1>8. AnswersHold' BY <1>1, <1>3, <1>5, AnswersStay DEF history
<1>9. /\ \A stage \in {Opening, Renewing, Posting} : at \in stage => f.at \in stage
      /\ at \in {"acquired", "renewed"}
      /\ at \in Opening \cup Rejecting => f.at \in Opening
  BY <1>2 DEF Opening, Renewing, Posting, Rejecting
<1> HIDE DEF at
<1>10. /\ flow'[s].tab = f.tab /\ flow'[s].job = f.job
       /\ flow'[s].identity = f.identity /\ flow'[s].text = f.text
       /\ flow'[s].at = at /\ flow'[s].reply = Reply("request", n)
  BY <1>1, <1>3, <1>6, <1>7, FlowHandled
<1>11. TextHolds(flow[s].text)' BY <1>3, <1>5, <1>6, <1>7, TextKept
<1>12. FlowHolds(flow[s])'
  <2>1. Reply("request", n) # None BY <1>6, NoneAssumption
  <2> QED BY <1>1, <1>5, <1>6, <1>7, <1>9, <1>10, <1>11, <2>1
          DEF FlowHolds, Renewing, Posting
<1> QED BY <1>3, <1>5, <1>6, <1>7, <1>8, <1>9, <1>12, Served

LEMMA DenyKeeps ==
  ASSUME RelayInv, NEW s \in Slot, Runs(s), Deny(s)
  PROVE  RelayInv'
<1> DEFINE f == flow[s]
<1>1. TypeOK /\ AnswersHold /\ FlowHolds(f) BY DEF RelayInv
<1>2. PICK at \in {"acquired", "renewed"}, status \in {"none", "refused"} :
        /\ Handled(s, at, Reply(status, 0))
        /\ at = "acquired" => f.at = "acquire"
        /\ at = "renewed" => f.at = "renew"
  BY DEF Deny
<1>3. UNCHANGED <<server, page, history>> BY DEF Deny
<1>4. PICK reply \in Response : reply = Reply(status, 0) /\ reply.status = status
  BY Replies, RelayAssumption
<1>5. ServerTyped' /\ ServerGrows BY <1>1, <1>3, ServerRests
<1>6. AnswersHold' BY <1>1, <1>3, <1>5, AnswersStay DEF history, server
<1>7. at \in At BY DEF At
<1>8. \A stage \in {Opening, Renewing, Posting} : at \in stage => f.at \in stage
  BY <1>2 DEF Opening, Renewing, Posting
<1>9. /\ flow'[s].tab = f.tab /\ flow'[s].job = f.job
      /\ flow'[s].identity = f.identity /\ flow'[s].text = f.text
      /\ flow'[s].at = at /\ flow'[s].reply = reply
  BY <1>1, <1>2, <1>4, <1>7, FlowHandled
<1>10. TextHolds(flow[s].text)' BY <1>2, <1>3, <1>4, <1>5, <1>7, TextKept
<1>11. FlowHolds(flow[s])'
  <2>1. reply # None BY <1>4, NoneAssumption
  <2> QED BY <1>1, <1>2, <1>4, <1>9, <1>10, <2>1
          DEF FlowHolds, Opening, Renewing, Posting, Rejecting
<1> QED BY <1>2, <1>3, <1>4, <1>5, <1>6, <1>7, <1>8, <1>11, Served

LEMMA ObserveKeeps ==
  ASSUME RelayInv, NEW s \in Slot, Runs(s), Observe(s)
  PROVE  RelayInv'
<1> DEFINE f == flow[s]
           j == f.job
<1>1. TypeOK /\ AnswersHold /\ FlowHolds(f) BY DEF RelayInv
<1>2. j \in Job /\ f.at = "pending" /\ UNCHANGED <<server, page, history>>
  BY <1>1, FlowMembers DEF Observe
<1>3. /\ Current(j) \in 0..MaxRequests
      /\ Current(j) # 0 => Current(j) \in DOMAIN requests[j]
  BY <1>1, <1>2, CurrentIsOpen
<1>4. PICK at \in {"pended", "observed"}, status \in {"none", "request"},
           n \in 0..MaxRequests :
        /\ Handled(s, at, Reply(status, n))
        /\ at = "observed" <=> status = "request"
        /\ at = "observed" => n \in DOMAIN requests[j]
  <2>1. CASE Current(j) = 0 BY <1>3, <2>1 DEF Observe
  <2>2. CASE Current(j) # 0 BY <1>3, <2>2 DEF Observe
  <2> QED BY <2>1, <2>2
<1>5. PICK reply \in Response :
        reply = Reply(status, n) /\ reply.status = status /\ reply.request = n
  BY Replies
<1>6. ServerTyped' /\ ServerGrows BY <1>1, <1>2, ServerRests
<1>7. AnswersHold' BY <1>1, <1>2, <1>6, AnswersStay DEF history, server
<1>8. at \in At BY DEF At
<1>9. \A stage \in {Opening, Renewing, Posting} : at \in stage => f.at \in stage
  BY <1>2 DEF Opening, Renewing, Posting
<1>10. /\ flow'[s].tab = f.tab /\ flow'[s].job = f.job
       /\ flow'[s].identity = f.identity /\ flow'[s].text = f.text
       /\ flow'[s].at = at /\ flow'[s].reply = reply
  BY <1>1, <1>4, <1>5, <1>8, FlowHandled
<1>11. TextHolds(flow[s].text)' BY <1>2, <1>4, <1>5, <1>6, <1>8, TextKept
<1>12. FlowHolds(flow[s])'
  <2>1. reply # None BY <1>5, NoneAssumption
  <2>2. n \in DOMAIN requests[j] => n \in DOMAIN requests'[j] BY <1>2 DEF server
  <2> QED BY <1>1, <1>2, <1>4, <1>5, <1>10, <1>11, <2>1, <2>2
          DEF FlowHolds, Opening, Renewing, Posting, Rejecting
<1> QED BY <1>2, <1>4, <1>5, <1>6, <1>7, <1>8, <1>9, <1>12, Served

\* The prompt is of the revision that is found: that of its request, or a later
\* one, and then the request is stale.
LEMMA BuildPromptKeeps ==
  ASSUME RelayInv, NEW s \in Slot, Runs(s), BuildPrompt(s)
  PROVE  RelayInv'
<1> DEFINE f == flow[s]
           j == f.job
           r == f.reply
<1>1. TypeOK /\ AnswersHold /\ FlowHolds(f) BY DEF RelayInv
<1>2. j \in Job /\ f.at = "observed" /\ UNCHANGED <<server, page, history>>
  BY <1>1, FlowMembers DEF BuildPrompt
<1>3. /\ r \in Response /\ r.status = "request" /\ r.request \in DOMAIN requests[j]
      /\ f.identity # None /\ f.identity.job = j
  BY <1>1, <1>2, FlowMembers DEF FlowHolds
<1>4. revision[j] \in 0..MaxRevision BY <1>2 , <1>1, RequestsTyped
<1> DEFINE reply == [r EXCEPT !.revision = revision[j]]
<1>5. /\ reply \in Response
      /\ reply.status = "request" /\ reply.request = r.request
      /\ reply.revision = revision[j]
  BY <1>3, <1>4 DEF Response
<1>6. Handled(s, "pended", reply) BY DEF BuildPrompt, Handled, ContinuationOf
<1> HIDE DEF reply
<1>7. ServerTyped' /\ ServerGrows BY <1>1, <1>2, ServerRests
<1>8. AnswersHold' BY <1>1, <1>2, <1>7, AnswersStay DEF history, server
<1>9. "pended" \in At BY DEF At
<1>10. \A stage \in {Opening, Renewing, Posting} : "pended" \in stage => f.at \in stage
  BY <1>2 DEF Opening, Renewing, Posting
<1>11. /\ flow'[s].tab = f.tab /\ flow'[s].job = f.job
       /\ flow'[s].identity = f.identity /\ flow'[s].text = f.text
       /\ flow'[s].at = "pended" /\ flow'[s].reply = reply
  BY <1>1, <1>5, <1>6, <1>9, FlowHandled
<1>12. TextHolds(flow[s].text)' BY <1>2, <1>5, <1>6, <1>7, <1>9, TextKept
<1>13. PromptHolds(j, r.request, revision[j])
  <2>1. /\ requests[j][r.request] <= revision[j]
        /\ requests[j][r.request] \in 0..MaxRevision
    BY <1>1, <1>2, <1>3, RequestsTyped
  <2> QED BY <1>3, <1>4, <2>1, RelayAssumption DEF PromptHolds
<1>14. FlowHolds(flow[s])'
  <2>1. reply # None BY <1>5, NoneAssumption
  <2>2. requests' = requests /\ revision' = revision BY <1>2 DEF server
  <2>3. PromptHolds(flow[s].job, flow[s].reply.request, flow[s].reply.revision)'
    BY <1>5, <1>11, <1>13, <2>2 DEF PromptHolds
  <2>4. f.text # None => f.text.author = f.tab /\ f.text.job = j /\ f.text.request = 0
    BY <1>1, <1>2 DEF FlowHolds, Opening
  <2> QED BY <1>3, <1>5, <1>11, <1>12, <2>1, <2>2, <2>3, <2>4
          DEF FlowHolds, Opening, Renewing, Posting, Rejecting
<1> QED BY <1>2, <1>5, <1>6, <1>7, <1>8, <1>9, <1>10, <1>14, Served

\* The handler of a post takes a text of the tab's own, for the request that is
\* current and of its revision.
LEMMA TakeAnswerKeeps ==
  ASSUME RelayInv, NEW s \in Slot, Runs(s), TakeAnswer(s)
  PROVE  RelayInv'
<1> DEFINE f == flow[s]
           j == f.job
           at == Posted(f)
<1>1. TypeOK /\ AnswersHold /\ FlowHolds(f) BY DEF RelayInv
<1>2. /\ f.at \in {"repeat", "post"} /\ f.identity.job = j
      /\ f.identity.request = Current(j) /\ Accept(j, f.text)
      /\ Handled(s, at, Reply("ok", 0))
      /\ UNCHANGED <<requests, demo, page, history>>
  BY DEF TakeAnswer, IsAwaited
<1>3. /\ j \in Job /\ f.tab \in Tab
      /\ f.text \in Text /\ f.identity \in Identity /\ f.text.author = f.tab
  BY <1>1, <1>2, FlowMembers DEF FlowHolds, Posting
<1>4. Current(j) \in 1..MaxRequests BY <1>2, <1>3 DEF Identity
<1>5. demo' \in [Job -> 0..MaxRequests] BY <1>1, <1>2 DEF TypeOK
<1>6. ServerTyped' /\ ServerGrows /\ accepted'[j][Current(j)] = f.text
  <2>1. Current(j) # 0 BY <1>4
  <2> QED BY <1>1, <1>2, <1>3, <1>5, <2>1, AnswerTaken
<1>7. Suits(f.text, j, Current(j)) \/ f.text.author \in overlapped
  <2> SUFFICES ASSUME f.tab \notin overlapped PROVE Suits(f.text, j, Current(j))
    BY <1>3
  <2>1. Undisturbed(f.tab) BY <1>3 DEF RelayInv, OneFlowActs
  <2>2. s \in Engaged(f.tab) /\ f.at \in Posting BY <1>2 DEF Engaged, Posting
  <2> QED BY <1>2, <2>1, <2>2 DEF Undisturbed
<1>8. AnswersHold'
  <2>1. Current(j) # 0 /\ TextHolds(f.text) BY <1>1, <1>4 DEF FlowHolds
  <2>2. UNCHANGED <<requests, overlapped>> BY <1>2 DEF history
  <2> QED BY <1>1, <1>2, <1>3, <1>5, <1>7, <2>1, <2>2, AnswerFits
<1>9. at \in At /\ at \in {"posted", "repeated"} BY DEF At, Posted
<1>10. \A stage \in {Opening, Renewing, Posting} : at \in stage => f.at \in stage
  BY <1>2, <1>9 DEF Opening, Renewing, Posting
<1> HIDE DEF at
<1>11. PICK reply \in Response : reply = Reply("ok", 0)
  BY Replies, RelayAssumption
<1>12. /\ flow'[s].tab = f.tab /\ flow'[s].job = f.job
       /\ flow'[s].identity = f.identity /\ flow'[s].text = f.text
       /\ flow'[s].at = at /\ flow'[s].reply = reply
  BY <1>1, <1>2, <1>9, <1>11, FlowHandled
<1>13. TextHolds(flow[s].text)' BY <1>2, <1>6, <1>9, <1>11, TextKept
<1>14. FlowHolds(flow[s])'
  <2>1. reply # None /\ f.identity # None /\ f.text # None
    BY <1>3, NoneAssumption
  <2> QED BY <1>2, <1>3, <1>6, <1>9, <1>12, <1>13, <2>1
          DEF FlowHolds, Opening, Renewing, Posting, Rejecting
<1> QED BY <1>2, <1>6, <1>8, <1>9, <1>10, <1>11, <1>14, Served

\* A post that is a repeat or is refused.
LEMMA PostKeeps ==
  ASSUME RelayInv, NEW s \in Slot, Runs(s), RepeatAnswer(s) \/ RefuseAnswer(s)
  PROVE  RelayInv'
<1> DEFINE f == flow[s]
           at == Posted(f)
<1>1. TypeOK /\ AnswersHold /\ FlowHolds(f) BY DEF RelayInv
<1>2. PICK status \in {"ok", "refused"} :
        /\ Handled(s, at, Reply(status, 0))
        /\ status = "ok" => Repeats(f)
  BY DEF RepeatAnswer, RefuseAnswer
<1>3. f.at \in {"repeat", "post"} /\ UNCHANGED <<server, page, history>>
  BY DEF RepeatAnswer, RefuseAnswer
<1>4. PICK reply \in Response : reply = Reply(status, 0) /\ reply.status = status
  BY Replies, RelayAssumption
<1>5. ServerTyped' /\ ServerGrows BY <1>1, <1>3, ServerRests
<1>6. AnswersHold' BY <1>1, <1>3, <1>5, AnswersStay DEF history, server
<1>7. at \in At /\ at \in {"posted", "repeated"} BY DEF At, Posted
<1>8. \A stage \in {Opening, Renewing, Posting} : at \in stage => f.at \in stage
  BY <1>3, <1>7 DEF Opening, Renewing, Posting
<1> HIDE DEF at
<1>9. /\ flow'[s].tab = f.tab /\ flow'[s].job = f.job
      /\ flow'[s].identity = f.identity /\ flow'[s].text = f.text
      /\ flow'[s].at = at /\ flow'[s].reply = reply
  BY <1>1, <1>2, <1>4, <1>7, FlowHandled
<1>10. TextHolds(flow[s].text)' BY <1>2, <1>3, <1>4, <1>5, <1>7, TextKept
<1>11. FlowHolds(flow[s])'
  <2>1. reply # None BY NoneAssumption
  <2>2. status = "ok" => accepted'[f.identity.job][f.identity.request] = f.text
    BY <1>2, <1>3 DEF Repeats, Matches, server
  <2> QED BY <1>1, <1>3, <1>4, <1>7, <1>9, <1>10, <2>1, <2>2
          DEF FlowHolds, Opening, Renewing, Posting, Rejecting
<1> QED BY <1>2, <1>3, <1>4, <1>5, <1>6, <1>7, <1>8, <1>11, Served

\* A decision of the owner leaves the requests and their answers alone.
LEMMA Decided ==
  ASSUME TypeOK, AnswersHold, NEW j \in Job, NEW subject, Decide(j, subject),
         UNCHANGED <<requests, lease, accepted, demo, overlapped>>
  PROVE  ServerTyped' /\ ServerGrows /\ AnswersHold'
<1>1. PICK next \in {"semantic", "nothing"} : Moves(j, next) BY DEF Decide
<1>2. ServerTyped' /\ ServerGrows BY <1>1, Moved, RevisionsGrow DEF TypeOK
<1> QED BY <1>2, AnswersStay

LEMMA RejectPlanKeeps ==
  ASSUME RelayInv, NEW s \in Slot, Runs(s), RejectPlan(s)
  PROVE  RelayInv'
<1> DEFINE f == flow[s]
<1>1. TypeOK /\ AnswersHold /\ FlowHolds(f) BY DEF RelayInv
<1>2. f.job \in Job /\ f.at = "reject" /\ UNCHANGED <<page, history>>
  BY <1>1, FlowMembers DEF RejectPlan
<1>3. ServerTyped' /\ ServerGrows /\ AnswersHold'
  <2>1. CASE Decide(f.job, f.reply.revision)
    BY <1>1, <1>2, <2>1, Decided DEF RejectPlan, history
  <2>2. CASE UNCHANGED <<revision, waits>>
    <3>1. UNCHANGED server BY <2>2 DEF RejectPlan, server
    <3> QED BY <1>1, <1>2, <3>1, ServerRests, AnswersStay DEF server, history
  <2> QED BY <2>1, <2>2 DEF RejectPlan
<1>4. PICK status \in {"ok", "refused"} : Handled(s, "rejected", Reply(status, 0))
  BY DEF RejectPlan
<1>5. PICK reply \in Response : reply = Reply(status, 0)
  BY Replies, RelayAssumption
<1>6. "rejected" \in At BY DEF At
<1>7. \A stage \in {Opening, Renewing, Posting} : "rejected" \in stage => f.at \in stage
  BY DEF Opening, Renewing, Posting
<1>8. /\ flow'[s].tab = f.tab /\ flow'[s].job = f.job
      /\ flow'[s].identity = f.identity /\ flow'[s].text = f.text
      /\ flow'[s].at = "rejected" /\ flow'[s].reply = reply
  BY <1>1, <1>4, <1>5, <1>6, FlowHandled
<1>9. TextHolds(flow[s].text)' BY <1>2, <1>3, <1>4, <1>5, <1>6, TextKept
<1>10. FlowHolds(flow[s])'
  <2>1. reply # None BY NoneAssumption
  <2> QED BY <1>1, <1>2, <1>8, <1>9, <2>1
          DEF FlowHolds, Opening, Renewing, Posting, Rejecting
<1> QED BY <1>2, <1>3, <1>4, <1>5, <1>6, <1>7, <1>10, Served

LEMMA OwnerDecidesKeeps ==
  ASSUME RelayInv, NEW j \in Job, OwnerDecides(j)
  PROVE  RelayInv'
<1>1. TypeOK /\ AnswersHold BY DEF RelayInv
<1>2. PICK subject : Decide(j, subject) BY DEF OwnerDecides
<1>3. ServerTyped' /\ ServerGrows /\ AnswersHold'
  BY <1>1, <1>2, Decided DEF OwnerDecides, history
<1> QED BY <1>3, Beside DEF OwnerDecides

LEMMA ElsewhereKeeps ==
  ASSUME RelayInv, NEW j \in Job, Elsewhere(j)
  PROVE  RelayInv'
<1>1. TypeOK /\ AnswersHold BY DEF RelayInv
<1>2. PICK next \in {"semantic", "owner", "nothing"} : Moves(j, next) BY DEF Elsewhere
<1>3. ServerTyped' /\ ServerGrows
  BY <1>1, <1>2, Moved, RevisionsGrow DEF Elsewhere, TypeOK
<1>4. AnswersHold' BY <1>1, <1>3, AnswersStay DEF Elsewhere, history
<1> QED BY <1>3, <1>4, Beside DEF Elsewhere

LEMMA ExpireKeeps ==
  ASSUME RelayInv, NEW j \in Job, Expire(j)
  PROVE  RelayInv'
<1>1. TypeOK /\ AnswersHold BY DEF RelayInv
<1>2. \A k \in Job : revision[k] <= revision'[k] BY <1>1, RequestsTyped DEF Expire
<1>3. ServerTyped' /\ ServerGrows
  BY <1>1, <1>2, RevisionsGrow DEF Expire, TypeOK
<1>4. AnswersHold' BY <1>1, <1>3, AnswersStay DEF Expire, history
<1> QED BY <1>3, <1>4, Beside DEF Expire

LEMMA DemoLeasesKeeps ==
  ASSUME RelayInv, NEW j \in Job, DemoLeases(j)
  PROVE  RelayInv'
<1>1. TypeOK /\ AnswersHold BY DEF RelayInv
<1>2. /\ LeaseCurrent(j, Demo) /\ lease' = [lease EXCEPT ![j] = Demo]
      /\ demo' = [demo EXCEPT ![j] = Len(requests'[j])]
      /\ UNCHANGED <<revision, waits, accepted>>
  BY DEF DemoLeases
<1>3. Len(requests'[j]) \in 0..MaxRequests
  <2>1. CASE Current(j) # 0
    BY <1>1, <1>2, <2>1, RequestsTyped DEF LeaseCurrent, Latest
  <2>2. CASE Current(j) = 0
    <3>1. /\ Latest(j) < MaxRequests
          /\ requests' = [requests EXCEPT ![j] = Append(requests[j], revision[j])]
      BY <1>2, <2>2 DEF LeaseCurrent
    <3>2. requests[j] \in Seq(0..MaxRevision) /\ revision[j] \in 0..MaxRevision
      BY <1>1 DEF TypeOK
    <3>3. Len(Append(requests[j], revision[j])) = Latest(j) + 1
      BY <3>2, AppendProperties DEF Latest
    <3>4. requests'[j] = Append(requests[j], revision[j]) BY <1>1, <3>1 DEF TypeOK
    <3>5. Latest(j) \in 0..MaxRequests BY <1>1, RequestsTyped
    <3> QED BY <3>1, <3>3, <3>4, <3>5, RelayAssumption
  <2> QED BY <2>1, <2>2
<1>4. demo' \in [Job -> 0..MaxRequests] BY <1>1, <1>2, <1>3 DEF TypeOK
<1>5. ServerTyped' /\ ServerGrows
  <2>1. Demo \in Holders \cup {Demo} OBVIOUS
  <2> QED BY <1>1, <1>2, <1>4, <2>1, Leased
<1>6. AnswersHold' BY <1>1, <1>2, <1>5, AnswersStay DEF DemoLeases, history
<1> QED BY <1>5, <1>6, Beside DEF DemoLeases

\* A fixture is written for the request that it is submitted for.
LEMMA DemoSubmitsKeeps ==
  ASSUME RelayInv, NEW j \in Job, DemoSubmits(j)
  PROVE  RelayInv'
<1> DEFINE n == demo[j]
           x == Fixture(j)
<1>1. TypeOK /\ AnswersHold BY DEF RelayInv
<1>2. demo' \in [Job -> 0..MaxRequests]
  BY <1>1, RelayAssumption DEF DemoSubmits, TypeOK
<1>3. CASE n = Current(j) /\ waits[j] = "semantic" /\ lease[j] = Demo
  <2>1. Accept(j, x) /\ UNCHANGED requests /\ UNCHANGED <<page, flow, history>>
    BY <1>3 DEF DemoSubmits
  <2>2. Current(j) # 0 BY <1>3 DEF DemoSubmits
  <2>3. n \in DOMAIN requests[j] /\ n \in 1..MaxRequests BY <1>1, <1>3, <2>2, CurrentIsOpen
  <2>4. requests[j][n] \in 0..MaxRevision BY <1>1, <2>3, RequestsTyped
  <2>5. /\ x.job = j /\ x.request = n /\ x.revision = requests[j][n]
        /\ x \in Text
    BY <2>3, <2>4 DEF Fixture, Text
  <2> HIDE DEF x
  <2>6. ServerTyped' /\ ServerGrows
    BY <1>1, <1>2, <2>1, <2>2, <2>5, AnswerTaken
  <2>7. TextHolds(x) BY <2>3, <2>5 DEF TextHolds, PromptHolds
  <2>8. Suits(x, j, Current(j)) BY <1>3, <2>5 DEF Suits
  <2>9. AnswersHold'
    <3>1. UNCHANGED <<requests, overlapped>> BY <2>1 DEF history
    <3> QED BY <1>1, <1>2, <2>1, <2>2, <2>5, <2>7, <2>8, <3>1, AnswerFits
  <2> QED BY <2>1, <2>6, <2>9, Beside
<1>4. CASE ~(n = Current(j) /\ waits[j] = "semantic" /\ lease[j] = Demo)
  <2>1. UNCHANGED <<revision, waits, lease, accepted, requests, page, flow, history>>
    BY <1>4 DEF DemoSubmits
  <2>2. \A k \in Job : revision[k] <= revision'[k] BY <1>1, <2>1, RequestsTyped
  <2>3. ServerTyped' /\ ServerGrows BY <1>1, <1>2, <2>1, <2>2, RevisionsGrow DEF TypeOK
  <2>4. AnswersHold' BY <1>1, <2>1, <2>3, AnswersStay DEF history
  <2> QED BY <2>1, <2>3, <2>4, Beside
<1> QED BY <1>3, <1>4

-----------------------------------------------------------------------------
(* The flows of the dialog and the user                                    *)

\* A step on one tab.
LEMMA PageStep ==
  ASSUME RelayInv, UNCHANGED server, NEW t \in Tab,
         PageTyped', FlowTyped', HistoryTyped', overlapped \subseteq overlapped',
         \A u \in Tab \ {t} :
           /\ relay'[u] = relay[u] /\ enabled'[u] = enabled[u] /\ ready'[u] = ready[u]
           /\ pasted'[u] = pasted[u] /\ shown'[u] = shown[u],
         shown[t] # None => shown'[t] # None,
         \A r \in Slot : Runs(r)' =>
           flow'[r] = flow[r] \/ (flow'[r].tab = t /\ FlowHolds(flow[r])'),
         PageHolds(t)', t \notin overlapped' => Undisturbed(t)',
         SavedIsAccepted'
  PROVE  RelayInv'
<1>1. TypeOK /\ AnswersHold BY DEF RelayInv
<1>2. ServerTyped' /\ ServerGrows BY <1>1, ServerRests
<1>3. TypeOK'
  BY <1>2 DEF TypeOK, ServerTyped, PageTyped, FlowTyped, HistoryTyped
<1>4. ASSUME NEW u \in Tab PROVE PageHolds(u)'
  <2>1. CASE u = t BY <2>1
  <2>2. CASE u # t
    <3>1. PageHolds(u) BY DEF RelayInv
    <3> QED BY <1>1, <1>2, <1>3, <2>2, <3>1, PageStays
  <2> QED BY <2>1, <2>2
<1>5. ASSUME NEW r \in Slot, Runs(r)' PROVE FlowHolds(flow[r])'
  <2>1. CASE flow'[r] = flow[r]
    <3>1. Runs(r) /\ FlowHolds(flow[r]) BY <1>5, <2>1 DEF RelayInv, Runs
    <3>2. \A u \in Tab : shown[u] # None => shown'[u] # None OBVIOUS
    <3> QED BY <1>1, <1>2, <1>3, <2>1, <3>1, <3>2, FlowStays
  <2> QED BY <1>5, <2>1
<1>6. OneFlowActs'
  <2> SUFFICES ASSUME NEW u \in Tab, u \notin overlapped' PROVE Undisturbed(u)'
    BY DEF OneFlowActs
  <2>1. CASE u = t BY <2>1
  <2>2. CASE u # t
    <3>1. Undisturbed(u) BY DEF RelayInv, OneFlowActs
    <3>2. \A r \in Engaged(u)' : GoesOn(r)
      BY <2>2 DEF Engaged, GoesOn, Runs
    <3> QED BY <2>2, <3>1, <3>2, TabRests
  <2> QED BY <2>1, <2>2
<1>7. AnswersHold' BY <1>1, <1>2, AnswersStay DEF server
<1> QED BY <1>3, <1>4, <1>5, <1>6, <1>7 DEF RelayInv

\* A flow that is put into a slot, and one that ends.
LEMMA FlowPut ==
  ASSUME TypeOK, NEW s \in Slot, NEW g \in Flow, flow' = [flow EXCEPT ![s] = g]
  PROVE  /\ FlowTyped' /\ Runs(s)' /\ flow'[s] = g
         /\ \A r \in Slot \ {s} : flow'[r] = flow[r]
BY NoneAssumption DEF TypeOK, FlowTyped, Runs

LEMMA FlowEnds ==
  ASSUME TypeOK, NEW s \in Slot, Finish(s)
  PROVE  /\ FlowTyped' /\ ~Runs(s)'
         /\ \A r \in Slot \ {s} : flow'[r] = flow[r]
BY DEF Finish, TypeOK, FlowTyped, Runs

\* Texts hold as long as the server rests.
LEMMA TextRests ==
  ASSUME UNCHANGED server, NEW x, TextHolds(x)
  PROVE  TextHolds(x)'
BY DEF server, TextHolds, PromptHolds

LEMMA SavedRests ==
  ASSUME SavedIsAccepted, UNCHANGED <<server, told>>
  PROVE  SavedIsAccepted'
BY DEF SavedIsAccepted, server

\* A click, by the user or by openGptRelay.
LEMMA Submitted ==
  ASSUME TypeOK, NEW s \in Slot, NEW t \in Tab, NEW j \in Job,
         NEW holder \in Holders \cup {None}, NEW x \in Text,
         NEW state, state.job = j, state.holder = holder,
         Submit(s, t, state, x), UNCHANGED server, TextHolds(x), x.author = t
  PROVE  /\ FlowTyped' /\ Runs(s)' /\ FlowHolds(flow[s])'
         /\ flow'[s].tab = t /\ flow'[s].at = "renew" /\ flow'[s].text = x
         /\ \A r \in Slot \ {s} : flow'[r] = flow[r]
         /\ enabled' \in [Tab -> BOOLEAN] /\ enabled'[t] = FALSE
         /\ \A u \in Tab \ {t} : enabled'[u] = enabled[u]
<1> DEFINE g == [tab |-> t, at |-> "renew", job |-> j, holder |-> holder,
                 identity |-> None, text |-> x, reply |-> None]
<1>1. g \in Flow BY DEF Flow, At
<1>2. flow' = [flow EXCEPT ![s] = g] BY DEF Submit
<1>3. /\ g.tab = t /\ g.at = "renew" /\ g.text = x OBVIOUS
<1> HIDE DEF g
<1>4. /\ FlowTyped' /\ Runs(s)' /\ flow'[s] = g
      /\ \A r \in Slot \ {s} : flow'[r] = flow[r]
  BY <1>1, <1>2, FlowPut
<1>5. FlowHolds(flow[s])'
  <2>1. TextHolds(flow[s].text)' BY <1>3, <1>4, TextRests DEF TextHolds, PromptHolds
  <2>2. x # None BY NoneAssumption
  <2> QED BY <1>3, <1>4, <2>1, <2>2
          DEF FlowHolds, Opening, Renewing, Posting, Rejecting
<1>6. /\ enabled' \in [Tab -> BOOLEAN] /\ enabled'[t] = FALSE
      /\ \A u \in Tab \ {t} : enabled'[u] = enabled[u]
  BY DEF Submit, TypeOK
<1> QED BY <1>3, <1>4, <1>5, <1>6

\* openGptRelay before its first call: the relay is not bound, the box is empty
\* and, unless another flow runs, this one is alone.
LEMMA PrepareKeeps ==
  ASSUME RelayInv, NEW s \in Slot, NEW t \in Tab, NEW j \in Job,
         NEW plan \in Text \cup {None}, UNCHANGED server, TextHolds(plan),
         plan # None => plan.author = t /\ plan.job = j /\ plan.request = 0,
         Prepare(s, t, j, plan)
  PROVE  RelayInv'
<1> DEFINE g == [tab |-> t, at |-> "acquire", job |-> j, holder |-> Holder(t, j),
                 identity |-> None, text |-> plan, reply |-> None]
           state == [job |-> j, holder |-> None, identity |-> None]
<1>1. TypeOK /\ SavedIsAccepted BY DEF RelayInv
<1>2. g \in Flow
  <2>1. Holder(t, j) \in Holders BY DEF Holders
  <2> QED BY <2>1 DEF Flow, At
<1>3. flow' = [flow EXCEPT ![s] = g] BY DEF Prepare
<1>4. /\ g.tab = t /\ g.at = "acquire" /\ g.text = plan /\ g.job = j OBVIOUS
<1>5. state \in RelayState /\ state.identity = None BY DEF RelayState
<1>6. relay' = [relay EXCEPT ![t] = state] BY DEF Prepare
<1> HIDE DEF g, state
<1>7. /\ FlowTyped' /\ Runs(s)' /\ flow'[s] = g
      /\ \A r \in Slot \ {s} : flow'[r] = flow[r]
  BY <1>1, <1>2, <1>3, FlowPut
<1>8. FlowHolds(flow[s])'
  <2>1. TextHolds(flow[s].text)' BY <1>4, <1>7, TextRests DEF TextHolds, PromptHolds
  <2> QED BY <1>4, <1>7, <2>1 DEF FlowHolds, Opening, Renewing, Posting, Rejecting
<1>9. /\ relay' \in [Tab -> RelayState \cup {None}] /\ relay'[t] = state
      /\ \A u \in Tab \ {t} : relay'[u] = relay[u]
  BY <1>1, <1>5, <1>6 DEF TypeOK
<1>10. /\ dialog' \in [Tab -> BOOLEAN] /\ ready' \in [Tab -> BOOLEAN]
       /\ enabled' \in [Tab -> BOOLEAN] /\ pasted' \in [Tab -> Text \cup {None}]
       /\ UNCHANGED shown
       /\ ready'[t] = FALSE /\ enabled'[t] = FALSE /\ pasted'[t] = None
       /\ \A u \in Tab \ {t} : /\ enabled'[u] = enabled[u] /\ ready'[u] = ready[u]
                              /\ pasted'[u] = pasted[u]
  BY <1>1 DEF Prepare, TypeOK, EmptyBox
<1>11. PageTyped' BY <1>1, <1>9, <1>10 DEF PageTyped, TypeOK
<1>12. HistoryTyped' /\ overlapped \subseteq overlapped' /\ UNCHANGED told
  BY <1>1 DEF Prepare, HistoryTyped, TypeOK
<1>13. PageHolds(t)'
  <2>1. PageHolds(t) BY DEF RelayInv
  <2> QED BY <1>10, <2>1 DEF PageHolds, TextHolds, PromptHolds, server
<1>14. ASSUME t \notin overlapped' PROVE Undisturbed(t)'
  <2>1. Busy(t) \ {s} = {} BY <1>14 DEF Prepare
  <2>2. ASSUME NEW r \in Engaged(t)' PROVE r = s
    <3> SUFFICES ASSUME r # s PROVE FALSE OBVIOUS
    <3>1. r \in Engaged(t) BY <1>7, <2>2 DEF Engaged, Runs
    <3>2. r \in Busy(t) BY <3>1 DEF Engaged, Busy, Runs, Opening, Renewing, Posting
    <3> QED BY <2>1, <3>2
  <2>3. \A r \in Engaged(t)' : flow'[r].at = "acquire"
    BY <1>4, <1>7, <2>2
  <2>4. ~Bound(t)' BY <1>5, <1>9 DEF Bound
  <2> QED BY <1>10, <2>2, <2>3, <2>4 DEF Undisturbed, Opening, Renewing, Posting
<1>15. SavedIsAccepted' BY <1>1, <1>12, SavedRests
<1>16. \A r \in Slot : Runs(r)' =>
         flow'[r] = flow[r] \/ (flow'[r].tab = t /\ FlowHolds(flow[r])')
  BY <1>4, <1>7, <1>8
<1> QED BY <1>7, <1>9, <1>10, <1>11, <1>12, <1>13, <1>14, <1>15, <1>16, PageStep

LEMMA OpenRelayKeeps ==
  ASSUME RelayInv, NEW t \in Tab, NEW j \in Job, OpenRelay(t, j)
  PROVE  RelayInv'
<1>1. PICK s \in Slot : Prepare(s, t, j, None) BY DEF OpenRelay
<1>2. UNCHANGED server /\ TextHolds(None) BY DEF OpenRelay, TextHolds
<1> QED BY <1>1, <1>2, PrepareKeeps

LEMMA RevisePlanKeeps ==
  ASSUME RelayInv, NEW t \in Tab, NEW j \in Job, RevisePlan(t, j)
  PROVE  RelayInv'
<1>1. TypeOK /\ SavedIsAccepted BY DEF RelayInv
<1>2. UNCHANGED <<server, page, history>> BY DEF RevisePlan
<1>3. PICK s \in Slot, subject \in 0..revision[j] :
        flow' = [flow EXCEPT ![s] =
            [tab |-> t, at |-> "reject", job |-> j, holder |-> None,
             identity |-> None,
             text |-> [job |-> j, request |-> 0, revision |-> 0, author |-> t],
             reply |-> [status |-> "none", request |-> 0, revision |-> subject]]]
  BY DEF RevisePlan
<1> DEFINE plan == [job |-> j, request |-> 0, revision |-> 0, author |-> t]
           reply == [status |-> "none", request |-> 0, revision |-> subject]
<1>4. plan \in Text BY RelayAssumption DEF Text
<1>5. reply \in Response
  <2>1. revision[j] \in 0..MaxRevision BY <1>1 DEF TypeOK
  <2>2. subject \in 0..MaxRevision /\ 0 \in 0..MaxRequests BY <2>1, RelayAssumption
  <2> QED BY <2>2 DEF Response
<1>6. plan.job = j /\ plan.request = 0 /\ plan.author = t OBVIOUS
<1> HIDE DEF plan, reply
<1> DEFINE g == [tab |-> t, at |-> "reject", job |-> j, holder |-> None,
                 identity |-> None, text |-> plan, reply |-> reply]
<1>7. g \in Flow BY <1>4, <1>5 DEF Flow, At
<1>8. flow' = [flow EXCEPT ![s] = g] BY <1>3 DEF plan, reply
<1>9. g.tab = t /\ g.at = "reject" /\ g.job = j /\ g.text = plan /\ g.reply = reply
  OBVIOUS
<1> HIDE DEF g
<1>10. /\ FlowTyped' /\ Runs(s)' /\ flow'[s] = g
       /\ \A r \in Slot \ {s} : flow'[r] = flow[r]
  BY <1>1, <1>7, <1>8, FlowPut
<1>11. FlowHolds(flow[s])'
  <2>1. plan # None /\ reply # None BY <1>4, <1>5, NoneAssumption
  <2>2. TextHolds(flow[s].text)' BY <1>6, <1>9, <1>10 DEF TextHolds
  <2> QED BY <1>6, <1>9, <1>10, <2>1, <2>2
          DEF FlowHolds, Opening, Renewing, Posting, Rejecting
<1>12. PageTyped' /\ HistoryTyped'
  BY <1>1, <1>2 DEF PageTyped, HistoryTyped, TypeOK, page, history
<1>13. PageHolds(t)'
  <2>1. PageHolds(t) BY DEF RelayInv
  <2> QED BY <1>2, <2>1 DEF PageHolds, TextHolds, PromptHolds, server, page
<1>14. ASSUME t \notin overlapped' PROVE Undisturbed(t)'
  <2>1. Undisturbed(t) BY <1>2, <1>14 DEF RelayInv, OneFlowActs, history
  <2>2. ASSUME NEW r \in Engaged(t)' PROVE GoesOn(r)
    <3>1. r # s
      BY <1>9, <1>10, <2>2 DEF Engaged, Opening, Renewing, Posting
    <3> QED BY <1>10, <2>2, <3>1 DEF Engaged, GoesOn, Runs
  <2> QED BY <1>2, <2>1, <2>2, TabRests DEF page
<1>15. SavedIsAccepted' BY <1>1, <1>2, SavedRests DEF history
<1>16. \A r \in Slot : Runs(r)' =>
         flow'[r] = flow[r] \/ (flow'[r].tab = t /\ FlowHolds(flow[r])')
  BY <1>9, <1>10, <1>11
<1> QED BY <1>2, <1>10, <1>12, <1>13, <1>14, <1>15, <1>16, PageStep
        DEF page, history

\* A flow that ends without a trace on the page, before or beside the dialog.
LEMMA FinishKeeps ==
  ASSUME RelayInv, NEW s \in Slot, Runs(s), Finish(s),
         flow[s].at \in {"reject", "rejected", "download"},
         UNCHANGED <<server, page, history>>
  PROVE  RelayInv'
<1>1. TypeOK /\ SavedIsAccepted BY DEF RelayInv
<1>2. PICK t \in Tab : t = flow[s].tab BY <1>1, FlowMembers
<1>3. /\ FlowTyped' /\ ~Runs(s)' /\ \A r \in Slot \ {s} : flow'[r] = flow[r]
  BY <1>1, FlowEnds
<1>4. PageTyped' /\ HistoryTyped'
  BY <1>1 DEF PageTyped, HistoryTyped, TypeOK, page, history
<1>5. PageHolds(t)'
  <2>1. PageHolds(t) BY <1>2 DEF RelayInv
  <2> QED BY <2>1 DEF PageHolds, TextHolds, PromptHolds, server, page
<1>6. ASSUME t \notin overlapped' PROVE Undisturbed(t)'
  <2>1. Undisturbed(t) BY <1>2, <1>6 DEF RelayInv, OneFlowActs, history
  <2>2. \A r \in Engaged(t)' : GoesOn(r)
    BY <1>3 DEF Engaged, GoesOn, Runs
  <2> QED BY <1>2, <2>1, <2>2, TabRests DEF page
<1>7. SavedIsAccepted' BY <1>1, SavedRests DEF history
<1>8. \A r \in Slot : Runs(r)' => flow'[r] = flow[r] BY <1>3
<1> QED BY <1>2, <1>3, <1>4, <1>5, <1>6, <1>7, <1>8, PageStep DEF page, history

LEMMA OnRejectedKeeps ==
  ASSUME RelayInv, NEW s \in Slot, Runs(s), OnRejected(s)
  PROVE  RelayInv'
<1> DEFINE f == flow[s]
<1>1. TypeOK /\ FlowHolds(f) BY DEF RelayInv
<1>2. /\ f.tab \in Tab /\ f.job \in Job /\ f.text \in Text \cup {None}
      /\ f.at = "rejected" /\ UNCHANGED server
  BY <1>1, FlowMembers DEF OnRejected
<1>3. CASE f.reply.status = "ok"
  <2>1. Prepare(s, f.tab, f.job, f.text) BY <1>3 DEF OnRejected
  <2>2. TextHolds(f.text)
        /\ (f.text # None =>
              f.text.author = f.tab /\ f.text.job = f.job /\ f.text.request = 0)
    BY <1>1, <1>2 DEF FlowHolds, Rejecting
  <2> QED BY <1>2, <2>1, <2>2, PrepareKeeps
<1>4. CASE f.reply.status # "ok"
  <2>1. Finish(s) /\ UNCHANGED <<page, history>> BY <1>4 DEF OnRejected
  <2> QED BY <1>2, <2>1, FinishKeeps
<1> QED BY <1>3, <1>4

LEMMA ClickKeeps ==
  ASSUME RelayInv, NEW t \in Tab, Click(t)
  PROVE  RelayInv'
<1>1. TypeOK /\ SavedIsAccepted /\ PageHolds(t) BY DEF RelayInv
<1>2. PICK s \in Slot : Submit(s, t, relay[t], pasted[t]) BY DEF Click
<1>3. /\ enabled[t] /\ relay[t] \in RelayState /\ pasted[t] \in Text
      /\ UNCHANGED <<server, relay, dialog, ready, shown, pasted, history>>
  BY <1>1 DEF Click, TypeOK
<1>4. /\ relay[t].job \in Job /\ relay[t].holder \in Holders \cup {None}
      /\ TextHolds(pasted[t]) /\ pasted[t].author = t
  BY <1>1, <1>3, NoneAssumption DEF RelayState, PageHolds
<1>5. /\ FlowTyped' /\ Runs(s)' /\ FlowHolds(flow[s])'
      /\ flow'[s].tab = t /\ flow'[s].at = "renew" /\ flow'[s].text = pasted[t]
      /\ \A r \in Slot \ {s} : flow'[r] = flow[r]
      /\ enabled' \in [Tab -> BOOLEAN] /\ enabled'[t] = FALSE
      /\ \A u \in Tab \ {t} : enabled'[u] = enabled[u]
  BY ZenonT(60), <1>1, <1>2, <1>3, <1>4, Submitted
<1>6. PageTyped' /\ HistoryTyped'
  BY <1>1, <1>3, <1>5 DEF PageTyped, HistoryTyped, TypeOK, history
<1>7. PageHolds(t)' BY <1>1, <1>3 DEF PageHolds, TextHolds, PromptHolds, server
<1>8. ASSUME t \notin overlapped' PROVE Undisturbed(t)'
  <2>1. Undisturbed(t) BY <1>3, <1>8 DEF RelayInv, OneFlowActs, history
  <2>2. Engaged(t) = {} BY <1>3, <2>1 DEF Undisturbed
  <2>3. \A r \in Engaged(t)' : r = s BY <1>5, <2>2 DEF Engaged, Runs
  <2>4. Bound(t)' = Bound(t) BY <1>3 DEF Bound
  <2>5. Bound(t) => SuitsRelay(t, pasted[t])
    BY <1>3, <2>1, NoneAssumption DEF Undisturbed
  <2> QED BY <1>3, <1>5, <2>1, <2>3, <2>4, <2>5
          DEF Undisturbed, SuitsRelay, Suits, Opening, Renewing, Posting
<1>9. SavedIsAccepted' BY <1>1, <1>3, SavedRests DEF history
<1>10. \A r \in Slot : Runs(r)' =>
         flow'[r] = flow[r] \/ (flow'[r].tab = t /\ FlowHolds(flow[r])')
  BY <1>5
<1> QED BY <1>3, <1>5, <1>6, <1>7, <1>8, <1>9, <1>10, PageStep DEF history

\* openGptRelay returns without a prompt.  An edited plan is for no request yet,
\* and the relay of an undisturbed tab is not bound to one.
LEMMA ReturnsKeeps ==
  ASSUME RelayInv, NEW s \in Slot, Runs(s), flow[s].at \in Opening, Returns(s),
         UNCHANGED <<server, history>>
  PROVE  RelayInv'
<1> DEFINE f == flow[s]
<1>1. TypeOK /\ SavedIsAccepted /\ FlowHolds(f) BY DEF RelayInv
<1>2. PICK t \in Tab : t = f.tab BY <1>1, FlowMembers
<1>3. PICK x \in Text \cup {None} : x = f.text BY <1>1, FlowMembers
<1>4. /\ TextHolds(x)
      /\ x # None => x.author = t /\ x \in Text
  BY <1>1, <1>2, <1>3 DEF FlowHolds
<1>5. /\ UNCHANGED <<relay, dialog, ready, shown>>
      /\ pasted' = IF x = None THEN pasted ELSE [pasted EXCEPT ![t] = x]
  BY <1>2, <1>3 DEF Returns
<1>6. /\ pasted' \in [Tab -> Text \cup {None}]
      /\ pasted'[t] = IF x = None THEN pasted[t] ELSE x
      /\ \A u \in Tab \ {t} : pasted'[u] = pasted[u]
  BY <1>1, <1>5 DEF TypeOK
<1>7. PageHolds(t)'
  <2>1. PageHolds(t) BY DEF RelayInv
  <2> QED BY <1>4, <1>5, <1>6, <2>1 DEF PageHolds, TextHolds, PromptHolds, server
<1>8. SavedIsAccepted' BY <1>1, SavedRests DEF history
<1>9. HistoryTyped' BY <1>1 DEF HistoryTyped, TypeOK, history
<1>10. s \in Engaged(t) BY <1>2 DEF Engaged
<1>11. CASE x # None /\ enabled[t] /\ relay[t] # None
  <2>1. Submit(s, t, relay[t], x) BY <1>2, <1>3, <1>11 DEF Returns
  <2>2. relay[t] \in RelayState BY <1>1, <1>11 DEF TypeOK
  <2>3. relay[t].job \in Job /\ relay[t].holder \in Holders \cup {None}
    BY <2>2 DEF RelayState
  <2>4. /\ FlowTyped' /\ Runs(s)' /\ FlowHolds(flow[s])'
        /\ flow'[s].tab = t
        /\ \A r \in Slot \ {s} : flow'[r] = flow[r]
        /\ enabled' \in [Tab -> BOOLEAN]
        /\ \A u \in Tab \ {t} : enabled'[u] = enabled[u]
    BY ZenonT(60), <1>1, <1>4, <1>11, <2>1, <2>3, Submitted
  <2>5. PageTyped' BY <1>1, <1>5, <1>6, <2>4 DEF PageTyped, TypeOK
  <2>6. t \in overlapped
    <3>1. t \notin overlapped /\ enabled[t] => Engaged(t) = {}
      BY DEF RelayInv, OneFlowActs, Undisturbed
    <3> QED BY <1>10, <1>11, <3>1
  <2>7. \A r \in Slot : Runs(r)' =>
          flow'[r] = flow[r] \/ (flow'[r].tab = t /\ FlowHolds(flow[r])')
    BY <2>4
  <2> QED BY <1>5, <1>6, <1>7, <1>8, <1>9, <2>4, <2>5, <2>6, <2>7, PageStep DEF history
<1>12. CASE ~(x # None /\ enabled[t] /\ relay[t] # None)
  <2>1. Finish(s) /\ UNCHANGED enabled BY <1>2, <1>3, <1>12 DEF Returns
  <2>2. /\ FlowTyped' /\ ~Runs(s)' /\ \A r \in Slot \ {s} : flow'[r] = flow[r]
    BY <1>1, <2>1, FlowEnds
  <2>3. PageTyped' BY <1>1, <1>5, <1>6, <2>1 DEF PageTyped, TypeOK
  <2>4. ASSUME t \notin overlapped' PROVE Undisturbed(t)'
    <3>1. Undisturbed(t) BY <2>4 DEF RelayInv, OneFlowActs, history
    <3>2. Engaged(t)' = {}
      BY <1>10, <2>2, <3>1 DEF Undisturbed, Engaged, Runs
    <3>3. ~Bound(t) BY <1>10, <3>1 DEF Undisturbed
    <3>4. ~Bound(t)' BY <1>5, <3>3 DEF Bound
    <3> QED BY <3>2, <3>4 DEF Undisturbed
  <2>5. \A r \in Slot : Runs(r)' => flow'[r] = flow[r] BY <2>2
  <2> QED BY <1>5, <1>6, <1>7, <1>8, <1>9, <2>1, <2>2, <2>3, <2>4, <2>5, PageStep
          DEF history
<1> QED BY <1>11, <1>12

LEMMA OnAcquiredKeeps ==
  ASSUME RelayInv, NEW s \in Slot, Runs(s), OnAcquired(s)
  PROVE  RelayInv'
<1> DEFINE f == flow[s]
<1>1. TypeOK /\ SavedIsAccepted /\ FlowHolds(f) BY DEF RelayInv
<1>2. f.at = "acquired" /\ UNCHANGED <<server, history>> BY DEF OnAcquired
<1>3. CASE f.reply.status # "request"
  <2>1. Returns(s) BY <1>3 DEF OnAcquired
  <2> QED BY <1>2, <2>1, ReturnsKeeps DEF Opening
<1>4. CASE f.reply.status = "request"
  <2> DEFINE identity == [job |-> f.job, request |-> f.reply.request]
             g == [f EXCEPT !.at = "pending", !.identity = identity]
  <2>1. flow' = [flow EXCEPT ![s] = g] /\ UNCHANGED page BY <1>4 DEF OnAcquired
  <2>2. PICK t \in Tab : t = f.tab BY <1>1, FlowMembers
  <2>3. f \in Flow /\ f.job \in Job BY <1>1, FlowMembers
  <2>4. f.reply.request \in 1..MaxRequests
    BY <1>1, <1>2, <1>4, <2>3, RequestsTyped DEF FlowHolds
  <2>5. identity \in Identity /\ identity.job = f.job BY <2>3, <2>4 DEF Identity
  <2> HIDE DEF identity
  <2>6. g \in Flow BY <2>3, <2>5 DEF Flow, At
  <2>7. /\ g.tab = f.tab /\ g.at = "pending" /\ g.job = f.job /\ g.text = f.text
        /\ g.identity = identity
    BY <2>3 DEF Flow
  <2> HIDE DEF g
  <2>8. /\ FlowTyped' /\ Runs(s)' /\ flow'[s] = g
        /\ \A r \in Slot \ {s} : flow'[r] = flow[r]
    BY <1>1, <2>1, <2>6, FlowPut
  <2>9. FlowHolds(flow[s])'
    <3>1. identity # None BY <2>5, NoneAssumption
    <3>2. TextHolds(flow[s].text)'
      BY <1>1, <1>2, <2>7, <2>8, TextRests DEF FlowHolds, TextHolds, PromptHolds
    <3> QED BY <1>1, <1>2, <2>5, <2>7, <2>8, <3>1, <3>2
            DEF FlowHolds, Opening, Renewing, Posting, Rejecting
  <2>10. PageTyped' /\ HistoryTyped'
    BY <1>1, <1>2, <2>1 DEF PageTyped, HistoryTyped, TypeOK, page, history
  <2>11. PageHolds(t)'
    <3>1. PageHolds(t) BY DEF RelayInv
    <3> QED BY <1>2, <2>1, <3>1 DEF PageHolds, TextHolds, PromptHolds, server, page
  <2>12. ASSUME t \notin overlapped' PROVE Undisturbed(t)'
    <3>1. Undisturbed(t) BY <1>2, <2>12 DEF RelayInv, OneFlowActs, history
    <3>2. s \in Engaged(t) BY <1>2, <2>2 DEF Engaged, Opening
    <3>3. \A r \in Engaged(t)' : r = s
      BY <2>8, <3>1, <3>2 DEF Undisturbed, Engaged, Runs
    <3>4. ~Bound(t) /\ ~ready[t] /\ pasted[t] = None /\ ~enabled[t]
      BY <1>2, <3>1, <3>2 DEF Undisturbed, Opening
    <3>5. ~Bound(t)' /\ ~ready'[t] /\ pasted'[t] = None /\ ~enabled'[t]
      BY <2>1, <3>4 DEF Bound, page
    <3> QED BY <2>7, <2>8, <3>3, <3>5 DEF Undisturbed, Opening, Renewing, Posting
  <2>13. SavedIsAccepted' BY <1>1, <1>2, SavedRests DEF history
  <2>14. \A r \in Slot : Runs(r)' =>
           flow'[r] = flow[r] \/ (flow'[r].tab = t /\ FlowHolds(flow[r])')
    BY <2>2, <2>7, <2>8, <2>9
  <2> QED BY <1>2, <2>1, <2>8, <2>10, <2>11, <2>12, <2>13, <2>14, PageStep
          DEF page, history
<1> QED BY <1>3, <1>4

\* The submit flow ends without success.
LEMMA GivesUpKeeps ==
  ASSUME RelayInv, NEW s \in Slot, Runs(s), flow[s].at \in Renewing \cup Posting,
         GivesUp(s), UNCHANGED <<server, history>>
  PROVE  RelayInv'
<1> DEFINE f == flow[s]
<1>1. TypeOK /\ SavedIsAccepted BY DEF RelayInv
<1>2. PICK t \in Tab : t = f.tab BY <1>1, FlowMembers
<1>3. /\ FlowTyped' /\ ~Runs(s)' /\ \A r \in Slot \ {s} : flow'[r] = flow[r]
  BY <1>1, FlowEnds DEF GivesUp
<1>4. /\ UNCHANGED <<relay, dialog, ready, shown, pasted>>
      /\ enabled' = [enabled EXCEPT ![t] = TRUE]
  BY <1>2 DEF GivesUp
<1>5. PageTyped' /\ HistoryTyped'
  BY <1>1, <1>4 DEF PageTyped, HistoryTyped, TypeOK, history
<1>6. PageHolds(t)'
  <2>1. PageHolds(t) BY DEF RelayInv
  <2> QED BY <1>4, <2>1 DEF PageHolds, TextHolds, PromptHolds, server
<1>7. ASSUME t \notin overlapped' PROVE Undisturbed(t)'
  <2>1. Undisturbed(t) BY <1>7 DEF RelayInv, OneFlowActs, history
  <2>2. s \in Engaged(t) BY <1>2 DEF Engaged
  <2>3. Engaged(t)' = {}
    BY <1>3, <2>1, <2>2 DEF Undisturbed, Engaged, Runs
  <2>4. Bound(t)' = Bound(t) BY <1>4 DEF Bound
  <2> QED BY <1>4, <2>1, <2>3, <2>4 DEF Undisturbed, SuitsRelay, Suits
<1>8. SavedIsAccepted' BY <1>1, SavedRests DEF history
<1>9. \A r \in Slot : Runs(r)' => flow'[r] = flow[r] BY <1>3
<1>10. \A u \in Tab \ {t} : enabled'[u] = enabled[u] BY <1>1, <1>4 DEF TypeOK
<1> QED BY <1>3, <1>4, <1>5, <1>6, <1>7, <1>8, <1>9, <1>10, PageStep DEF history

LEMMA FailsKeeps ==
  ASSUME RelayInv, NEW s \in Slot, Fails(s)
  PROVE  RelayInv'
<1>1. TypeOK /\ Runs(s) /\ UNCHANGED <<server, history>>
  BY DEF RelayInv, Fails, Runs
<1>2. flow[s].at \in At BY <1>1, FlowMembers
<1>3. CASE flow[s].at \in {"reject", "rejected", "download"}
  BY <1>1, <1>3, FinishKeeps DEF Fails
<1>4. CASE flow[s].at \in Opening
  BY <1>1, <1>4, ReturnsKeeps DEF Fails, Opening
<1>5. CASE flow[s].at \in Renewing \cup Posting
  BY <1>1, <1>5, GivesUpKeeps DEF Fails, Renewing, Posting
<1> QED BY <1>2, <1>3, <1>4, <1>5 DEF At, Opening, Renewing, Posting

\* The prompt is shown and the relay bound to its request.
LEMMA OnPromptKeeps ==
  ASSUME RelayInv, NEW s \in Slot, Runs(s), OnPrompt(s)
  PROVE  RelayInv'
<1> DEFINE f == flow[s]
<1>1. TypeOK /\ SavedIsAccepted /\ FlowHolds(f) BY DEF RelayInv
<1>2. f.at = "pended" /\ UNCHANGED <<server, history>> BY DEF OnPrompt
<1>3. PICK t \in Tab : t = f.tab BY <1>1, FlowMembers
<1>4. CASE ~(f.reply.status = "request" /\ SamePrompt(f) /\ relay[t] # None)
  <2>1. Returns(s) BY <1>3, <1>4 DEF OnPrompt
  <2> QED BY <1>2, <2>1, ReturnsKeeps DEF Opening
<1>5. CASE f.reply.status = "request" /\ SamePrompt(f) /\ relay[t] # None
  <2> DEFINE state == [job |-> relay[t].job, holder |-> f.holder, identity |-> f.identity]
             question == [job |-> f.job, request |-> f.reply.request,
                          revision |-> f.reply.revision]
  <2>1. /\ f.job \in Job /\ f.holder \in Holders \cup {None} /\ f.identity \in Identity
        /\ f.reply \in Response
    BY <1>1, <1>2, FlowMembers DEF FlowHolds
  <2>2. /\ f.identity.job = f.job /\ f.identity.request = f.reply.request
        /\ PromptHolds(f.job, f.reply.request, f.reply.revision)
        /\ f.identity # None
    BY <1>1, <1>2, <1>5 DEF FlowHolds, SamePrompt
  <2>3. state \in RelayState
    <3>1. relay[t] \in RelayState BY <1>1, <1>5 DEF TypeOK
    <3>2. relay[t].job \in Job BY <3>1 DEF RelayState
    <3> QED BY <2>1, <3>2 DEF RelayState
  <2>4. question \in Prompt
    <3>1. f.reply.request \in 1..MaxRequests BY <2>1, <2>2 DEF Identity
    <3>2. f.reply.revision \in 0..MaxRevision BY <2>1 DEF Response
    <3> QED BY <2>1, <3>1, <3>2 DEF Prompt
  <2>5. /\ state.identity = f.identity /\ state.job \in Job
        /\ state.holder \in Holders \cup {None}
        /\ question.job = f.job /\ question.request = f.reply.request
        /\ question.revision = f.reply.revision
    BY <2>1, <2>3 DEF RelayState
  <2>6. /\ relay' = [relay EXCEPT ![t] = state]
        /\ shown' = [shown EXCEPT ![t] = question]
        /\ ready' = [ready EXCEPT ![t] = TRUE]
        /\ UNCHANGED dialog
        /\ \/ f.text = None /\ Finish(s) /\ UNCHANGED pasted
              /\ enabled' = [enabled EXCEPT ![t] = TRUE]
           \/ f.text # None /\ Submit(s, t, state, f.text)
              /\ pasted' = [pasted EXCEPT ![t] = f.text]
    BY <1>3, <1>5 DEF OnPrompt
  <2>7. /\ f.text \in Text \cup {None} /\ TextHolds(f.text)
        /\ f.text # None => /\ f.text.author = t /\ f.text.job = f.job
                            /\ f.text.request = 0
    BY <1>1, <1>2, <1>3, FlowMembers DEF FlowHolds, Opening
  <2> HIDE DEF state, question
  <2>7a. PICK prompt \in Prompt : prompt = question BY <2>4
  <2>8. /\ relay' \in [Tab -> RelayState \cup {None}] /\ relay'[t] = state
        /\ shown' \in [Tab -> Prompt \cup {None}] /\ shown'[t] = prompt
        /\ ready' \in [Tab -> BOOLEAN] /\ ready'[t] = TRUE
        /\ \A u \in Tab \ {t} : relay'[u] = relay[u] /\ shown'[u] = shown[u]
                                /\ ready'[u] = ready[u]
    BY <1>1, <2>3, <2>6, <2>7a DEF TypeOK
  <2>9. HistoryTyped' BY <1>1, <1>2 DEF HistoryTyped, TypeOK, history
  <2>10. SavedIsAccepted' BY <1>1, <1>2, SavedRests DEF history
  <2>11. prompt # None /\ state # None BY <2>3, NoneAssumption
  <2>12. PromptHolds(prompt.job, prompt.request, prompt.revision)'
    BY <1>2, <2>2, <2>5, <2>7a DEF PromptHolds, server
  <2>13. s \in Engaged(t) BY <1>2, <1>3 DEF Engaged, Opening
  <2>14. PageHolds(t) BY DEF RelayInv
  <2>15. CASE f.text = None
    <3>1. /\ Finish(s) /\ UNCHANGED pasted /\ enabled' = [enabled EXCEPT ![t] = TRUE]
      BY <2>6, <2>15
    <3>2. /\ FlowTyped' /\ ~Runs(s)' /\ \A r \in Slot \ {s} : flow'[r] = flow[r]
      BY <1>1, <3>1, FlowEnds
    <3>3. PageTyped' BY <1>1, <2>6, <2>8, <3>1 DEF PageTyped, TypeOK
    <3>4. PageHolds(t)'
      <4>1. TextHolds(pasted[t])'
        BY <1>2, <2>14, <3>1 DEF PageHolds, TextHolds, PromptHolds, server
      <4>2. PromptHolds(shown[t].job, shown[t].request, shown[t].revision)'
        BY <2>8, <2>12 DEF PromptHolds
      <4> QED BY <2>8, <2>11, <2>14, <3>1, <4>1, <4>2 DEF PageHolds
    <3>5. ASSUME t \notin overlapped' PROVE Undisturbed(t)'
      <4>1. Undisturbed(t) BY <1>2, <3>5 DEF RelayInv, OneFlowActs, history
      <4>2. Engaged(t)' = {}
        BY <2>13, <3>2, <4>1 DEF Undisturbed, Engaged, Runs
      <4>3. pasted[t] = None BY <1>2, <2>13, <4>1 DEF Undisturbed, Opening
      <4>4. /\ shown'[t].job = relay'[t].identity.job
            /\ shown'[t].request = relay'[t].identity.request
        BY <2>2, <2>5, <2>8, <2>7a
      <4> QED BY <3>1, <4>2, <4>3, <4>4 DEF Undisturbed
    <3>6. \A r \in Slot : Runs(r)' => flow'[r] = flow[r] BY <3>2
    <3>7. \A u \in Tab \ {t} : enabled'[u] = enabled[u] BY <1>1, <3>1 DEF TypeOK
    <3> QED BY <1>2, <2>8, <2>9, <2>10, <2>11, <3>1, <3>2, <3>3, <3>4, <3>5, <3>6, <3>7,
               PageStep DEF history
  <2>16. CASE f.text # None
    <3>1. PICK x \in Text : x = f.text BY <2>7, <2>16
    <3>2. /\ Submit(s, t, state, x) /\ pasted' = [pasted EXCEPT ![t] = x]
          /\ TextHolds(x) /\ x.author = t /\ x.job = f.job /\ x.request = 0
      BY <2>6, <2>7, <2>16, <3>1
    <3>3. /\ FlowTyped' /\ Runs(s)' /\ FlowHolds(flow[s])'
          /\ flow'[s].tab = t /\ flow'[s].at = "renew" /\ flow'[s].text = x
          /\ \A r \in Slot \ {s} : flow'[r] = flow[r]
          /\ enabled' \in [Tab -> BOOLEAN] /\ enabled'[t] = FALSE
          /\ \A u \in Tab \ {t} : enabled'[u] = enabled[u]
      BY ZenonT(60), <1>1, <1>2, <2>5, <3>2, Submitted
    <3>4. /\ pasted' \in [Tab -> Text \cup {None}] /\ pasted'[t] = x
          /\ \A u \in Tab \ {t} : pasted'[u] = pasted[u]
      BY <1>1, <3>2 DEF TypeOK
    <3>5. PageTyped' BY <1>1, <2>6, <2>8, <3>3, <3>4 DEF PageTyped, TypeOK
    <3>6. PageHolds(t)'
      <4>1. TextHolds(pasted[t])'
        BY <1>2, <3>2, <3>4, TextRests DEF TextHolds, PromptHolds
      <4>2. PromptHolds(shown[t].job, shown[t].request, shown[t].revision)'
        BY <2>8, <2>12 DEF PromptHolds
      <4> QED BY <2>8, <2>11, <3>2, <3>4, <4>1, <4>2 DEF PageHolds
    <3>7. ASSUME t \notin overlapped' PROVE Undisturbed(t)'
      <4>1. Undisturbed(t) BY <1>2, <3>7 DEF RelayInv, OneFlowActs, history
      <4>2. \A r \in Engaged(t)' : r = s
        BY <2>13, <3>3, <4>1 DEF Undisturbed, Engaged, Runs
      <4>3. /\ shown'[t].job = relay'[t].identity.job
            /\ shown'[t].request = relay'[t].identity.request
        BY <2>2, <2>5, <2>8, <2>7a
      <4>4. Suits(x, relay'[t].identity.job, relay'[t].identity.request)
        BY <2>2, <2>5, <2>8, <3>2 DEF Suits
      <4> QED BY <3>3, <3>4, <4>2, <4>3, <4>4
              DEF Undisturbed, SuitsRelay, Suits, Opening, Renewing, Posting
    <3>8. \A r \in Slot : Runs(r)' =>
            flow'[r] = flow[r] \/ (flow'[r].tab = t /\ FlowHolds(flow[r])')
      BY <3>3
    <3> QED BY <1>2, <2>8, <2>9, <2>10, <2>11, <3>3, <3>4, <3>5, <3>6, <3>7, <3>8,
               PageStep DEF history
  <2> QED BY <2>15, <2>16
<1> QED BY <1>4, <1>5

\* The submit flow reads the identity that it posts under.
LEMMA SendsKeeps ==
  ASSUME RelayInv, NEW s \in Slot, Runs(s), flow[s].at = "renewed",
         NEW at \in {"repeat", "post"},
         NEW state \in RelayState, state = relay[flow[s].tab], state.identity # None,
         Sends(s, at, state), UNCHANGED <<server, history>>
  PROVE  RelayInv'
<1> DEFINE f == flow[s]
           g == [f EXCEPT !.at = at, !.job = state.job, !.holder = state.holder,
                          !.identity = state.identity]
<1>1. TypeOK /\ SavedIsAccepted /\ FlowHolds(f) BY DEF RelayInv
<1>2. PICK t \in Tab : t = f.tab BY <1>1, FlowMembers
<1>3. flow' = [flow EXCEPT ![s] = g] /\ UNCHANGED page BY DEF Sends
<1>4. /\ f \in Flow /\ state.job \in Job /\ state.holder \in Holders \cup {None}
      /\ state.identity \in Identity
  BY <1>1, FlowMembers DEF RelayState
<1>5. g \in Flow BY <1>4 DEF Flow, At
<1>6. /\ g.tab = f.tab /\ g.at = at /\ g.text = f.text /\ g.identity = state.identity
  BY <1>4 DEF Flow
<1> HIDE DEF g
<1>7. /\ FlowTyped' /\ Runs(s)' /\ flow'[s] = g
      /\ \A r \in Slot \ {s} : flow'[r] = flow[r]
  BY <1>1, <1>3, <1>5, FlowPut
<1>8. FlowHolds(flow[s])'
  <2>1. TextHolds(flow[s].text)'
    BY <1>1, <1>6, <1>7, TextRests DEF FlowHolds, TextHolds, PromptHolds
  <2>2. f.text # None /\ f.text.author = f.tab BY <1>1 DEF FlowHolds, Renewing
  <2> QED BY <1>6, <1>7, <2>1, <2>2
          DEF FlowHolds, Opening, Renewing, Posting, Rejecting
<1>9. PageTyped' /\ HistoryTyped'
  BY <1>1, <1>3 DEF PageTyped, HistoryTyped, TypeOK, page, history
<1>10. PageHolds(t)'
  <2>1. PageHolds(t) BY DEF RelayInv
  <2> QED BY <1>3, <2>1 DEF PageHolds, TextHolds, PromptHolds, server, page
<1>11. ASSUME t \notin overlapped' PROVE Undisturbed(t)'
  <2>1. Undisturbed(t) BY <1>11 DEF RelayInv, OneFlowActs, history
  <2>2. s \in Engaged(t) BY <1>2 DEF Engaged, Renewing
  <2>3. \A r \in Engaged(t)' : r = s
    BY <1>7, <2>1, <2>2 DEF Undisturbed, Engaged, Runs
  <2>4. Bound(t)
    <3>1. state # None BY NoneAssumption
    <3> QED BY <1>2, <3>1 DEF Bound
  <2>5. Suits(f.text, state.identity.job, state.identity.request)
    BY <1>2, <2>1, <2>2, <2>4 DEF Undisturbed, SuitsRelay, Renewing
  <2>6. Bound(t)' = Bound(t) BY <1>3 DEF Bound, page
  <2>7. ~enabled[t] BY <2>1, <2>2 DEF Undisturbed
  <2>8. /\ ready'[t] => /\ shown'[t].job = relay'[t].identity.job
                        /\ shown'[t].request = relay'[t].identity.request
        /\ pasted'[t] # None => SuitsRelay(t, pasted[t])'
        /\ ~enabled'[t]
    BY <1>3, <2>1, <2>4, <2>7 DEF Undisturbed, SuitsRelay, Suits, page
  <2> QED BY <1>6, <1>7, <2>3, <2>5, <2>8
          DEF Undisturbed, Suits, Opening, Renewing, Posting
<1>12. SavedIsAccepted' BY <1>1, SavedRests DEF history
<1>13. \A r \in Slot : Runs(r)' =>
         flow'[r] = flow[r] \/ (flow'[r].tab = t /\ FlowHolds(flow[r])')
  BY <1>2, <1>6, <1>7, <1>8
<1> QED BY <1>3, <1>7, <1>9, <1>10, <1>11, <1>12, <1>13, PageStep DEF page, history

LEMMA OnRenewedKeeps ==
  ASSUME RelayInv, NEW s \in Slot, Runs(s), OnRenewed(s)
  PROVE  RelayInv'
<1>1. TypeOK /\ flow[s].tab \in Tab BY FlowMembers DEF RelayInv
<1>2. flow[s].at = "renewed" /\ UNCHANGED <<server, history>> BY DEF OnRenewed
<1>3. CASE GivesUp(s) BY <1>2, <1>3, GivesUpKeeps DEF Renewing
<1>4. CASE ~GivesUp(s)
  <2>1. relay[flow[s].tab] # None /\ relay[flow[s].tab].identity # None
    BY <1>4 DEF OnRenewed
  <2>2. PICK state \in RelayState : state = relay[flow[s].tab]
    BY <1>1, <2>1 DEF TypeOK
  <2>3. Sends(s, "repeat", state) \/ Sends(s, "post", state)
    BY <1>4, <2>2 DEF OnRenewed
  <2> QED BY <1>2, <2>1, <2>2, <2>3, SendsKeeps
<1> QED BY <1>3, <1>4

\* What the user is told to be saved is what the server said ok of.
LEMMA OnAnsweredKeeps ==
  ASSUME RelayInv, NEW s \in Slot, Runs(s), OnAnswered(s)
  PROVE  RelayInv'
<1> DEFINE f == flow[s]
<1>1. TypeOK /\ SavedIsAccepted /\ FlowHolds(f) BY DEF RelayInv
<1>2. f.at \in {"posted", "repeated"} /\ UNCHANGED <<server, overlapped>>
  BY DEF OnAnswered
<1>3. PICK t \in Tab : t = f.tab BY <1>1, FlowMembers
<1>4. CASE GivesUp(s) /\ UNCHANGED told
  BY <1>2, <1>4, GivesUpKeeps DEF Posting, history
<1>5. CASE ~(GivesUp(s) /\ UNCHANGED told)
  <2>1. /\ f.reply.status = "ok"
        /\ relay' = [relay EXCEPT ![t] = None]
        /\ dialog' = [dialog EXCEPT ![t] = FALSE]
        /\ enabled' = [enabled EXCEPT ![t] = TRUE]
        /\ told' = told \cup {[identity |-> f.identity, text |-> f.text]}
        /\ Finish(s)
        /\ UNCHANGED <<ready, shown, pasted>>
    BY <1>3, <1>5 DEF OnAnswered
  <2>2. f.identity \in Identity /\ f.text \in Text
    BY <1>1, <1>2, FlowMembers DEF FlowHolds, Posting
  <2>3. /\ FlowTyped' /\ ~Runs(s)' /\ \A r \in Slot \ {s} : flow'[r] = flow[r]
    BY <1>1, <2>1, FlowEnds
  <2>4. PageTyped' BY <1>1, <2>1 DEF PageTyped, TypeOK
  <2>5. HistoryTyped' BY <1>1, <1>2, <2>1, <2>2 DEF HistoryTyped, TypeOK
  <2>6. PageHolds(t)'
    <3>1. PageHolds(t) BY DEF RelayInv
    <3> QED BY <1>2, <2>1, <3>1 DEF PageHolds, TextHolds, PromptHolds, server
  <2>7. ASSUME t \notin overlapped' PROVE Undisturbed(t)'
    <3>1. Undisturbed(t) BY <1>2, <2>7 DEF RelayInv, OneFlowActs
    <3>2. s \in Engaged(t) BY <1>2, <1>3 DEF Engaged, Posting
    <3>3. Engaged(t)' = {}
      BY <2>3, <3>1, <3>2 DEF Undisturbed, Engaged, Runs
    <3>4. ~Bound(t)' BY <1>1, <2>1 DEF Bound, TypeOK
    <3> QED BY <3>3, <3>4 DEF Undisturbed
  <2>8. SavedIsAccepted'
    <3>1. accepted[f.identity.job][f.identity.request] = f.text
      BY <1>1, <1>2, <2>1 DEF FlowHolds
    <3> QED BY <1>1, <1>2, <2>1, <3>1 DEF SavedIsAccepted, server
  <2>9. \A r \in Slot : Runs(r)' => flow'[r] = flow[r] BY <2>3
  <2>10. \A u \in Tab \ {t} : relay'[u] = relay[u] /\ enabled'[u] = enabled[u]
    BY <1>1, <2>1 DEF TypeOK
  <2> QED BY <1>2, <2>1, <2>3, <2>4, <2>5, <2>6, <2>7, <2>8, <2>9, <2>10, PageStep
<1> QED BY <1>4, <1>5

\* The close button, or the Escape key.
LEMMA CloseKeeps ==
  ASSUME RelayInv, NEW t \in Tab, Close(t)
  PROVE  RelayInv'
<1>1. TypeOK /\ SavedIsAccepted /\ PageHolds(t) BY DEF RelayInv
<1>2. /\ UNCHANGED <<server, ready, enabled, shown, pasted, flow, history>>
      /\ dialog' = [dialog EXCEPT ![t] = FALSE]
      /\ relay' \in {relay, [relay EXCEPT ![t] = None]}
  BY DEF Close
<1>3. PageTyped' /\ FlowTyped' /\ HistoryTyped'
  BY <1>1, <1>2 DEF PageTyped, FlowTyped, HistoryTyped, TypeOK, history
<1>4. PageHolds(t)' BY <1>1, <1>2 DEF PageHolds, TextHolds, PromptHolds, server
<1>5. relay'[t] \in {relay[t], None} /\ \A u \in Tab \ {t} : relay'[u] = relay[u]
  BY <1>1, <1>2 DEF TypeOK
<1>6. ASSUME t \notin overlapped' PROVE Undisturbed(t)'
  <2>1. Undisturbed(t) BY <1>2, <1>6 DEF RelayInv, OneFlowActs, history
  <2>2. Engaged(t)' = Engaged(t) BY <1>2 DEF Engaged, Runs
  <2>3. Bound(t)' => Bound(t) /\ relay'[t] = relay[t] BY <1>5 DEF Bound
  <2> QED BY <1>2, <2>1, <2>2, <2>3 DEF Undisturbed, SuitsRelay, Suits
<1>7. SavedIsAccepted' BY <1>1, <1>2, SavedRests DEF history
<1> QED BY <1>2, <1>3, <1>4, <1>5, <1>6, <1>7, PageStep DEF history

\* The answer is written for the prompt that is shown.
LEMMA PasteKeeps ==
  ASSUME RelayInv, NEW t \in Tab, Paste(t)
  PROVE  RelayInv'
<1> DEFINE answer == [job |-> shown[t].job, request |-> shown[t].request,
                      revision |-> shown[t].revision, author |-> t]
<1>1. TypeOK /\ SavedIsAccepted /\ PageHolds(t) BY DEF RelayInv
<1>2. /\ ready[t] /\ pasted' = [pasted EXCEPT ![t] = answer]
      /\ UNCHANGED <<server, relay, dialog, ready, enabled, shown, flow, history>>
  BY DEF Paste
<1>3. shown[t] \in Prompt /\ shown[t] # None
  BY <1>1, <1>2 DEF PageHolds, TypeOK
<1>4. answer \in Text
  <2>1. /\ shown[t].job \in Job /\ shown[t].request \in 1..MaxRequests
        /\ shown[t].revision \in 0..MaxRevision
    BY <1>3 DEF Prompt
  <2>2. shown[t].request \in 0..MaxRequests BY <2>1, RelayAssumption
  <2> QED BY <2>1, <2>2 DEF Text
<1>5. PICK x \in Text :
        /\ x = answer /\ x.job = shown[t].job /\ x.request = shown[t].request
        /\ x.revision = shown[t].revision /\ x.author = t
  BY <1>4
<1> HIDE DEF answer
<1>6. /\ pasted' \in [Tab -> Text \cup {None}] /\ pasted'[t] = x
      /\ \A u \in Tab \ {t} : pasted'[u] = pasted[u]
  BY <1>1, <1>2, <1>5 DEF TypeOK
<1>7. PageTyped' /\ FlowTyped' /\ HistoryTyped'
  BY <1>1, <1>2, <1>6 DEF PageTyped, FlowTyped, HistoryTyped, TypeOK, history
<1>8. PageHolds(t)'
  <2>1. TextHolds(x) BY <1>1, <1>3, <1>5 DEF PageHolds, TextHolds
  <2>2. TextHolds(pasted[t])' BY <1>2, <1>6, <2>1, TextRests DEF TextHolds, PromptHolds
  <2> QED BY <1>1, <1>2, <1>5, <1>6, <2>2 DEF PageHolds, PromptHolds, server
<1>9. ASSUME t \notin overlapped' PROVE Undisturbed(t)'
  <2>1. Undisturbed(t) BY <1>2, <1>9 DEF RelayInv, OneFlowActs, history
  <2>2. Engaged(t)' = Engaged(t) BY <1>2 DEF Engaged, Runs
  <2>3. Bound(t)' = Bound(t) BY <1>2 DEF Bound
  <2>4. Bound(t) => SuitsRelay(t, x) BY <1>2, <1>5, <2>1 DEF Undisturbed, SuitsRelay, Suits
  <2>5. \A s \in Engaged(t) : flow[s].at \notin Opening BY <1>2, <2>1 DEF Undisturbed
  <2> QED BY <1>2, <1>6, <2>1, <2>2, <2>3, <2>4, <2>5 DEF Undisturbed, SuitsRelay, Suits
<1>10. SavedIsAccepted' BY <1>1, <1>2, SavedRests DEF history
<1> QED BY <1>2, <1>6, <1>7, <1>8, <1>9, <1>10, PageStep DEF history

LEMMA DownloadKeeps ==
  ASSUME RelayInv, NEW s \in Slot, NEW t \in Tab, Download(s, t)
  PROVE  RelayInv'
<1>1. TypeOK /\ SavedIsAccepted /\ PageHolds(t) BY DEF RelayInv
<1>2. ready[t] /\ UNCHANGED <<server, page, history>> BY DEF Download
<1>3. shown[t] \in Prompt /\ shown[t] # None
  BY <1>1, <1>2 DEF PageHolds, TypeOK
<1>4. shown[t].job \in Job /\ shown[t].request \in 1..MaxRequests
  BY <1>3 DEF Prompt
<1> DEFINE identity == [job |-> shown[t].job, request |-> shown[t].request]
           g == [tab |-> t, at |-> "download", job |-> shown[t].job, holder |-> None,
                 identity |-> identity, text |-> None, reply |-> None]
<1>5. identity \in Identity /\ identity.job = shown[t].job BY <1>4 DEF Identity
<1>6. flow' = [flow EXCEPT ![s] = g] BY DEF Download
<1> HIDE DEF identity
<1>7. g \in Flow BY <1>4, <1>5 DEF Flow, At
<1>8. /\ g.tab = t /\ g.at = "download" /\ g.job = shown[t].job
      /\ g.identity = identity /\ g.text = None
  OBVIOUS
<1> HIDE DEF g
<1>9. /\ FlowTyped' /\ Runs(s)' /\ flow'[s] = g
      /\ \A r \in Slot \ {s} : flow'[r] = flow[r]
  BY <1>1, <1>6, <1>7, FlowPut
<1>10. FlowHolds(flow[s])'
  <2>1. identity # None BY <1>5, NoneAssumption
  <2>2. shown' = shown BY <1>2 DEF page
  <2> QED BY <1>3, <1>5, <1>8, <1>9, <2>1, <2>2
          DEF FlowHolds, Opening, Renewing, Posting, Rejecting, TextHolds
<1>11. PageTyped' /\ HistoryTyped'
  BY <1>1, <1>2 DEF PageTyped, HistoryTyped, TypeOK, page, history
<1>12. PageHolds(t)' BY <1>1, <1>2 DEF PageHolds, TextHolds, PromptHolds, server, page
<1>13. ASSUME t \notin overlapped' PROVE Undisturbed(t)'
  <2>1. Undisturbed(t) BY <1>2, <1>13 DEF RelayInv, OneFlowActs, history
  <2>2. ASSUME NEW r \in Engaged(t)' PROVE GoesOn(r)
    <3>1. r # s BY <1>8, <1>9, <2>2 DEF Engaged, Opening, Renewing, Posting
    <3> QED BY <1>9, <2>2, <3>1 DEF Engaged, GoesOn, Runs
  <2> QED BY <1>2, <2>1, <2>2, TabRests DEF page
<1>14. SavedIsAccepted' BY <1>1, <1>2, SavedRests DEF history
<1>15. \A r \in Slot : Runs(r)' =>
         flow'[r] = flow[r] \/ (flow'[r].tab = t /\ FlowHolds(flow[r])')
  BY <1>8, <1>9, <1>10
<1> QED BY <1>2, <1>9, <1>11, <1>12, <1>13, <1>14, <1>15, PageStep DEF page, history

\* The evidence is of the revision that is found, as the prompt is.
LEMMA ReadEvidenceKeeps ==
  ASSUME RelayInv, NEW s \in Slot, Runs(s), ReadEvidence(s)
  PROVE  RelayInv'
<1> DEFINE f == flow[s]
<1>1. TypeOK /\ SavedIsAccepted /\ FlowHolds(f) BY DEF RelayInv
<1>2. /\ f.at = "download" /\ Finish(s)
      /\ UNCHANGED <<server, relay, dialog, ready, enabled, pasted, history>>
  BY DEF ReadEvidence, Finish
<1>3. PICK t \in Tab : t = f.tab BY <1>1, FlowMembers
<1>4. PICK j \in Job : j = f.job /\ f.identity.job = j
  BY <1>1, <1>2, FlowMembers DEF FlowHolds
<1>5. PageHolds(t) /\ shown[t] \in Prompt
  BY <1>1, <1>2, <1>3 DEF RelayInv, FlowHolds, TypeOK
<1>6. revision[j] \in 0..MaxRevision BY <1>1 DEF TypeOK
<1>7. shown' = IF shown[t].job = j /\ shown[t].request = f.identity.request
                 THEN [shown EXCEPT ![t].revision = revision[j]] ELSE shown
  BY <1>3, <1>4 DEF ReadEvidence, ContinuationOf
<1>8. PICK prompt \in Prompt :
        /\ shown' = [shown EXCEPT ![t] = prompt]
        /\ prompt.job = shown[t].job /\ prompt.request = shown[t].request
        /\ \/ prompt.revision = shown[t].revision
           \/ prompt.job = j /\ prompt.revision = revision[j]
  <2>1. CASE shown[t].job = j /\ shown[t].request = f.identity.request
    <3> DEFINE q == [shown[t] EXCEPT !.revision = revision[j]]
    <3>1. /\ q \in Prompt /\ q.job = shown[t].job /\ q.request = shown[t].request
          /\ q.revision = revision[j]
      BY <1>5, <1>6 DEF Prompt
    <3>2. shown' = [shown EXCEPT ![t] = q] BY <1>7, <2>1
    <3> HIDE DEF q
    <3> QED BY <2>1, <3>1, <3>2
  <2>2. CASE ~(shown[t].job = j /\ shown[t].request = f.identity.request)
    <3>1. shown' = [shown EXCEPT ![t] = shown[t]] BY <1>1, <1>7, <2>2 DEF TypeOK
    <3> QED BY <1>5, <3>1
  <2> QED BY <2>1, <2>2
<1>9. /\ shown' \in [Tab -> Prompt \cup {None}] /\ shown'[t] = prompt
      /\ \A u \in Tab \ {t} : shown'[u] = shown[u]
  BY <1>1, <1>8 DEF TypeOK
<1>10. prompt # None BY NoneAssumption
<1>11. PromptHolds(prompt.job, prompt.request, prompt.revision)
  <2>1. PromptHolds(shown[t].job, shown[t].request, shown[t].revision)
    BY <1>5, NoneAssumption DEF PageHolds
  <2>2. CASE prompt.revision = shown[t].revision
    BY <1>8, <2>1, <2>2 DEF PromptHolds
  <2>3. CASE prompt.job = j /\ prompt.revision = revision[j]
    <3>1. prompt.request \in DOMAIN requests[j] BY <1>8, <2>1, <2>3 DEF PromptHolds
    <3>2. /\ requests[j][prompt.request] <= revision[j]
          /\ requests[j][prompt.request] \in 0..MaxRevision
      BY <1>1, <3>1, RequestsTyped
    <3> QED BY <1>6, <2>3, <3>1, <3>2, RelayAssumption DEF PromptHolds
  <2> QED BY <1>8, <2>2, <2>3
<1>12. /\ FlowTyped' /\ ~Runs(s)' /\ \A r \in Slot \ {s} : flow'[r] = flow[r]
  BY <1>1, <1>2, FlowEnds
<1>13. PageTyped' /\ HistoryTyped'
  BY <1>1, <1>2, <1>9 DEF PageTyped, HistoryTyped, TypeOK, history
<1>14. PageHolds(t)'
  <2>1. PromptHolds(shown[t].job, shown[t].request, shown[t].revision)'
    BY <1>2, <1>9, <1>11 DEF PromptHolds, server
  <2>2. TextHolds(pasted[t])' BY <1>2, <1>5 DEF PageHolds, TextHolds, PromptHolds, server
  <2> QED BY <1>2, <1>5, <1>9, <1>10, <2>1, <2>2 DEF PageHolds
<1>15. ASSUME t \notin overlapped' PROVE Undisturbed(t)'
  <2>1. Undisturbed(t) BY <1>2, <1>15 DEF RelayInv, OneFlowActs, history
  <2>2. \A r \in Engaged(t)' : GoesOn(r) BY <1>12 DEF Engaged, GoesOn, Runs
  <2> QED BY <1>2, <1>8, <1>9, <2>1, <2>2, TabRests
<1>16. SavedIsAccepted' BY <1>1, <1>2, SavedRests DEF history
<1>17. \A r \in Slot : Runs(r)' => flow'[r] = flow[r] BY <1>12
<1> QED BY <1>2, <1>9, <1>10, <1>12, <1>13, <1>14, <1>15, <1>16, <1>17, PageStep DEF history

-----------------------------------------------------------------------------
(* The theorems                                                            *)

LEMMA RelayInvInit == Init => RelayInv
<1> SUFFICES ASSUME Init PROVE RelayInv OBVIOUS
<1>1. ServerTyped
  <2>1. \A j \in Job : requests[j] = << >> /\ revision[j] = 0 BY DEF Init
  <2>2. << >> \in Seq(0..MaxRevision) /\ Len(<< >>) = 0 /\ DOMAIN << >> = {}
    BY EmptySeq
  <2>3. requests \in [Job -> Seq(0..MaxRevision)] BY <2>2 DEF Init
  <2>4. \A j \in Job : /\ Latest(j) <= MaxRequests
                      /\ \A n \in DOMAIN requests[j] : requests[j][n] <= revision[j]
    BY <2>1, <2>2, RelayAssumption DEF Latest
  <2> QED BY <2>3, <2>4, RelayAssumption DEF Init, ServerTyped
<1>2. PageTyped /\ FlowTyped /\ HistoryTyped
  BY DEF Init, PageTyped, FlowTyped, HistoryTyped
<1>3. TypeOK BY <1>1, <1>2, TypeParts
<1>4. \A t \in Tab : PageHolds(t) BY DEF Init, PageHolds, TextHolds
<1>5. \A s \in Slot : ~Runs(s) BY DEF Init, Runs
<1>6. Answers = {} BY DEF Init, Answers
<1>7. AnswersHold
  BY <1>6 DEF AnswersHold, AnswersAreAsked, OnlyReopeningRebinds,
              MixedPromptsAreNotAnswered
<1>8. SavedIsAccepted BY DEF Init, SavedIsAccepted
<1>9. ASSUME NEW t \in Tab PROVE Undisturbed(t)
  <2>1. Engaged(t) = {} BY <1>5 DEF Engaged
  <2> QED BY <2>1 DEF Init, Undisturbed, Bound
<1> QED BY <1>3, <1>4, <1>5, <1>7, <1>8, <1>9 DEF RelayInv, OneFlowActs

LEMMA StutterKeeps ==
  ASSUME RelayInv, UNCHANGED vars
  PROVE  RelayInv'
<1>1. TypeOK /\ AnswersHold BY DEF RelayInv
<1>2. UNCHANGED <<server, page, flow, history>> BY DEF vars
<1>3. ServerTyped' /\ ServerGrows BY <1>1, <1>2, ServerRests
<1>4. AnswersHold' BY <1>1, <1>2, <1>3, AnswersStay DEF server, history
<1> QED BY <1>2, <1>3, <1>4, Beside

LEMMA RelayInvStep == RelayInv /\ [Next]_vars => RelayInv'
<1> SUFFICES ASSUME RelayInv, [Next]_vars PROVE RelayInv' OBVIOUS
<1>1. ASSUME NEW s \in Slot, Serve(s) PROVE RelayInv'
  <2>1. Runs(s) BY <1>1 DEF Serve, Runs
  <2> QED
    BY <1>1, <2>1, GrantKeeps, DenyKeeps, ObserveKeeps, BuildPromptKeeps,
       ReadEvidenceKeeps, TakeAnswerKeeps, PostKeeps, RejectPlanKeeps
    DEF Serve
<1>2. ASSUME NEW s \in Slot, Resume(s) PROVE RelayInv'
  <2>1. Runs(s) BY <1>2 DEF Resume, Runs
  <2> QED
    BY <1>2, <2>1, OnRejectedKeeps, OnAcquiredKeeps, OnPromptKeeps, OnRenewedKeeps,
       OnAnsweredKeeps
    DEF Resume
<1>3. ASSUME NEW s \in Slot, Fails(s) PROVE RelayInv' BY <1>3, FailsKeeps
<1>4. ASSUME NEW t \in Tab, Click(t) \/ Close(t) \/ Paste(t) PROVE RelayInv'
  BY <1>4, ClickKeeps, CloseKeeps, PasteKeeps
<1>5. ASSUME NEW s \in Slot, NEW t \in Tab, Download(s, t) PROVE RelayInv'
  BY <1>5, DownloadKeeps
<1>6. ASSUME NEW t \in Tab, NEW j \in Job, OpenRelay(t, j) \/ RevisePlan(t, j)
      PROVE  RelayInv'
  BY <1>6, OpenRelayKeeps, RevisePlanKeeps
<1>7. ASSUME NEW j \in Job,
             \/ OwnerDecides(j) \/ Expire(j) \/ Elsewhere(j)
             \/ DemoLeases(j) \/ DemoSubmits(j)
      PROVE  RelayInv'
  BY <1>7, OwnerDecidesKeeps, ExpireKeeps, ElsewhereKeeps, DemoLeasesKeeps,
     DemoSubmitsKeeps
<1>8. CASE UNCHANGED vars BY <1>8, StutterKeeps
<1> QED BY <1>1, <1>2, <1>3, <1>4, <1>5, <1>6, <1>7, <1>8 DEF Next

\* Texts that were put together from two revisions are for stale requests, and
\* one flow at a time acts on the relay of a tab that opened none beside another.
THEOREM RelayInvariant == Spec => []RelayInv
<1> QED BY RelayInvInit, RelayInvStep, PTL DEF Spec

\* Every call carries what its handler reads, whatever the interleaving of the
\* dialog, the server and the other clients.
THEOREM RelayTyped == Spec => []TypeOK
<1>1. RelayInv => TypeOK BY DEF RelayInv
<1> QED BY <1>1, RelayInvariant, PTL

\* An answer that reached a request, or a job, it was not written for is of a
\* tab that had opened a relay beside a flow that was running: late answers,
\* lost calls, expired leases and other clients cannot rebind one.
THEOREM RebindingNeedsReopening == Spec => []OnlyReopeningRebinds
<1>1. RelayInv => OnlyReopeningRebinds BY DEF RelayInv, AnswersHold
<1> QED BY <1>1, RelayInvariant, PTL

\* The answer to a prompt that mixes two revisions is never taken.
THEOREM MixedPromptsFail == Spec => []MixedPromptsAreNotAnswered
<1>1. RelayInv => MixedPromptsAreNotAnswered BY DEF RelayInv, AnswersHold
<1> QED BY <1>1, RelayInvariant, PTL

\* What a tab says is saved is what the server has for that request.
THEOREM SavedIsKept == Spec => []SavedIsAccepted
<1>1. RelayInv => SavedIsAccepted BY DEF RelayInv
<1> QED BY <1>1, RelayInvariant, PTL

=============================================================================
