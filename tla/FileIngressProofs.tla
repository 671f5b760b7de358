------------------------- MODULE FileIngressProofs -------------------------
(***************************************************************************)
(* Proofs about FileIngress, for every set of urls, addresses and          *)
(* policies, every limit on size, time and redirects, and every answer of  *)
(* resolver, servers and network.                                          *)
(*                                                                         *)
(* The inductive invariant says what each phase of a download may rely on: *)
(* PhaseFacts which engine runs and what it has read, TimeFacts how late   *)
(* it can be, StreamFacts to whom it is connected.                         *)
(***************************************************************************)
EXTENDS FileIngress, FiniteSetTheorems, TLAPS

BoundPhases ==
  {"resolve", "judge", "connect", "handshake", "exchange", "response", "body"}

ExactPhases == {"exact_open", "exact_response", "exact_body"}

ReadPhases == {"response", "body", "exact_response", "exact_body"}

\* Every download has a policy and stays with the engine it began with; what a
\* phase reads was written, and redirects are counted.
PhaseFacts ==
  /\ phase # "idle" => policy # None
  /\ phase \in BoundPhases => Bound
  /\ phase \in ExactPhases => ~Bound
  /\ phase = "idle" => hop = 0
  /\ phase = "start" /\ ~Bound => hop = 0
  /\ phase \in BoundPhases \cup ExactPhases => hop <= MaxHops
  /\ phase \in ReadPhases => response \in Responses
  /\ phase \notin ReadPhases \cup {"done"} => response = None
  /\ phase = "done" => /\ result \in Outcome
                       /\ result.size = IF result.kind = "bytes" THEN total ELSE 0

\* Of the phases of the bound engine only those after the resolver can be late.
TimeFacts ==
  /\ phase = "idle" => now = 0
  /\ policy # None /\ Bound =>
       /\ phase \notin {"judge", "done"} => now <= Overall
       /\ now <= Overall + MaxLookup
       /\ phase = "done" /\ now > Overall =>
            /\ open = {}
            /\ result.kind = "file_download_failed"
       /\ stored # None => stored.at <= Overall

Judged ==
  /\ lookup = hop
  /\ addresses # <<>>
  /\ AllSafe
  /\ HostnameAllowed(url.host)

\* A connection is made from a judged lookup and is the only one.
StreamFacts ==
  /\ phase \in {"resolve", "judge"} => HostnameAllowed(url.host)
  /\ phase = "judge" => lookup = hop
  /\ phase \in {"connect", "handshake", "exchange", "response", "body"} =>
       Judged
  /\ phase \in {"idle", "start", "resolve", "judge", "connect", "exact_open"} =>
       open = {}
  /\ open = {} \/ \E c \in Connection : open = {c}
  /\ policy # None /\ Bound /\ open # {} =>
       /\ Judged
       /\ \A c \in open : /\ c.host = url.host
                          /\ c.hop = hop
                          /\ c.addresses = addresses
                          /\ c.address = addresses[1]
  /\ phase = "done" /\ open # {} =>
       /\ result.kind \in {"file_download_failed", "file_download_not_allowed"}
       /\ Bound => /\ now = Overall
                   /\ response = None
                   /\ result.kind = "file_download_failed"
       /\ ~Bound => /\ response # None
                    /\ response.status \notin 200..299

IngressInv == TypeOK /\ PhaseFacts /\ TimeFacts /\ StreamFacts

-----------------------------------------------------------------------------
\* Every policy a server can run with has been checked or built by
\* create_runtime_config.
LEMMA PolicyIsRecord ==
  ASSUME policy \in Policy \cup Configured, policy # None
  PROVE  /\ policy.mode \in {"exact_host", "connection_bound"}
         /\ policy.bind \in BOOLEAN
         /\ policy.hosts \subseteq Hosts
  <1>1. CASE policy \in Policy
    BY <1>1, IngressAssumption DEF IsPolicy
  <1>2. CASE policy \in Configured
    <2>1. ASSUME NEW hosts \in HostList, policy = RuntimePolicy(hosts, FALSE)
          PROVE  /\ policy.mode = "exact_host"
                 /\ policy.bind \in BOOLEAN
                 /\ policy.hosts = hosts
      <3>1. policy = [mode |-> "exact_host", bind |-> TRUE, hosts |-> hosts]
        BY <2>1 DEF RuntimePolicy
      <3> QED
        BY <3>1
    <2>2. ASSUME NEW bound \in BOOLEAN, policy = RuntimePolicy({}, bound)
          PROVE  /\ policy.mode = "connection_bound"
                 /\ policy.bind \in BOOLEAN
                 /\ policy.hosts = {}
      <3>1. CASE bound = TRUE
        <4>1. policy = [mode |-> "connection_bound", bind |-> FALSE, hosts |-> {}]
          BY <2>2, <3>1 DEF RuntimePolicy
        <4> QED
          BY <4>1
      <3>2. CASE bound = FALSE
        BY <2>2, <3>2 DEF RuntimePolicy
      <3> QED
        BY <3>1, <3>2
    <2>3. \A hosts \in HostList : hosts \subseteq Hosts
      BY IngressAssumption
    <2>4. \/ \E hosts \in HostList : policy = RuntimePolicy(hosts, FALSE)
          \/ \E bound \in BOOLEAN : policy = RuntimePolicy({}, bound)
      BY <1>2 DEF Configured
    <2>5. CASE \E hosts \in HostList : policy = RuntimePolicy(hosts, FALSE)
      BY <2>1, <2>3, <2>5
    <2>6. CASE \E bound \in BOOLEAN : policy = RuntimePolicy({}, bound)
      BY <2>2, <2>6
    <2> QED
      BY <2>4, <2>5, <2>6
  <1> QED
    BY <1>1, <1>2

\* The limits are numbers.
LEMMA Limits ==
  /\ MaxBytes \in Nat /\ MaxChunk \in Nat /\ Timeout \in Nat /\ Overall \in Nat
  /\ MaxLookup \in Nat /\ MaxHops \in Nat /\ MaxCalls \in Nat
  /\ MaxBytes >= 1 /\ Timeout >= 1 /\ Timeout <= Overall
  BY IngressAssumption

\* An operation that is in time ends before the deadline.
LEMMA InTimeEnds ==
  ASSUME now \in Nat, NEW d \in 0..BoundedTimeout, now' = now + d, Remaining > 0
  PROVE  now' \in Nat /\ now' <= Overall
  BY Limits DEF BoundedTimeout, Remaining

\* Before the first call.
LEMMA IngressInit == Init => IngressInv
  <1> SUFFICES ASSUME Init PROVE IngressInv
    OBVIOUS
  <1> USE Limits DEF Init
  <1>1. TypeOK
    BY DEF TypeOK
  <1>2. PhaseFacts
    BY DEF PhaseFacts, BoundPhases, ExactPhases, ReadPhases
  <1>3. TimeFacts
    BY DEF TimeFacts
  <1>4. StreamFacts
    BY DEF StreamFacts
  <1> QED
    BY <1>1, <1>2, <1>3, <1>4 DEF IngressInv
\* A call begins at time zero with nothing open.
LEMMA CallKeeps ==
  ASSUME IngressInv, NEW u \in Url, Call(u)
  PROVE  IngressInv'
  <1> USE Limits DEF IngressInv, Call, Hop, Lookup, tool, download,
                     Fails, Ends, Continues
  <1>1. TypeOK'
    BY DEF TypeOK, Outcome, BoundedTimeout, Remaining, PhaseFacts, BoundPhases,
           ExactPhases, Responses, Connection, StreamFacts
  <1>2. PhaseFacts'
    BY DEF PhaseFacts, BoundPhases, ExactPhases, ReadPhases, Responses,
           Outcome, TypeOK, Bound
  <1>3. TimeFacts'
    BY DEF TimeFacts, PhaseFacts, BoundPhases, ExactPhases, TypeOK, Bound,
           BoundedTimeout, Remaining, StreamFacts
  <1>4. StreamFacts'
    BY DEF StreamFacts, Judged, AllSafe, HostnameAllowed, TypeOK, PhaseFacts,
           BoundPhases, ExactPhases, Bound, TimeFacts, Remaining, Connection,
           Hosts, BoundedTimeout
  <1> QED
    BY <1>1, <1>2, <1>3, <1>4

\* Without a policy nothing is downloaded.
LEMMA ObserveHostKeeps ==
  ASSUME IngressInv, NEW u \in Url, ObserveHost(u)
  PROVE  IngressInv'
  <1> USE Limits DEF IngressInv, ObserveHost, Hop, Lookup, tool, download,
                     Fails, Ends, Continues
  <1>1. TypeOK'
    BY DEF TypeOK, Hosts
  <1>2. PhaseFacts'
    BY DEF PhaseFacts, BoundPhases, ExactPhases, ReadPhases, Responses,
           Outcome, TypeOK, Bound
  <1>3. TimeFacts'
    BY DEF TimeFacts, PhaseFacts, BoundPhases, ExactPhases, TypeOK, Bound,
           BoundedTimeout, Remaining, StreamFacts
  <1>4. StreamFacts'
    BY DEF StreamFacts, Judged, AllSafe, HostnameAllowed, TypeOK, PhaseFacts,
           BoundPhases, ExactPhases, Bound, TimeFacts, Remaining, Connection,
           Hosts, BoundedTimeout
  <1> QED
    BY <1>1, <1>2, <1>3, <1>4

\* What is stored is the result of a download that was in time.
LEMMA StoreSourceKeeps ==
  ASSUME IngressInv, StoreSource
  PROVE  IngressInv'
  <1> USE Limits DEF IngressInv, StoreSource, Hop, Lookup, tool, download,
                     Fails, Ends, Continues
  <1>1. TypeOK'
    BY DEF TypeOK, Outcome, BoundedTimeout, Remaining, PhaseFacts, BoundPhases,
           ExactPhases, Responses, Connection, StreamFacts
  <1>2. PhaseFacts'
    BY DEF PhaseFacts, BoundPhases, ExactPhases, ReadPhases, Responses,
           Outcome, TypeOK, Bound
  <1>3. TimeFacts'
    BY DEF TimeFacts, PhaseFacts, BoundPhases, ExactPhases, TypeOK, Bound,
           BoundedTimeout, Remaining, StreamFacts
  <1>4. StreamFacts'
    BY DEF StreamFacts, Judged, AllSafe, HostnameAllowed, TypeOK, PhaseFacts,
           BoundPhases, ExactPhases, Bound, TimeFacts, Remaining, Connection,
           Hosts, BoundedTimeout
  <1> QED
    BY <1>1, <1>2, <1>3, <1>4

\* A hop is resolved only within the limit and for an allowed host.
LEMMA StartHopKeeps ==
  ASSUME IngressInv, StartHop
  PROVE  IngressInv'
  <1> USE Limits DEF IngressInv, StartHop, Hop, Lookup, tool, download,
                     Fails, Ends, Continues, IsCanonical
  <1>0. \/ Fails("file_download_failed")
        \/ Fails("file_download_not_allowed")
        \/ /\ hop <= MaxHops /\ Remaining > 0
           /\ HostnameAllowed(url.host)
           /\ Continues("resolve")
    <2>1. CASE hop > MaxHops \/ Remaining <= 0
      BY <2>1
    <2>2. CASE hop <= MaxHops /\ Remaining > 0
      BY <2>2
    <2>3. hop \in Nat /\ Remaining \in Int
      BY DEF TypeOK, Remaining
    <2> QED
      BY <2>1, <2>2, <2>3
  <1>1. TypeOK'
    BY <1>0 DEF TypeOK, Outcome, BoundedTimeout, Remaining, PhaseFacts,
                BoundPhases, ExactPhases, Responses, Connection, StreamFacts
  <1>2. PhaseFacts'
    BY <1>0 DEF PhaseFacts, BoundPhases, ExactPhases, ReadPhases,
                Responses, Outcome, TypeOK, Bound
  <1>3. TimeFacts'
    BY <1>0 DEF TimeFacts, PhaseFacts, BoundPhases, ExactPhases, TypeOK, Bound,
                BoundedTimeout, Remaining, StreamFacts
  <1>4. StreamFacts'
    BY <1>0 DEF StreamFacts, Judged, AllSafe, HostnameAllowed, TypeOK,
                PhaseFacts, BoundPhases, ExactPhases, Bound, TimeFacts,
                Remaining, Connection, Hosts, BoundedTimeout
  <1> QED
    BY <1>1, <1>2, <1>3, <1>4

\* The resolver may run past the deadline, by MaxLookup at most.
LEMMA ResolveKeeps ==
  ASSUME IngressInv, Resolve
  PROVE  IngressInv'
  <1> USE Limits DEF IngressInv, Resolve, Hop, Lookup, tool, download,
                     Fails, Ends, Continues, Takes
  <1>0. addresses' \in Seq(Address)
    <2>1. \A a, b \in Address : <<a>> \in Seq(Address) /\ <<a, b>> \in Seq(Address)
      OBVIOUS
    <2>2. \/ addresses' = <<>>
          \/ \E a \in Address : addresses' = <<a>>
          \/ \E a, b \in Address : addresses' = <<a, b>>
      OBVIOUS
    <2>3. <<>> \in Seq(Address)
      OBVIOUS
    <2> QED
      BY ONLY <2>1, <2>2, <2>3
  <1>1. TypeOK'
    BY <1>0 DEF TypeOK, PhaseFacts, BoundPhases
  <1>2. PhaseFacts'
    BY DEF PhaseFacts, BoundPhases, ExactPhases, ReadPhases, Responses,
           Outcome, TypeOK, Bound
  <1>3. TimeFacts'
    BY DEF TimeFacts, PhaseFacts, BoundPhases, ExactPhases, TypeOK, Bound,
           BoundedTimeout, Remaining, StreamFacts
  <1>4. StreamFacts'
    BY DEF StreamFacts, Judged, AllSafe, HostnameAllowed, TypeOK, PhaseFacts,
           BoundPhases, ExactPhases, Bound, TimeFacts, Remaining, Connection,
           Hosts, BoundedTimeout
  <1> QED
    BY <1>1, <1>2, <1>3, <1>4

\* An answer that came too late is not looked at.
LEMMA JudgeKeeps ==
  ASSUME IngressInv, Judge
  PROVE  IngressInv'
  <1> USE Limits DEF IngressInv, Judge, Hop, Lookup, tool, download,
                     Fails, Ends, Continues
  <1>0. /\ phase = "judge" /\ open = {} /\ HostnameAllowed(url.host)
        /\ lookup = hop
    BY DEF StreamFacts
  <1>5. \/ phase' = "connect" /\ Judged
        \/ phase' = "done"
    BY <1>0 DEF Judged
  <1>6. UNCHANGED <<policy, stored, url, hop, now, addresses, lookup, open>>
    OBVIOUS
  <1>1. TypeOK'
    BY DEF TypeOK, Outcome, BoundedTimeout, Remaining, PhaseFacts, BoundPhases,
           ExactPhases, Responses, Connection, StreamFacts
  <1>2. PhaseFacts'
    BY DEF PhaseFacts, BoundPhases, ExactPhases, ReadPhases, Responses,
           Outcome, TypeOK, Bound
  <1>3. TimeFacts'
    BY DEF TimeFacts, PhaseFacts, BoundPhases, ExactPhases, TypeOK, Bound,
           BoundedTimeout, Remaining, StreamFacts
  <1>4. StreamFacts'
    BY <1>0, <1>5, <1>6 DEF StreamFacts, Judged, AllSafe, HostnameAllowed
  <1> QED
    BY <1>1, <1>2, <1>3, <1>4

\* The connection goes to the first address that was judged.
LEMMA ConnectKeeps ==
  ASSUME IngressInv, Connect
  PROVE  IngressInv'
  <1> USE Limits DEF IngressInv, Connect, Hop, Lookup, tool, download,
                     Fails, Ends, Continues, InTime, TooLate, Takes
  <1> DEFINE c == ConnectionTo(addresses[1])
  <1>0. /\ open = {} /\ response = None /\ Judged
        /\ policy # None /\ Bound /\ now <= Overall
        /\ hop \in 0..MaxHops
    BY DEF PhaseFacts, StreamFacts, TimeFacts, BoundPhases, ExactPhases,
           ReadPhases, TypeOK
  <1>5. /\ c \in Connection
        /\ c.host = url.host /\ c.hop = hop
        /\ c.addresses = addresses /\ c.address = addresses[1]
    BY <1>0 DEF TypeOK, Connection, Hosts, Judged, ConnectionTo
  <1>6. now' \in Nat /\ now' <= Overall
    BY <1>0, InTimeEnds DEF TypeOK
  <1>7. \/ phase' = "handshake" /\ result' = result /\ open' = {c}
        \/ Fails("file_download_failed") /\ open' = {}
    BY <1>0
  <1>8. /\ UNCHANGED <<policy, calls, stored, observed, url, hop, addresses,
                       lookup, response, total>>
        /\ phase = "connect"
    OBVIOUS
  <1>1. TypeOK'
    BY <1>5, <1>6, <1>7, <1>8 DEF TypeOK, Outcome
  <1>2. PhaseFacts'
    BY DEF PhaseFacts, BoundPhases, ExactPhases, ReadPhases, Responses,
           Outcome, TypeOK, Bound
  <1>3. TimeFacts'
    BY <1>0, <1>6, <1>7, <1>8 DEF TimeFacts, TypeOK, Bound
  <1>4. StreamFacts'
    BY <1>0, <1>5, <1>6, <1>7, <1>8
       DEF StreamFacts, Judged, AllSafe, HostnameAllowed, TypeOK
  <1> QED
    BY <1>1, <1>2, <1>3, <1>4

\* A failed handshake closes the stream, unless the deadline came first.
LEMMA HandshakeKeeps ==
  ASSUME IngressInv, Handshake
  PROVE  IngressInv'
  <1> USE Limits DEF IngressInv, Handshake, Hop, Lookup, tool, download,
                     Fails, Ends, Continues, InTime, TooLate, Takes,
                     HandshakeFails, CloseAll
  <1>0. /\ phase = "handshake" /\ response = None /\ Judged
        /\ policy # None /\ Bound /\ now <= Overall /\ now \in Nat
    BY DEF PhaseFacts, BoundPhases, ExactPhases, ReadPhases, StreamFacts,
           TimeFacts, TypeOK
  <1>5. now' \in Nat /\ now' <= Overall
    BY <1>0, InTimeEnds
  <1>6. \/ phase' = "exchange" /\ result' = result /\ open' = open
        \/ Fails("file_download_failed") /\ open' = {}
        \/ Fails("file_download_failed") /\ open' = open /\ now' = Overall
    BY <1>0, Limits DEF Remaining
  <1>7. UNCHANGED <<policy, calls, stored, observed, url, hop, addresses, lookup,
                    response, total>>
    OBVIOUS
  <1>1. TypeOK'
    BY <1>0, <1>5, <1>6, <1>7 DEF TypeOK, Outcome
  <1>2. PhaseFacts'
    BY <1>0, <1>6, <1>7 DEF PhaseFacts, BoundPhases, ExactPhases, ReadPhases,
                            Outcome, TypeOK, Bound
  <1>3. TimeFacts'
    BY <1>0, <1>5, <1>6, <1>7 DEF TimeFacts, TypeOK, Bound
  <1>4. StreamFacts'
    BY <1>0, <1>6, <1>7 DEF StreamFacts, Judged, AllSafe, HostnameAllowed, Bound
  <1> QED
    BY <1>1, <1>2, <1>3, <1>4

\* The head of the response, or a closed connection.
LEMMA ExchangeKeeps ==
  ASSUME IngressInv, Exchange
  PROVE  IngressInv'
  <1> USE Limits DEF IngressInv, Exchange, Hop, Lookup, tool, download,
                     Fails, Ends, Continues, InTime, TooLate, Takes, CloseAll
  <1>0. /\ phase = "exchange" /\ response = None /\ Judged
        /\ policy # None /\ Bound /\ now <= Overall /\ now \in Nat
    BY DEF PhaseFacts, BoundPhases, ExactPhases, ReadPhases, StreamFacts,
           TimeFacts, TypeOK
  <1>5. now' \in Nat /\ now' <= Overall
    BY <1>0, InTimeEnds
  <1>6. \/ /\ phase' = "response" /\ result' = result /\ open' = open
           /\ response' \in Responses
        \/ UNCHANGED <<phase, result, open, response>>
        \/ Fails("file_download_failed") /\ open' = {} /\ response' = response
    BY <1>0
  <1>7. UNCHANGED <<policy, calls, stored, observed, url, hop, addresses, lookup,
                    total>>
    OBVIOUS
  <1>1. TypeOK'
    BY <1>0, <1>5, <1>6, <1>7 DEF TypeOK, Outcome
  <1>2. PhaseFacts'
    BY <1>0, <1>6, <1>7 DEF PhaseFacts, BoundPhases, ExactPhases, ReadPhases,
                            Outcome, TypeOK, Bound
  <1>3. TimeFacts'
    BY <1>0, <1>5, <1>6, <1>7 DEF TimeFacts, TypeOK, Bound
  <1>4. StreamFacts'
    BY <1>0, <1>6, <1>7 DEF StreamFacts, Judged, AllSafe, HostnameAllowed, Bound
  <1> QED
    BY <1>1, <1>2, <1>3, <1>4

\* A redirect closes the connection and forgets the lookup.
LEMMA RedirectedKeeps ==
  ASSUME IngressInv, Redirected
  PROVE  IngressInv'
  <1> USE Limits DEF IngressInv, Redirected, Hop, Lookup, tool, download,
                     Fails, Ends, Continues, CloseAll, NextHop, Hops, Location
  <1>0. response \in Responses /\ hop \in 0..MaxHops
    BY DEF PhaseFacts, BoundPhases, ReadPhases, TypeOK
  <1>5. ASSUME response.location \notin Url
        PROVE  TypeOK'
    BY <1>0, <1>5 DEF TypeOK, Outcome
  <1>6. ASSUME response.location \in Url
        PROVE  TypeOK'
    <2>1. hop' \in 0..(MaxHops + 1) /\ url' \in Url /\ addresses' = <<>>
      BY <1>0, <1>6, IngressAssumption
    <2>2. phase' = "start" /\ result' = result /\ open' = {} /\ response' = None
      BY <1>6, IngressAssumption
    <2>3. <<>> \in Seq(Address)
      OBVIOUS
    <2> QED
      BY <2>1, <2>2, <2>3 DEF TypeOK
  <1>1. TypeOK'
    BY <1>5, <1>6
  <1>2. PhaseFacts'
    BY DEF PhaseFacts, BoundPhases, ExactPhases, ReadPhases, Responses,
           Outcome, TypeOK, Bound
  <1>3. TimeFacts'
    BY DEF TimeFacts, PhaseFacts, BoundPhases, ExactPhases, TypeOK, Bound,
           BoundedTimeout, Remaining, StreamFacts
  <1>4. StreamFacts'
    BY DEF StreamFacts, Judged, AllSafe, HostnameAllowed, TypeOK, PhaseFacts,
           BoundPhases, ExactPhases, Bound, TimeFacts, Remaining, Connection,
           Hosts, BoundedTimeout
  <1> QED
    BY <1>1, <1>2, <1>3, <1>4

\* The declared length.
LEMMA BeginBodyKeeps ==
  ASSUME IngressInv, BeginBody
  PROVE  IngressInv'
  <1> USE Limits DEF IngressInv, BeginBody, Hop, Lookup, tool, download,
                     Fails, Ends, Continues, CloseAll, LengthRefuses,
                     LengthFailure
  <1>1. TypeOK'
    BY DEF TypeOK, Outcome, BoundedTimeout, Remaining, PhaseFacts, BoundPhases,
           ExactPhases, Responses, Connection, StreamFacts
  <1>2. PhaseFacts'
    BY DEF PhaseFacts, BoundPhases, ExactPhases, ReadPhases, Responses,
           Outcome, TypeOK, Bound
  <1>3. TimeFacts'
    BY DEF TimeFacts, PhaseFacts, BoundPhases, ExactPhases, TypeOK, Bound,
           BoundedTimeout, Remaining, StreamFacts
  <1>4. StreamFacts'
    BY DEF StreamFacts, Judged, AllSafe, HostnameAllowed, TypeOK, PhaseFacts,
           BoundPhases, ExactPhases, Bound, TimeFacts, Remaining, Connection,
           Hosts, BoundedTimeout
  <1> QED
    BY <1>1, <1>2, <1>3, <1>4

\* A chunk is kept only within the limit.
LEMMA ReadBodyKeeps ==
  ASSUME IngressInv, ReadBody
  PROVE  IngressInv'
  <1> USE Limits DEF IngressInv, ReadBody, Hop, Lookup, tool, download,
                     Fails, Ends, Continues, InTime, TooLate, Takes, CloseAll,
                     KeepChunk, TooLarge
  <1>0. /\ total \in 0..MaxBytes /\ now \in Nat
        /\ UNCHANGED <<policy, calls, stored, observed, url, hop, addresses,
                       lookup, response>>
    BY DEF TypeOK
  <1>5. now' \in Nat
    BY <1>0, InTimeEnds
  <1>6. /\ total' \in 0..MaxBytes
        /\ open' \in {open, {}}
    BY <1>0
  <1>7. \/ phase' = "body" /\ result' = result
        \/ phase' = "done" /\ result' \in Outcome
    BY <1>0 DEF Outcome
  <1>1. TypeOK'
    BY <1>0, <1>5, <1>6, <1>7 DEF TypeOK
  <1>2. PhaseFacts'
    BY DEF PhaseFacts, BoundPhases, ExactPhases, ReadPhases, Responses,
           Outcome, TypeOK, Bound
  <1>3. TimeFacts'
    BY DEF TimeFacts, PhaseFacts, BoundPhases, ExactPhases, TypeOK, Bound,
           BoundedTimeout, Remaining, StreamFacts
  <1>4. StreamFacts'
    BY DEF StreamFacts, Judged, AllSafe, HostnameAllowed, TypeOK, PhaseFacts,
           BoundPhases, ExactPhases, Bound, TimeFacts, Remaining, Connection,
           Hosts, BoundedTimeout
  <1> QED
    BY <1>1, <1>2, <1>3, <1>4

\* The exact-host path resolves nothing itself.
LEMMA StartExactKeeps ==
  ASSUME IngressInv, StartExact
  PROVE  IngressInv'
  <1> USE Limits DEF IngressInv, StartExact, Hop, Lookup, tool, download,
                     Fails, Ends, Continues
  <1>0. \/ phase' = "exact_open" /\ result' = result
        \/ Fails("file_download_not_allowed")
    OBVIOUS
  <1>1. TypeOK'
    BY DEF TypeOK, Outcome, BoundedTimeout, Remaining, PhaseFacts, BoundPhases,
           ExactPhases, Responses, Connection, StreamFacts
  <1>2. PhaseFacts'
    BY <1>0 DEF PhaseFacts, BoundPhases, ExactPhases, ReadPhases,
                Responses, Outcome, TypeOK, Bound
  <1>3. TimeFacts'
    BY DEF TimeFacts, PhaseFacts, BoundPhases, ExactPhases, TypeOK, Bound,
           BoundedTimeout, Remaining, StreamFacts
  <1>4. StreamFacts'
    BY DEF StreamFacts, Judged, AllSafe, HostnameAllowed, TypeOK, PhaseFacts,
           BoundPhases, ExactPhases, Bound, TimeFacts, Remaining, Connection,
           Hosts, BoundedTimeout
  <1> QED
    BY <1>1, <1>2, <1>3, <1>4

\* The head of a response on the exact-host path.
LEMMA ExactOpenKeeps ==
  ASSUME IngressInv, ExactOpen
  PROVE  IngressInv'
  <1> USE Limits DEF IngressInv, ExactOpen, Hop, Lookup, tool, download,
                     Fails, Ends, Continues
  <1> DEFINE c == ConnectionTo(None)
  <1>0. /\ open = {} /\ response = None /\ ~Bound /\ policy # None
        /\ hop \in 0..MaxHops
    BY DEF PhaseFacts, StreamFacts, BoundPhases, ExactPhases, ReadPhases, TypeOK
  <1>5. c \in Connection
    BY <1>0 DEF TypeOK, Connection, Hosts, ConnectionTo
  <1>6. \/ Fails("file_download_failed") /\ open' = {} /\ response' = None
        \/ /\ phase' = "exact_response" /\ result' = result
           /\ open' = {c} /\ response' \in Responses
    BY <1>0
  <1>7. /\ UNCHANGED <<policy, calls, stored, observed, url, hop, now, addresses,
                       lookup, total>>
        /\ phase = "exact_open"
    OBVIOUS
  <1>1. TypeOK'
    BY <1>5, <1>6, <1>7 DEF TypeOK, Outcome
  <1>2. PhaseFacts'
    BY <1>0, <1>6, <1>7 DEF PhaseFacts, BoundPhases, ExactPhases, ReadPhases,
                            Outcome, TypeOK, Bound
  <1>3. TimeFacts'
    BY <1>0, <1>6, <1>7 DEF TimeFacts, TypeOK, Bound
  <1>4. StreamFacts'
    BY <1>0, <1>5, <1>6, <1>7 DEF StreamFacts, Bound
  <1> QED
    BY <1>1, <1>2, <1>3, <1>4

\* A redirect that is followed is closed first; one that is not is an error.
LEMMA ExactRedirectKeeps ==
  ASSUME IngressInv, ExactRedirect
  PROVE  IngressInv'
  <1> USE Limits DEF IngressInv, ExactRedirect, Hop, Lookup, tool, download,
                     Fails, Ends, Continues, CloseAll
  <1>0. /\ response \in Responses /\ ~Bound /\ policy # None
        /\ hop \in 0..MaxHops
    BY DEF PhaseFacts, BoundPhases, ExactPhases, ReadPhases, TypeOK
  <1>8. response.status \notin 200..299
    <2>1. \A status \in Redirects : status \notin 200..299
      BY DEF Redirects
    <2> QED
      BY <2>1
  <1>5. \/ /\ phase' = "exact_open" /\ result' = result /\ open' = {}
           /\ url' \in Url /\ hop' \in 0..MaxHops /\ response' = None
        \/ /\ UNCHANGED <<url, hop, open, response>>
           /\ \/ Fails("file_download_failed")
              \/ Fails("file_download_not_allowed")
    BY <1>0 DEF RedirectFails
  <1>6. /\ UNCHANGED <<policy, calls, stored, observed, now, addresses, lookup,
                       total>>
        /\ phase = "exact_response"
    OBVIOUS
  <1>7. response # None
    BY <1>0, IngressAssumption DEF TypeOK
  <1>1. TypeOK'
    BY <1>5, <1>6 DEF TypeOK, Outcome
  <1>2. PhaseFacts'
    BY <1>0, <1>5, <1>6 DEF PhaseFacts, BoundPhases, ExactPhases, ReadPhases,
                            Outcome, TypeOK, Bound
  <1>3. TimeFacts'
    BY <1>0, <1>5, <1>6 DEF TimeFacts, TypeOK, Bound
  <1>4. StreamFacts'
    BY <1>0, <1>5, <1>6, <1>7, <1>8 DEF StreamFacts, Bound
  <1> QED
    BY <1>1, <1>2, <1>3, <1>4

\* An error is raised with its response open; a file is judged by its length.
LEMMA ExactBeginKeeps ==
  ASSUME IngressInv, ExactBegin
  PROVE  IngressInv'
  <1> USE Limits DEF IngressInv, ExactBegin, Hop, Lookup, tool, download,
                     Fails, Ends, Continues, CloseAll, LengthFailure
  <1>0. response \in Responses /\ ~Bound /\ policy # None
    BY DEF PhaseFacts, BoundPhases, ExactPhases, ReadPhases
  <1>5. \/ /\ response.status \notin 200..299
           /\ Fails("file_download_failed") /\ open' = open
        \/ /\ Fails("file_download_failed") \/ Fails("file_too_large")
           /\ open' = {}
        \/ phase' = "exact_body" /\ result' = result /\ open' = open
    BY DEF IsSuccess
  <1>6. /\ UNCHANGED <<policy, calls, stored, observed, url, hop, now, addresses,
                       lookup, response, total>>
        /\ phase = "exact_response"
    OBVIOUS
  <1>7. response # None
    BY <1>0, IngressAssumption DEF TypeOK
  <1>1. TypeOK'
    BY <1>5, <1>6 DEF TypeOK, Outcome
  <1>2. PhaseFacts'
    BY <1>0, <1>5, <1>6 DEF PhaseFacts, BoundPhases, ExactPhases, ReadPhases,
                            Outcome, TypeOK, Bound
  <1>3. TimeFacts'
    BY <1>0, <1>5, <1>6 DEF TimeFacts, TypeOK, Bound
  <1>4. StreamFacts'
    BY <1>0, <1>5, <1>6, <1>7 DEF StreamFacts, Bound
  <1> QED
    BY <1>1, <1>2, <1>3, <1>4

\* Its chunks.
LEMMA ExactBodyKeeps ==
  ASSUME IngressInv, ExactBody
  PROVE  IngressInv'
  <1> USE Limits DEF IngressInv, ExactBody, Hop, Lookup, tool, download,
                     Fails, Ends, Continues, CloseAll, TooLarge
  <1>1. TypeOK'
    BY DEF TypeOK, Outcome, BoundedTimeout, Remaining, PhaseFacts, BoundPhases,
           ExactPhases, Responses, Connection, StreamFacts
  <1>2. PhaseFacts'
    BY DEF PhaseFacts, BoundPhases, ExactPhases, ReadPhases, Responses,
           Outcome, TypeOK, Bound
  <1>3. TimeFacts'
    BY DEF TimeFacts, PhaseFacts, BoundPhases, ExactPhases, TypeOK, Bound,
           BoundedTimeout, Remaining, StreamFacts
  <1>4. StreamFacts'
    BY DEF StreamFacts, Judged, AllSafe, HostnameAllowed, TypeOK, PhaseFacts,
           BoundPhases, ExactPhases, Bound, TimeFacts, Remaining, Connection,
           Hosts, BoundedTimeout
  <1> QED
    BY <1>1, <1>2, <1>3, <1>4

-----------------------------------------------------------------------------
\* A step that changes nothing.
LEMMA StutterKeeps ==
  ASSUME IngressInv, UNCHANGED vars
  PROVE  IngressInv'
  <1> USE DEF IngressInv, vars, tool, download
  <1>1. TypeOK'
    BY DEF TypeOK
  <1>2. PhaseFacts'
    BY DEF PhaseFacts, Bound
  <1>3. TimeFacts'
    BY DEF TimeFacts, Bound
  <1>4. StreamFacts'
    BY DEF StreamFacts, Judged, AllSafe, HostnameAllowed, Bound
  <1> QED
    BY <1>1, <1>2, <1>3, <1>4

\* The invariant of the downloads.
THEOREM IngressIsSound == Spec => []IngressInv
  <1>1. IngressInv /\ [Next]_vars => IngressInv'
    BY CallKeeps, ObserveHostKeeps, StoreSourceKeeps, StartHopKeeps,
       ResolveKeeps, JudgeKeeps, ConnectKeeps, HandshakeKeeps,
       ExchangeKeeps, RedirectedKeeps, BeginBodyKeeps, ReadBodyKeeps,
       StartExactKeeps, ExactOpenKeeps, ExactRedirectKeeps, ExactBeginKeeps,
       ExactBodyKeeps, StutterKeeps
       DEF Next, BoundDownload, ExactDownload
  <1> QED
    BY IngressInit, <1>1, PTL DEF Spec

\* Types.
THEOREM DownloadTypes == Spec => []TypeOK
  <1>1. IngressInv => TypeOK
    BY DEF IngressInv
  <1> QED
    BY IngressIsSound, <1>1, PTL

\* The deadline holds over all hops, whatever the servers and the resolver do:
\* late is only who waits for the resolver, and nothing late is stored.
THEOREM DeadlineIsKept == Spec => []DeadlineHolds
  <1>1. IngressInv => DeadlineHolds
    <2> SUFFICES ASSUME IngressInv, policy # None, Bound
                 PROVE  /\ now > Overall =>
                             /\ now <= Overall + MaxLookup
                             /\ open = {}
                             /\ phase \in {"judge", "done"}
                             /\ phase = "done" => result.kind = "file_download_failed"
                        /\ stored # None => stored.at <= Overall
      BY DEF DeadlineHolds
    <2>1. now \in Nat /\ Overall \in Nat
      BY Limits DEF IngressInv, TypeOK
    <2>2. now > Overall => phase \in {"judge", "done"}
      BY <2>1 DEF IngressInv, TimeFacts
    <2> QED
      BY <2>1, <2>2 DEF IngressInv, TimeFacts, StreamFacts
  <1> QED
    BY IngressIsSound, <1>1, PTL

\* A connection of the bound engine goes to an address of the lookup that was
\* made and judged for the present hop, all of whose addresses are public.
THEOREM ConnectionsAreJudged == Spec => []ConnectsWhereJudged
  <1>1. IngressInv => ConnectsWhereJudged
    <2> SUFFICES ASSUME IngressInv, policy # None, Bound, NEW c \in open
                 PROVE  /\ c.host = url.host
                        /\ policy.mode = "exact_host" => c.host \in policy.hosts
                        /\ c.hop = hop /\ lookup = hop
                        /\ c.addresses = addresses
                        /\ c.address = addresses[1]
                        /\ \A i \in DOMAIN addresses :
                             LET a == addresses[i] IN
                             /\ a.mapped = None => a.class \notin DeniedClass
                             /\ a.mapped # None => a.mapped \notin DeniedClass
      BY DEF IngressInv, StreamFacts, ConnectsWhereJudged
    <2>1. Judged /\ c.host = url.host /\ c.hop = hop
                 /\ c.addresses = addresses /\ c.address = addresses[1]
      BY DEF IngressInv, StreamFacts
    <2>2. \A i \in DOMAIN addresses : ClassOf(addresses[i]) \notin DeniedClass
      BY <2>1 DEF Judged, AllSafe, DestinationIsSafe
    <2> QED
      BY <2>1, <2>2 DEF Judged, HostnameAllowed, ClassOf
  <1> QED
    BY IngressIsSound, <1>1, PTL

\* One connection at a time, over any number of redirects.  A download leaves
\* open none to which a file was answered, on either path: only a stream whose
\* deadline came before its handshake, in the engine, and the response of an
\* error or of a redirect that was not followed, on the exact-host path.
THEOREM NoConnectionIsLeft == Spec => []ConnectionsAreClosed
  <1>1. IngressInv => ConnectionsAreClosed
    <2> SUFFICES ASSUME IngressInv PROVE Cardinality(open) <= 1
      BY DEF IngressInv, StreamFacts, ConnectionsAreClosed
    <2>1. CASE open = {}
      BY <2>1, FS_EmptySet
    <2>2. ASSUME NEW c \in Connection, open = {c}
          PROVE  Cardinality(open) <= 1
      <3>1. Cardinality({c}) = 1
        BY FS_Singleton
      <3> QED
        BY <2>2, <3>1
    <2> QED
      BY <2>1, <2>2 DEF IngressInv, StreamFacts
  <1> QED
    BY IngressIsSound, <1>1, PTL

\* Never more than the limit is kept or returned, and a failure returns nothing,
\* whatever length was declared and however the chunks arrive.
THEOREM SizeIsLimited == Spec => []SizeIsBounded
  <1>1. IngressInv => SizeIsBounded
    BY Limits DEF IngressInv, TypeOK, PhaseFacts, SizeIsBounded
  <1> QED
    BY IngressIsSound, <1>1, PTL

=============================================================================
