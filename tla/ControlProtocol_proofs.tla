----------------------- MODULE ControlProtocol_proofs -----------------------
(***************************************************************************)
(* Proofs about ControlProtocol for every number of callers, requests,     *)
(* messages and callbacks and every capacity.  The invariant below is      *)
(* inductive; it says that an id and the channel registered under it keep  *)
(* the same number on the whole way of a request: caller, pending map,     *)
(* wire, answer, lookup, channel.                                          *)
(***************************************************************************)
EXTENDS ControlProtocol, TLAPS

\* The numbering: request k has id k and channel k, and only made requests count.
CallsNumbered ==
    /\ requestCounter = Len(respChan)
    /\ \A c \in Callers : call[c].pc # "idle" =>
          /\ call[c].id = call[c].ch
          /\ call[c].ch \in 1 .. Len(respChan)
    /\ \A i \in DOMAIN pendingRequests : pendingRequests[i] = i /\ i \in 1 .. Len(respChan)

\* The CLI only answers requests it has read, under the id it read them with.
AnswersNumbered ==
    /\ \A q \in asked : q.id = q.of /\ q.of \in 1 .. Len(respChan)
    /\ answered \subseteq 1 .. Len(respChan)
    /\ \A i \in 1 .. Len(incoming) : incoming[i].kind = "response" =>
          incoming[i].n = incoming[i].of /\ incoming[i].of \in answered \cup {0}

\* The handler delivers an answer to the channel of the request it answers.
DeliveriesNumbered ==
    /\ handler.pc = "deliver" =>
          /\ handler.ch \in 1 .. Len(respChan)
          /\ handler.msg.of = handler.ch
          /\ handler.ch \in answered
    /\ \A r \in 1 .. Len(respChan) : respChan[r] # <<>> =>
          respChan[r][1].of = r /\ r \in answered

\* A request belongs to one caller, and is open until that caller leaves.
OneOwner ==
    /\ \A c, d \in Callers :
          call[c].pc # "idle" /\ call[d].pc # "idle" /\ call[c].ch = call[d].ch => c = d
    /\ \A c \in Callers : call[c].pc \in {"made", "registered", "writing", "written", "waiting"} =>
          result[call[c].ch].st = "open"
    /\ \A r \in Requests : r > Len(respChan) => result[r].st = "open"

IInv == TypeOK /\ CallsNumbered /\ AnswersNumbered /\ DeliveriesNumbered /\ OneOwner
          /\ OwnAnswer /\ PendingExact

-----------------------------------------------------------------------------
(* Facts about sequences, in the form the steps below use them *)

LEMMA AppendFacts ==
    ASSUME NEW S, NEW s \in Seq(S), NEW e \in S
    PROVE  /\ Append(s, e) \in Seq(S)
           /\ Len(Append(s, e)) = Len(s) + 1
           /\ \A i \in 1 .. Len(s) : Append(s, e)[i] = s[i]
           /\ Append(s, e)[Len(s) + 1] = e
  OBVIOUS

LEMMA TailFacts ==
    ASSUME NEW S, NEW s \in Seq(S), s # <<>>
    PROVE  /\ Head(s) \in S /\ Head(s) = s[1] /\ 1 \in 1 .. Len(s)
           /\ Tail(s) \in Seq(S)
           /\ Len(Tail(s)) = Len(s) - 1
           /\ \A i \in 1 .. Len(Tail(s)) : Tail(s)[i] = s[i + 1] /\ i + 1 \in 1 .. Len(s)
  OBVIOUS

LEMMA ExceptFacts ==
    ASSUME NEW S, NEW s \in Seq(S), NEW e \in S, NEW k \in 1 .. Len(s)
    PROVE  /\ [s EXCEPT ![k] = e] \in Seq(S)
           /\ Len([s EXCEPT ![k] = e]) = Len(s)
           /\ \A i \in 1 .. Len(s) : [s EXCEPT ![k] = e][i] = IF i = k THEN e ELSE s[i]
  OBVIOUS

-----------------------------------------------------------------------------
(* What a step that leaves one side alone preserves *)

LEMMA CallerFrame ==
    ASSUME IInv, UNCHANGED <<callVars, respChan>>
    PROVE  CallTypes' /\ ChannelsBounded' /\ CallsNumbered' /\ OneOwner' /\ OwnAnswer' /\ PendingExact'
  <1>1. UNCHANGED <<requestCounter, pendingRequests, call, result, respChan>>
    BY DEF callVars
  <1>2. CallTypes' /\ ChannelsBounded'
    BY <1>1 DEF IInv, TypeOK, CallTypes, ChannelsBounded
  <1>3. CallsNumbered' /\ OneOwner'
    BY <1>1 DEF IInv, CallsNumbered, OneOwner
  <1>4. OwnAnswer' /\ PendingExact'
    BY <1>1 DEF IInv, OwnAnswer, PendingExact, Active
  <1>. QED
    BY <1>2, <1>3, <1>4

LEMMA OtherFrame ==
    ASSUME IInv, UNCHANGED <<handler, queueVars, userVars, cliVars, incoming, replies>>
    PROVE  HandlerTypes' /\ CLITypes'
  BY DEF IInv, TypeOK, HandlerTypes, CLITypes, queueVars, userVars, cliVars

\* A caller that moves to another program counter keeps its id and channel.
LEMMA MoveFacts ==
    ASSUME CallTypes, NEW c \in Callers, NEW q \in CallPCs, call' = [call EXCEPT ![c].pc = q]
    PROVE  /\ call' \in [Callers -> [pc : CallPCs, id : Nat, ch : Nat]]
           /\ \A d \in Callers : call'[d].id = call[d].id /\ call'[d].ch = call[d].ch
           /\ call'[c].pc = q
           /\ \A d \in Callers : d # c => call'[d].pc = call[d].pc
  BY DEF CallTypes

-----------------------------------------------------------------------------
LEMMA BeginStep ==
    ASSUME IInv, NEW c \in Callers, Begin(c)
    PROVE  IInv'
  <1>1. /\ call[c].pc = "idle" /\ Len(respChan) < MaxRequests
        /\ respChan' = Append(respChan, <<>>)
        /\ call' = [call EXCEPT ![c] = [pc |-> "made", id |-> requestCounter + 1, ch |-> Len(respChan) + 1]]
        /\ requestCounter' = requestCounter + 1
        /\ UNCHANGED <<pendingRequests, result, handler, asked, answered, incoming>>
    BY DEF Begin, NewID, cliVars
  <1>2. /\ respChan \in Seq(Seq(Messages)) /\ <<>> \in Seq(Messages)
        /\ requestCounter = Len(respChan)
        /\ call \in [Callers -> [pc : CallPCs, id : Nat, ch : Nat]]
    BY DEF IInv, TypeOK, CallTypes, CallsNumbered
  <1>3. /\ Len(respChan) \in Nat /\ Len(respChan') = Len(respChan) + 1
        /\ 1 .. Len(respChan') = 1 .. Len(respChan) \cup {Len(respChan) + 1}
    BY <1>1, <1>2, AppendFacts
  <1>4. /\ respChan' \in Seq(Seq(Messages))
        /\ \A r \in 1 .. Len(respChan) : respChan'[r] = respChan[r]
        /\ respChan'[Len(respChan) + 1] = <<>>
    BY <1>1, <1>2, AppendFacts
  <1>5. /\ call' \in [Callers -> [pc : CallPCs, id : Nat, ch : Nat]]
        /\ call'[c].pc = "made" /\ call'[c].id = Len(respChan) + 1 /\ call'[c].ch = Len(respChan) + 1
        /\ \A d \in Callers : d # c => call'[d] = call[d]
    BY <1>1, <1>2, <1>3 DEF CallPCs
  <1>6. CallTypes'
    BY <1>1, <1>2, <1>3, <1>4, <1>5, BoundsAssumption DEF IInv, TypeOK, CallTypes
  <1>7. ChannelsBounded'
    <2>1. ASSUME NEW r \in 1 .. Len(respChan')
          PROVE  Len(respChan'[r]) <= 1
      <3>1. CASE r \in 1 .. Len(respChan)
        BY <1>4, <3>1 DEF IInv, TypeOK, ChannelsBounded
      <3>2. CASE r = Len(respChan) + 1
        BY <1>4, <3>2
      <3>. QED
        BY <1>3, <3>1, <3>2
    <2>. QED
      BY <2>1 DEF ChannelsBounded
  <1>8. HandlerTypes' /\ CLITypes'
    BY OtherFrame DEF Begin
  <1>9. CallsNumbered'
    <2>1. ASSUME NEW d \in Callers, call'[d].pc # "idle"
          PROVE  call'[d].id = call'[d].ch /\ call'[d].ch \in 1 .. Len(respChan')
      BY <1>3, <1>5, <2>1 DEF IInv, CallsNumbered
    <2>2. \A i \in DOMAIN pendingRequests : pendingRequests[i] = i /\ i \in 1 .. Len(respChan')
      BY <1>3 DEF IInv, CallsNumbered
    <2>. QED
      BY <1>1, <1>2, <1>3, <2>1, <2>2 DEF CallsNumbered
  <1>10. AnswersNumbered'
    BY <1>1, <1>3 DEF IInv, AnswersNumbered
  <1>11. DeliveriesNumbered'
    <2>1. ASSUME NEW r \in 1 .. Len(respChan'), respChan'[r] # <<>>
          PROVE  respChan'[r][1].of = r /\ r \in answered'
      BY <1>1, <1>3, <1>4, <2>1 DEF IInv, DeliveriesNumbered
    <2>. QED
      BY <1>1, <1>3, <2>1 DEF IInv, DeliveriesNumbered
  <1>12. OneOwner'
    <2>1. ASSUME NEW d \in Callers, NEW e \in Callers, call'[d].pc # "idle", call'[e].pc # "idle",
                 call'[d].ch = call'[e].ch
          PROVE  d = e
      BY <1>3, <1>5, <2>1 DEF IInv, OneOwner, CallsNumbered
    <2>2. ASSUME NEW d \in Callers, call'[d].pc \in {"made", "registered", "writing", "written", "waiting"}
          PROVE  result'[call'[d].ch].st = "open"
      <3>1. CASE d = c
        <4>1. call'[d].ch \in Requests /\ call'[d].ch > Len(respChan)
          BY <1>1, <1>3, <1>5, <3>1, BoundsAssumption DEF Requests
        <4>. QED
          BY <1>1, <4>1 DEF IInv, OneOwner
      <3>2. CASE d # c
        BY <1>1, <1>5, <2>2, <3>2 DEF IInv, OneOwner
      <3>. QED
        BY <3>1, <3>2
    <2>3. \A r \in Requests : r > Len(respChan') => result'[r].st = "open"
      BY <1>1, <1>3, BoundsAssumption DEF IInv, OneOwner, Requests
    <2>. QED
      BY <2>1, <2>2, <2>3 DEF OneOwner
  <1>13. OwnAnswer'
    BY <1>1 DEF IInv, OwnAnswer
  <1>14. PendingExact'
    <2>1. Active' = Active /\ \A d \in Active : call'[d] = call[d]
      BY <1>1, <1>5 DEF Active
    <2>. QED
      BY <1>1, <2>1 DEF IInv, PendingExact
  <1>. QED
    BY <1>6, <1>7, <1>8, <1>9, <1>10, <1>11, <1>12, <1>13, <1>14 DEF IInv, TypeOK

\* What every later step of a call has in common.
LEMMA MoveStep ==
    ASSUME IInv, NEW c \in Callers, NEW q \in CallPCs, call[c].pc # "idle",
           call' = [call EXCEPT ![c].pc = q],
           UNCHANGED requestCounter, Len(respChan') = Len(respChan),
           \A i \in DOMAIN pendingRequests' : pendingRequests'[i] = i /\ i \in 1 .. Len(respChan)
    PROVE  /\ CallsNumbered'
           /\ \A d, e \in Callers :
                call'[d].pc # "idle" /\ call'[e].pc # "idle" /\ call'[d].ch = call'[e].ch => d = e
  <1>1. /\ \A d \in Callers : call'[d].id = call[d].id /\ call'[d].ch = call[d].ch
        /\ \A d \in Callers : call'[d].pc # "idle" => call[d].pc # "idle"
    BY MoveFacts DEF IInv, TypeOK
  <1>2. CallsNumbered'
    BY <1>1 DEF IInv, CallsNumbered
  <1>. QED
    BY <1>1, <1>2 DEF IInv, OneOwner

LEMMA RegisterStep ==
    ASSUME IInv, NEW c \in Callers, Register(c)
    PROVE  IInv'
  <1>1. /\ call[c].pc = "made" /\ call' = [call EXCEPT ![c].pc = "registered"]
        /\ pendingRequests' = [i \in DOMAIN pendingRequests \cup {call[c].id} |->
                                 IF i = call[c].id THEN call[c].ch ELSE pendingRequests[i]]
        /\ UNCHANGED <<requestCounter, result, respChan>>
        /\ UNCHANGED <<handler, asked, answered, incoming>>
    BY DEF Register, cliVars
  <1>2. /\ call[c].id = call[c].ch /\ call[c].ch \in 1 .. Len(respChan) /\ call[c].ch \in Requests
        /\ Len(respChan) <= MaxRequests /\ Len(respChan) \in Nat
        /\ CallTypes
    BY <1>1, BoundsAssumption DEF IInv, TypeOK, CallTypes, CallsNumbered, Requests
  <1>3. /\ call' \in [Callers -> [pc : CallPCs, id : Nat, ch : Nat]]
        /\ \A d \in Callers : call'[d].id = call[d].id /\ call'[d].ch = call[d].ch
        /\ call'[c].pc = "registered"
        /\ \A d \in Callers : d # c => call'[d].pc = call[d].pc
    BY <1>1, <1>2, MoveFacts DEF CallPCs
  <1>4. /\ DOMAIN pendingRequests' = DOMAIN pendingRequests \cup {call[c].ch}
        /\ \A i \in DOMAIN pendingRequests' : pendingRequests'[i] = i /\ i \in 1 .. Len(respChan)
    BY <1>1, <1>2 DEF IInv, CallsNumbered
  <1>5. CallTypes' /\ ChannelsBounded'
    BY <1>1, <1>2, <1>3, <1>4 DEF IInv, TypeOK, CallTypes, ChannelsBounded
  <1>6. HandlerTypes' /\ CLITypes'
    BY OtherFrame DEF Register
  <1>7. /\ CallsNumbered'
        /\ \A d, e \in Callers :
             call'[d].pc # "idle" /\ call'[e].pc # "idle" /\ call'[d].ch = call'[e].ch => d = e
    BY <1>1, <1>4, MoveStep DEF CallPCs
  <1>8. AnswersNumbered' /\ DeliveriesNumbered'
    BY <1>1 DEF IInv, AnswersNumbered, DeliveriesNumbered
  <1>9. OneOwner'
    BY <1>1, <1>3, <1>7 DEF IInv, OneOwner
  <1>10. OwnAnswer'
    BY <1>1 DEF IInv, OwnAnswer
  <1>11. PendingExact'
    <2>1. Active' = Active \cup {c}
      BY <1>3 DEF Active
    <2>2. \A d \in Active' : call'[d].pc # "idle" /\ call'[d].id = call'[d].ch
      BY <1>7 DEF Active, CallsNumbered
    <2>3. DOMAIN pendingRequests' = {call'[d].id : d \in Active'}
      BY <1>2, <1>3, <1>4, <2>1 DEF IInv, PendingExact, Active
    <2>4. \A d \in Active' : pendingRequests'[call'[d].id] = call'[d].ch
      BY <1>4, <2>2, <2>3
    <2>5. \A d, e \in Active' : call'[d].id = call'[e].id => d = e
      BY <1>7, <2>2 DEF Active
    <2>. QED
      BY <2>3, <2>4, <2>5 DEF PendingExact
  <1>. QED
    BY <1>5, <1>6, <1>7, <1>8, <1>9, <1>10, <1>11 DEF IInv, TypeOK

LEMMA WriteRequestStep ==
    ASSUME IInv, NEW c \in Callers, WriteRequest(c)
    PROVE  IInv'
  <1>1. /\ call[c].pc \in {"registered", "writing"} /\ call' = [call EXCEPT ![c].pc = "written"]
        /\ room' \in BOOLEAN
        /\ asked' = asked \cup {[id |-> call[c].id, of |-> call[c].ch]}
        /\ UNCHANGED <<requestCounter, pendingRequests, result, respChan>>
        /\ UNCHANGED <<handler, callbacks, msgChan, seen, closed, crashed>>
        /\ UNCHANGED <<up, answered, emitted, requests, incoming, replies>>
    BY DEF WriteRequest, WriteLine, queueVars, userVars
  <1>2. /\ call[c].id = call[c].ch /\ call[c].ch \in 1 .. Len(respChan) /\ call[c].ch \in Requests
        /\ CallTypes
    BY <1>1, BoundsAssumption DEF IInv, TypeOK, CallTypes, CallsNumbered, Requests
  <1>3. /\ call' \in [Callers -> [pc : CallPCs, id : Nat, ch : Nat]]
        /\ \A d \in Callers : call'[d].id = call[d].id /\ call'[d].ch = call[d].ch
        /\ call'[c].pc = "written"
        /\ \A d \in Callers : d # c => call'[d].pc = call[d].pc
    BY <1>1, <1>2, MoveFacts DEF CallPCs
  <1>5. CallTypes' /\ ChannelsBounded'
    BY <1>1, <1>2, <1>3 DEF IInv, TypeOK, CallTypes, ChannelsBounded
  <1>6. HandlerTypes' /\ CLITypes'
    BY <1>1, <1>2 DEF IInv, TypeOK, HandlerTypes, CLITypes
  <1>7. /\ CallsNumbered'
        /\ \A d, e \in Callers :
             call'[d].pc # "idle" /\ call'[e].pc # "idle" /\ call'[d].ch = call'[e].ch => d = e
    BY <1>1, MoveStep DEF CallPCs, IInv, CallsNumbered
  <1>8. AnswersNumbered' /\ DeliveriesNumbered'
    BY <1>1, <1>2 DEF IInv, AnswersNumbered, DeliveriesNumbered
  <1>9. OneOwner'
    BY <1>1, <1>3, <1>7 DEF IInv, OneOwner
  <1>10. OwnAnswer'
    BY <1>1 DEF IInv, OwnAnswer
  <1>11. PendingExact'
    BY <1>1, <1>3 DEF IInv, PendingExact, Active
  <1>. QED
    BY <1>5, <1>6, <1>7, <1>8, <1>9, <1>10, <1>11 DEF IInv, TypeOK

\* A call that waits, inside transport.Write or for its answer.
LEMMA WaitStep ==
    ASSUME IInv, NEW c \in Callers, WriteBlocks(c) \/ Wait(c)
    PROVE  IInv'
  <1>1. PICK q \in {"writing", "waiting"} :
           /\ call[c].pc \in {"registered", "written"} /\ call' = [call EXCEPT ![c].pc = q]
           /\ UNCHANGED <<requestCounter, pendingRequests, result, respChan>>
           /\ UNCHANGED <<handler, asked, answered, incoming>>
    BY DEF WriteBlocks, Wait, cliVars
  <1>2. /\ call' \in [Callers -> [pc : CallPCs, id : Nat, ch : Nat]]
        /\ \A d \in Callers : call'[d].id = call[d].id /\ call'[d].ch = call[d].ch
        /\ call'[c].pc = q
        /\ \A d \in Callers : d # c => call'[d].pc = call[d].pc
    BY <1>1, MoveFacts DEF IInv, TypeOK, CallPCs
  <1>3. CallTypes' /\ ChannelsBounded'
    BY <1>1, <1>2 DEF IInv, TypeOK, CallTypes, ChannelsBounded
  <1>4. HandlerTypes' /\ CLITypes'
    BY OtherFrame DEF WriteBlocks, Wait
  <1>5. /\ CallsNumbered'
        /\ \A d, e \in Callers :
             call'[d].pc # "idle" /\ call'[e].pc # "idle" /\ call'[d].ch = call'[e].ch => d = e
    BY <1>1, MoveStep DEF CallPCs, IInv, CallsNumbered
  <1>6. AnswersNumbered' /\ DeliveriesNumbered'
    BY <1>1 DEF IInv, AnswersNumbered, DeliveriesNumbered
  <1>7. OneOwner'
    BY <1>1, <1>2, <1>5 DEF IInv, OneOwner
  <1>8. OwnAnswer' /\ PendingExact'
    BY <1>1, <1>2 DEF IInv, OwnAnswer, PendingExact, Active
  <1>. QED
    BY <1>3, <1>4, <1>5, <1>6, <1>7, <1>8 DEF IInv, TypeOK

\* The three ways a call ends: its write fails, the deadline expires, or the
\* answer found in the caller's channel, which is its own, is returned.
LEMMA LeaveStep ==
    ASSUME IInv, NEW c \in Callers, WriteFails(c) \/ TimeOut(c) \/ TakeResponse(c)
    PROVE  IInv'
  <1>1. /\ call[c].pc \in {"registered", "writing", "waiting"} /\ call' = [call EXCEPT ![c].pc = "leaving"]
        /\ UNCHANGED <<requestCounter, pendingRequests>>
        /\ UNCHANGED <<handler, asked, answered, incoming>>
    BY DEF WriteFails, TimeOut, TakeResponse, Leave, cliVars
  <1>2. /\ call[c].id = call[c].ch /\ call[c].ch \in 1 .. Len(respChan) /\ call[c].ch \in Requests
        /\ respChan \in Seq(Seq(Messages))
        /\ result \in [Requests -> [st : {"open", "answered", "failed"}, of : Nat]]
    BY <1>1, BoundsAssumption DEF IInv, TypeOK, CallTypes, CallsNumbered, Requests
  <1>3. /\ call' \in [Callers -> [pc : CallPCs, id : Nat, ch : Nat]]
        /\ \A d \in Callers : call'[d].id = call[d].id /\ call'[d].ch = call[d].ch
        /\ call'[c].pc = "leaving"
        /\ \A d \in Callers : d # c => call'[d].pc = call[d].pc
    BY <1>1, MoveFacts DEF IInv, TypeOK, CallPCs
  <1>4. PICK outcome \in [st : {"answered", "failed"}, of : Nat] :
           /\ result' = [result EXCEPT ![call[c].ch] = outcome]
           /\ outcome.st = "answered" => outcome.of = call[c].ch
    <2>1. CASE WriteFails(c) \/ TimeOut(c)
      BY <2>1 DEF WriteFails, TimeOut, Leave
    <2>2. CASE TakeResponse(c)
      <3>1. respChan[call[c].ch] # <<>> /\ respChan[call[c].ch] \in Seq(Messages)
        BY <1>2, <2>2 DEF TakeResponse
      <3>2. Head(respChan[call[c].ch]) = respChan[call[c].ch][1] /\ Head(respChan[call[c].ch]) \in Messages
        BY <3>1, TailFacts
      <3>3. Head(respChan[call[c].ch]).of = call[c].ch
        BY <1>2, <3>1, <3>2 DEF IInv, DeliveriesNumbered
      <3>4. [st |-> "answered", of |-> call[c].ch] \in [st : {"answered", "failed"}, of : Nat]
        BY <1>2
      <3>5. result' = [result EXCEPT ![call[c].ch] = [st |-> "answered", of |-> call[c].ch]]
        BY <2>2, <3>3 DEF TakeResponse, Leave
      <3>. QED
        BY <3>4, <3>5
    <2>. QED
      BY <2>1, <2>2
  <1>5. /\ respChan' \in Seq(Seq(Messages)) /\ Len(respChan') = Len(respChan)
        /\ \A r \in 1 .. Len(respChan) : respChan'[r] = respChan[r] \/ respChan'[r] = <<>>
    <2>1. CASE WriteFails(c) \/ TimeOut(c)
      BY <1>2, <2>1 DEF WriteFails, TimeOut
    <2>2. CASE TakeResponse(c)
      <3>1. respChan' = [respChan EXCEPT ![call[c].ch] = Tail(respChan[call[c].ch])]
        BY <2>2 DEF TakeResponse
      <3>2. /\ respChan[call[c].ch] # <<>> /\ respChan[call[c].ch] \in Seq(Messages)
            /\ Len(respChan[call[c].ch]) <= 1
        BY <1>2, <2>2 DEF TakeResponse, IInv, TypeOK, ChannelsBounded
      <3>3. Tail(respChan[call[c].ch]) \in Seq(Messages) /\ Tail(respChan[call[c].ch]) = <<>>
        BY <3>2
      <3>. QED
        BY <1>2, <3>1, <3>3, ExceptFacts
    <2>. QED
      BY <2>1, <2>2
  <1>6. \A r \in Requests : result'[r] = IF r = call[c].ch THEN outcome ELSE result[r]
    BY <1>2, <1>4
  <1>7. CallTypes'
    BY <1>1, <1>2, <1>3, <1>4, <1>5 DEF IInv, TypeOK, CallTypes
  <1>8. ChannelsBounded'
    BY <1>5, Len(<<>>) = 0 DEF IInv, TypeOK, ChannelsBounded
  <1>9. HandlerTypes' /\ CLITypes'
    BY OtherFrame DEF WriteFails, TimeOut, TakeResponse, Leave
  <1>10. /\ CallsNumbered'
         /\ \A d, e \in Callers :
              call'[d].pc # "idle" /\ call'[e].pc # "idle" /\ call'[d].ch = call'[e].ch => d = e
    BY <1>1, <1>5, MoveStep DEF CallPCs, IInv, CallsNumbered
  <1>11. AnswersNumbered' /\ DeliveriesNumbered'
    BY <1>1, <1>5 DEF IInv, AnswersNumbered, DeliveriesNumbered
  <1>12. OneOwner'
    <2>1. ASSUME NEW d \in Callers, call'[d].pc \in {"made", "registered", "writing", "written", "waiting"}
          PROVE  result'[call'[d].ch].st = "open"
      <3>1. d # c /\ call[d].pc = call'[d].pc /\ call'[d].ch = call[d].ch
        BY <1>3, <2>1
      <3>2. call[d].ch # call[c].ch /\ call[d].ch \in Requests
        BY <1>1, <2>1, <3>1, BoundsAssumption DEF IInv, TypeOK, CallTypes, OneOwner,
           CallsNumbered, Requests
      <3>. QED
        BY <1>6, <2>1, <3>1, <3>2 DEF IInv, OneOwner
    <2>2. \A r \in Requests : r > Len(respChan') => result'[r].st = "open"
      <3>1. Len(respChan) \in Nat /\ \A r \in Requests : r > Len(respChan) => r # call[c].ch
        BY <1>2, BoundsAssumption DEF Requests
      <3>. QED
        BY <1>5, <1>6, <3>1 DEF IInv, OneOwner
    <2>. QED
      BY <1>10, <2>1, <2>2 DEF OneOwner
  <1>13. OwnAnswer'
    BY <1>4, <1>6 DEF IInv, OwnAnswer
  <1>14. PendingExact'
    BY <1>1, <1>3 DEF IInv, PendingExact, Active
  <1>. QED
    BY <1>7, <1>8, <1>9, <1>10, <1>11, <1>12, <1>13, <1>14 DEF IInv, TypeOK

LEMMA UnregisterStep ==
    ASSUME IInv, NEW c \in Callers, Unregister(c)
    PROVE  IInv'
  <1>1. /\ call[c].pc = "leaving" /\ call' = [call EXCEPT ![c].pc = "idle"]
        /\ pendingRequests' = [i \in DOMAIN pendingRequests \ {call[c].id} |-> pendingRequests[i]]
        /\ UNCHANGED <<requestCounter, result, respChan>>
        /\ UNCHANGED <<handler, asked, answered, incoming>>
    BY DEF Unregister, cliVars
  <1>2. /\ call' \in [Callers -> [pc : CallPCs, id : Nat, ch : Nat]]
        /\ \A d \in Callers : call'[d].id = call[d].id /\ call'[d].ch = call[d].ch
        /\ call'[c].pc = "idle"
        /\ \A d \in Callers : d # c => call'[d].pc = call[d].pc
    BY <1>1, MoveFacts DEF IInv, TypeOK, CallPCs
  <1>3. CallTypes' /\ ChannelsBounded'
    BY <1>1, <1>2 DEF IInv, TypeOK, CallTypes, ChannelsBounded
  <1>4. HandlerTypes' /\ CLITypes'
    BY OtherFrame DEF Unregister
  <1>5. /\ CallsNumbered'
        /\ \A d, e \in Callers :
             call'[d].pc # "idle" /\ call'[e].pc # "idle" /\ call'[d].ch = call'[e].ch => d = e
    BY <1>1, MoveStep DEF CallPCs, IInv, CallsNumbered
  <1>6. AnswersNumbered' /\ DeliveriesNumbered'
    BY <1>1 DEF IInv, AnswersNumbered, DeliveriesNumbered
  <1>7. OneOwner'
    BY <1>1, <1>2, <1>5 DEF IInv, OneOwner
  <1>8. OwnAnswer'
    BY <1>1 DEF IInv, OwnAnswer
  <1>9. PendingExact'
    <2>1. Active' = Active \ {c} /\ c \in Active
      BY <1>1, <1>2 DEF Active
    <2>2. \A d \in Active : call[d].id = call[c].id => d = c
      BY <2>1 DEF IInv, PendingExact
    <2>. QED
      BY <1>1, <1>2, <2>1, <2>2 DEF IInv, PendingExact, Active
  <1>. QED
    BY <1>3, <1>4, <1>5, <1>6, <1>7, <1>8, <1>9 DEF IInv, TypeOK

-----------------------------------------------------------------------------
(* HandleIncoming.  Only Deliver touches a response channel. *)

LEMMA RestingType == Resting \in Handlers /\ Resting.pc = "idle"
  <1>1. Nothing \in Messages
    BY DEF Nothing, Messages, StreamKinds
  <1>. QED
    BY <1>1 DEF Resting, Handlers

\* Taking a raw message off the transport leaves the others numbered.
LEMMA ArrivedStep ==
    ASSUME IInv, NEW kinds, Arrived(kinds),
           handler' \in Handlers, handler'.pc = "deliver" => DeliveriesNumbered'
    PROVE  IInv'
  <1>1. /\ incoming # <<>> /\ incoming' = Tail(incoming) /\ incoming \in Seq(Messages)
        /\ UNCHANGED <<callVars, respChan>>
        /\ UNCHANGED <<msgChan, seen, callbacks, closed, crashed>>
        /\ UNCHANGED <<up, room, asked, answered, emitted, requests, replies>>
    BY DEF Arrived, IInv, TypeOK, CLITypes, queueVars, userVars, cliVars
  <1>2. /\ incoming' \in Seq(Messages)
        /\ \A i \in 1 .. Len(incoming') : incoming'[i] = incoming[i + 1] /\ i + 1 \in 1 .. Len(incoming)
    BY <1>1, TailFacts
  <1>3. CallTypes' /\ ChannelsBounded' /\ CallsNumbered' /\ OneOwner' /\ OwnAnswer' /\ PendingExact'
    BY <1>1, CallerFrame
  <1>4. HandlerTypes' /\ CLITypes'
    BY <1>1, <1>2 DEF IInv, TypeOK, HandlerTypes, CLITypes
  <1>5. AnswersNumbered'
    BY <1>1, <1>2 DEF IInv, AnswersNumbered
  <1>6. DeliveriesNumbered'
    BY <1>1 DEF IInv, DeliveriesNumbered
  <1>. QED
    BY <1>3, <1>4, <1>5, <1>6 DEF IInv, TypeOK

\* An answer is looked up under the number of the request it answers.
LEMMA ReceiveResponseStep ==
    ASSUME IInv, ReceiveResponse
    PROVE  IInv'
  <1> DEFINE m == Head(incoming)
  <1>1. /\ Arrived({"response"}) /\ incoming # <<>> /\ m.kind = "response"
        /\ incoming \in Seq(Messages)
        /\ UNCHANGED <<respChan, answered>>
        /\ handler' = IF m.n \in DOMAIN pendingRequests
                      THEN [Resting EXCEPT !.pc = "deliver", !.msg = m, !.ch = pendingRequests[m.n]]
                      ELSE Resting
    BY DEF ReceiveResponse, Arrived, IInv, TypeOK, CLITypes, cliVars
  <1>2. m = incoming[1] /\ 1 \in 1 .. Len(incoming) /\ m \in Messages
    BY <1>1, TailFacts
  <1>3. m.n = m.of /\ m.of \in answered \cup {0}
    BY <1>1, <1>2 DEF IInv, AnswersNumbered
  <1>4. CASE m.n \in DOMAIN pendingRequests
    <2>1. pendingRequests[m.n] = m.n /\ m.n \in 1 .. Len(respChan) /\ m.n \in Nat
      BY <1>2, <1>4 DEF IInv, CallsNumbered, Messages
    <2>2. handler' = [pc |-> "deliver", msg |-> m, ch |-> m.n, left |-> 0, reply |-> "success"]
      BY <1>1, <1>4, <2>1 DEF Resting
    <2>3. handler' \in Handlers
      BY <1>2, <2>1, <2>2 DEF Handlers
    <2>4. m.n \in answered
      BY <1>3, <2>1
    <2>5. DeliveriesNumbered'
      BY <1>1, <1>3, <2>1, <2>2, <2>4 DEF IInv, DeliveriesNumbered
    <2>. QED
      BY <1>1, <2>3, <2>5, ArrivedStep
  <1>5. CASE m.n \notin DOMAIN pendingRequests
    <2>1. handler' \in Handlers /\ handler'.pc # "deliver"
      BY <1>1, <1>5, RestingType
    <2>. QED
      BY <1>1, <2>1, ArrivedStep
  <1>. QED
    BY <1>4, <1>5

LEMMA OtherReceiveStep ==
    ASSUME IInv, ReceiveGarbage \/ ReceiveRequest \/ ReceiveStream
    PROVE  IInv'
  <1>1. PICK kinds : Arrived(kinds)
    BY DEF ReceiveGarbage, ReceiveRequest, ReceiveStream
  <1>2. incoming # <<>> /\ incoming \in Seq(Messages) /\ callbacks \in [CallbackKinds -> Nat]
    BY <1>1 DEF Arrived, IInv, TypeOK, CLITypes, HandlerTypes
  <1>3. Head(incoming) \in Messages
    BY <1>2, TailFacts
  <1>4. Resting \in Handlers
    BY RestingType
  <1>5. handler' \in Handlers /\ handler'.pc # "deliver"
    <2>1. CASE ReceiveGarbage
      BY <1>4, <2>1 DEF ReceiveGarbage, Resting, Handlers
    <2>2. CASE ReceiveStream
      BY <1>3, <1>4, <2>2 DEF ReceiveStream, Resting, Handlers
    <2>3. CASE ReceiveRequest
      BY <1>2, <1>3, <1>4, <2>3 DEF ReceiveRequest, Resting, Handlers, CallbackKinds
    <2>. QED
      BY <2>1, <2>2, <2>3
  <1>. QED
    BY <1>1, <1>5, ArrivedStep

\* The only step that puts something in a response channel: at most one answer,
\* and the answer to the request the channel was made for.
LEMMA DeliverStep ==
    ASSUME IInv, Deliver
    PROVE  IInv'
  <1>1. /\ handler.pc = "deliver" /\ handler' = Resting
        /\ respChan' = IF Len(respChan[handler.ch]) < 1
                       THEN [respChan EXCEPT ![handler.ch] = Append(respChan[handler.ch], handler.msg)]
                       ELSE respChan
        /\ UNCHANGED <<requestCounter, pendingRequests, call, result>>
        /\ UNCHANGED <<msgChan, seen, callbacks, closed, crashed>>
        /\ UNCHANGED <<up, room, asked, answered, emitted, requests, incoming, replies>>
    BY DEF Deliver, callVars, queueVars, userVars, cliVars
  <1>2. /\ handler.ch \in 1 .. Len(respChan) /\ handler.msg.of = handler.ch /\ handler.ch \in answered
        /\ handler.msg \in Messages
        /\ respChan \in Seq(Seq(Messages)) /\ respChan[handler.ch] \in Seq(Messages)
    BY <1>1 DEF IInv, TypeOK, CallTypes, HandlerTypes, Handlers, DeliveriesNumbered
  <1>3. /\ respChan' \in Seq(Seq(Messages)) /\ Len(respChan') = Len(respChan)
        /\ \A r \in 1 .. Len(respChan) :
             respChan'[r] = respChan[r] \/ (r = handler.ch /\ respChan'[r] = <<handler.msg>>)
    <2>1. CASE Len(respChan[handler.ch]) < 1
      <3>0. respChan[handler.ch] = <<>>
        BY <1>2, <2>1
      <3>1. Append(respChan[handler.ch], handler.msg) = <<handler.msg>> /\ <<handler.msg>> \in Seq(Messages)
        BY <1>2, <3>0
      <3>2. respChan' = [respChan EXCEPT ![handler.ch] = <<handler.msg>>]
        BY <1>1, <2>1, <3>1
      <3>. QED
        BY <1>2, <3>1, <3>2, ExceptFacts
    <2>2. CASE ~(Len(respChan[handler.ch]) < 1)
      BY <1>1, <1>2, <2>2
    <2>. QED
      BY <2>1, <2>2
  <1>4. CallTypes'
    BY <1>1, <1>3 DEF IInv, TypeOK, CallTypes
  <1>5. ChannelsBounded'
    <2>1. Len(<<handler.msg>>) = 1
      OBVIOUS
    <2>2. ASSUME NEW r \in 1 .. Len(respChan')
          PROVE  Len(respChan'[r]) <= 1
      <3>1. CASE respChan'[r] = respChan[r]
        BY <1>3, <3>1 DEF IInv, TypeOK, ChannelsBounded
      <3>2. CASE respChan'[r] = <<handler.msg>>
        BY <2>1, <3>2
      <3>. QED
        BY <1>3, <3>1, <3>2
    <2>. QED
      BY <2>2 DEF ChannelsBounded
  <1>6. HandlerTypes' /\ CLITypes'
    BY <1>1, RestingType DEF IInv, TypeOK, HandlerTypes, CLITypes
  <1>7. CallsNumbered' /\ OneOwner'
    BY <1>1, <1>3 DEF IInv, CallsNumbered, OneOwner
  <1>8. AnswersNumbered'
    BY <1>1, <1>3 DEF IInv, AnswersNumbered
  <1>9. DeliveriesNumbered'
    <2>1. ASSUME NEW r \in 1 .. Len(respChan'), respChan'[r] # <<>>
          PROVE  respChan'[r][1].of = r /\ r \in answered'
      <3>1. CASE respChan'[r] = respChan[r]
        BY <1>1, <1>3, <2>1, <3>1 DEF IInv, DeliveriesNumbered
      <3>2. CASE r = handler.ch /\ respChan'[r] = <<handler.msg>>
        BY <1>1, <1>2, <3>2
      <3>. QED
        BY <1>3, <3>1, <3>2
    <2>. QED
      BY <1>1, <2>1, RestingType DEF DeliveriesNumbered
  <1>10. OwnAnswer' /\ PendingExact'
    BY <1>1 DEF IInv, OwnAnswer, PendingExact, Active
  <1>. QED
    BY <1>4, <1>5, <1>6, <1>7, <1>8, <1>9, <1>10 DEF IInv, TypeOK

\* Callbacks, replies, the message queue, setters, Close and the loss of the
\* transport do not concern the answers at all.
LEMMA UnrelatedStep ==
    ASSUME IInv, UNCHANGED <<callVars, respChan>>, UNCHANGED <<asked, answered, incoming>>,
           HandlerTypes', CLITypes', handler'.pc = "deliver" => handler' = handler
    PROVE  IInv'
  <1>1. CallTypes' /\ ChannelsBounded' /\ CallsNumbered' /\ OneOwner' /\ OwnAnswer' /\ PendingExact'
    BY CallerFrame
  <1>2. AnswersNumbered' /\ DeliveriesNumbered'
    BY DEF IInv, AnswersNumbered, DeliveriesNumbered
  <1>. QED
    BY <1>1, <1>2 DEF IInv, TypeOK

LEMMA HandlerStepInv ==
    ASSUME IInv, HandlerStep
    PROVE  IInv'
  <1>. USE DEF IInv, TypeOK, HandlerTypes, CLITypes, queueVars, userVars, cliVars
  <1>1. CASE \E v \in Verdicts : CallbackReturns(v)
    <2>0. PICK v \in Verdicts : CallbackReturns(v)
      BY <1>1
    <2>1. handler' \in Handlers /\ handler'.pc # "deliver"
      <3>1. CASE v = "continue" /\ handler.left > 1
        <4>1. handler.left - 1 \in Nat
          BY <3>1 DEF Handlers
        <4>2. handler' = [handler EXCEPT !.left = handler.left - 1] /\ handler.pc = "callback"
          BY <2>0, <3>1 DEF CallbackReturns
        <4>. QED
          BY <4>1, <4>2 DEF Handlers
      <3>2. CASE ~(v = "continue" /\ handler.left > 1)
        BY <2>0, <3>2 DEF CallbackReturns, Handlers
      <3>. QED
        BY <3>1, <3>2
    <2>. QED
      BY <1>1, <2>1, UnrelatedStep DEF CallbackReturns
  <1>2. CASE Reply
    <2>1. /\ handler' \in Handlers /\ handler'.pc # "deliver"
          /\ handler.reply \in {"success", "error", "lost"}
      BY <1>2, RestingType DEF Reply, Handlers
    <2>2. replies' \in [1 .. MaxEmit -> Seq({"success", "error", "lost"})]
      <3> DEFINE verdict == IF handler.reply = "lost" \/ ~up THEN "lost" ELSE handler.reply
      <3>1. verdict \in {"success", "error", "lost"}
        BY <2>1
      <3>2. \A n \in 1 .. MaxEmit : Append(replies[n], verdict) \in Seq({"success", "error", "lost"})
        BY <3>1, AppendFacts
      <3>3. replies' = [replies EXCEPT ![handler.msg.n] = Append(replies[handler.msg.n], verdict)]
        BY <1>2 DEF Reply
      <3> HIDE DEF verdict
      <3>. QED
        BY <3>2, <3>3
    <2>3. room' \in BOOLEAN /\ UNCHANGED <<up, asked, answered, emitted, requests>>
      BY <1>2 DEF Reply, WriteLine
    <2>4. /\ UNCHANGED <<callVars, respChan, incoming>>
          /\ UNCHANGED <<msgChan, seen, callbacks, closed, crashed>>
      BY <1>2 DEF Reply
    <2>. QED
      BY <2>1, <2>2, <2>3, <2>4, UnrelatedStep
  <1>3. CASE Push \/ SendAfterDrop
    <2>1. handler.msg.n \in Nat /\ handler \in Handlers
      BY DEF Handlers, Messages
    <2>2. handler' \in Handlers /\ handler'.pc # "deliver"
      BY <1>3, <2>1, RestingType DEF Push, SendAfterDrop, Enqueue, Finish, Handlers
    <2>3. Append(msgChan, handler.msg.n) \in Seq(Nat)
      BY <2>1, AppendFacts
    <2>4. msgChan' = msgChan \/ msgChan' = Append(msgChan, handler.msg.n)
      BY <1>3 DEF Push, SendAfterDrop, Enqueue
    <2>5. seen' = seen \/ seen' = [seen EXCEPT !.handled = handler.msg.n]
      BY <1>3 DEF Push, SendAfterDrop, Enqueue, Finish
    <2>6. msgChan' \in Seq(Nat) /\ seen' \in [handled : Nat, taken : Nat]
      BY <2>1, <2>3, <2>4, <2>5
    <2>. QED
      BY <1>3, <2>2, <2>6, UnrelatedStep DEF Push, SendAfterDrop
  <1>4. CASE DropOldest
    <2>1. handler' \in Handlers /\ handler'.pc # "deliver"
      BY <1>4 DEF DropOldest, Handlers
    <2>2. msgChan' \in Seq(Nat)
      <3>1. CASE msgChan = <<>>
        BY <1>4, <3>1 DEF DropOldest
      <3>2. CASE msgChan # <<>>
        <4>1. msgChan \in Seq(Nat) /\ msgChan' = Tail(msgChan)
          BY <1>4, <3>2 DEF DropOldest
        <4>. QED
          BY <3>2, <4>1, TailFacts
      <3>. QED
        BY <3>1, <3>2
    <2>. QED
      BY <1>4, <2>1, <2>2, UnrelatedStep DEF DropOldest
  <1>5. CASE SendOnClosed \/ CallbackPanics
    BY <1>5, UnrelatedStep DEF SendOnClosed, CallbackPanics
  <1>7. CASE ReplyBlocks
    BY <1>7, UnrelatedStep DEF ReplyBlocks, Handlers
  <1>6. CASE ErrorReturned
    BY <1>6, UnrelatedStep, RestingType DEF ErrorReturned
  <1>. QED
    BY <1>1, <1>2, <1>3, <1>4, <1>5, <1>6, <1>7, ReceiveResponseStep, OtherReceiveStep, DeliverStep
       DEF HandlerStep

LEMMA UserStepInv ==
    ASSUME IInv, UserStep
    PROVE  IInv'
  <1>. USE DEF IInv, TypeOK, HandlerTypes, CLITypes, queueVars, userVars, cliVars
  <1>1. CASE \E k \in CallbackKinds : SetCallback(k)
    <2>1. PICK k \in CallbackKinds : SetCallback(k)
      BY <1>1
    <2>2. /\ callbacks' \in [CallbackKinds -> Nat]
          /\ UNCHANGED <<callVars, respChan, handler, msgChan, seen, closed, crashed>>
          /\ UNCHANGED <<up, room, asked, answered, emitted, requests, incoming, replies>>
      BY <2>1 DEF SetCallback
    <2>3. HandlerTypes' /\ CLITypes'
      BY <2>2
    <2>. QED
      BY <2>2, <2>3, UnrelatedStep
  <1>2. CASE TakeMessage
    <2>1. msgChan' \in Seq(Nat) /\ Head(msgChan) \in Nat
      BY <1>2, TailFacts DEF TakeMessage
    <2>2. seen' \in [handled : Nat, taken : Nat]
      BY <1>2, <2>1 DEF TakeMessage
    <2>3. UNCHANGED <<callVars, respChan, handler, callbacks, closed, crashed, up, room, asked,
                      answered, emitted, requests, incoming, replies>>
      BY <1>2 DEF TakeMessage
    <2>4. HandlerTypes' /\ CLITypes'
      BY <2>1, <2>2, <2>3
    <2>. QED
      BY <2>3, <2>4, UnrelatedStep
  <1>3. CASE Close
    <2>1. /\ closed' \in BOOLEAN /\ crashed' \in BOOLEAN
          /\ UNCHANGED <<callVars, respChan, handler, msgChan, seen, callbacks>>
          /\ UNCHANGED <<up, room, asked, answered, emitted, requests, incoming, replies>>
      BY <1>3 DEF Close
    <2>2. HandlerTypes' /\ CLITypes'
      BY <2>1
    <2>. QED
      BY <2>1, <2>2, UnrelatedStep
  <1>4. CASE WriteMessage
    BY <1>4, UnrelatedStep DEF WriteMessage, WriteLine
  <1>. QED
    BY <1>1, <1>2, <1>3, <1>4 DEF UserStep

\* Whatever the CLI puts on the wire: an answer repeats the id and the request
\* it read, anything else carries no answer.
LEMMA CLIStepInv ==
    ASSUME IInv, CLIStep
    PROVE  IInv'
  <1>1. CASE CLIReads \/ TransportDown
    BY <1>1, UnrelatedStep DEF CLIReads, TransportDown, IInv, TypeOK, HandlerTypes, CLITypes,
       queueVars, userVars
  <1>2. ASSUME NEW m \in Messages, incoming' = Append(incoming, m),
               UNCHANGED <<callVars, respChan, handler, queueVars, userVars, up, room, asked, replies>>,
               answered \subseteq answered', answered' \subseteq 1 .. Len(respChan),
               answered' \subseteq Requests,
               emitted' \in 0 .. MaxEmit, requests' \subseteq 1 .. emitted',
               m.kind = "response" => m.n = m.of /\ m.of \in answered' \cup {0}
        PROVE  IInv'
    <2>1. /\ incoming \in Seq(Messages) /\ incoming' \in Seq(Messages)
          /\ Len(incoming) \in Nat /\ Len(incoming') = Len(incoming) + 1
          /\ \A i \in 1 .. Len(incoming) : incoming'[i] = incoming[i]
          /\ incoming'[Len(incoming) + 1] = m
      BY <1>2, AppendFacts DEF IInv, TypeOK, CLITypes
    <2>2. CallTypes' /\ ChannelsBounded' /\ CallsNumbered' /\ OneOwner' /\ OwnAnswer' /\ PendingExact'
      BY <1>2, CallerFrame
    <2>3. HandlerTypes' /\ CLITypes'
      BY <1>2, <2>1 DEF IInv, TypeOK, HandlerTypes, CLITypes, queueVars, userVars
    <2>4. ASSUME NEW i \in 1 .. Len(incoming'), incoming'[i].kind = "response"
          PROVE  incoming'[i].n = incoming'[i].of /\ incoming'[i].of \in answered' \cup {0}
      <3>1. CASE i \in 1 .. Len(incoming)
        BY <1>2, <2>1, <2>4, <3>1 DEF IInv, AnswersNumbered
      <3>2. CASE i = Len(incoming) + 1
        BY <1>2, <2>1, <2>4, <3>2
      <3>. QED
        BY <2>1, <3>1, <3>2
    <2>5. AnswersNumbered' /\ DeliveriesNumbered'
      BY <1>2, <2>4 DEF IInv, AnswersNumbered, DeliveriesNumbered
    <2>. QED
      BY <2>2, <2>3, <2>5 DEF IInv, TypeOK
  <1>3. ASSUME NEW q \in asked, CLIAnswers(q)
        PROVE  IInv'
    <2>1. q.id = q.of /\ q.of \in 1 .. Len(respChan) /\ q.of \in Requests /\ q.of \in Nat
      BY <1>3, BoundsAssumption DEF IInv, TypeOK, CLITypes, AnswersNumbered, Requests
    <2> DEFINE m == [kind |-> "response", n |-> q.id, of |-> q.of]
    <2>2. m \in Messages
      BY <2>1 DEF Messages
    <2>3. /\ answered' = answered \cup {q.of} /\ incoming' = Append(incoming, m)
          /\ UNCHANGED <<callVars, respChan, handler, queueVars, userVars, up, room, asked, replies>>
          /\ UNCHANGED <<emitted, requests>>
      BY <1>3 DEF CLIAnswers
    <2>. QED
      BY <1>2, <2>1, <2>2, <2>3 DEF IInv, TypeOK, CLITypes, AnswersNumbered
  <1>4. ASSUME NEW k \in RequestKinds \cup StreamKinds \cup {"response"}, CLIEmits(k)
        PROVE  IInv'
    <2> DEFINE m == [kind |-> k, of |-> 0, n |-> IF k = "response" THEN 0 ELSE emitted + 1]
    <2>1. m \in Messages
      BY DEF IInv, TypeOK, CLITypes, Messages
    <2>2. /\ incoming' = Append(incoming, m) /\ emitted < MaxEmit /\ emitted' = emitted + 1
          /\ requests' = requests \/ requests' = requests \cup {emitted + 1}
          /\ UNCHANGED <<callVars, respChan, handler, queueVars, userVars, up, room, asked, replies>>
          /\ UNCHANGED answered
      BY <1>4 DEF CLIEmits
    <2>3. emitted' \in 0 .. MaxEmit /\ requests' \subseteq 1 .. emitted'
      <3>1. emitted \in 0 .. MaxEmit /\ requests \subseteq 1 .. emitted
        BY DEF IInv, TypeOK, CLITypes
      <3>2. emitted' \in 0 .. MaxEmit /\ 1 .. emitted \subseteq 1 .. emitted' /\ emitted + 1 \in 1 .. emitted'
        BY <2>2, <3>1, BoundsAssumption
      <3>. QED
        BY <2>2, <3>1, <3>2
    <2>. QED
      BY <1>2, <2>1, <2>2, <2>3 DEF IInv, TypeOK, CLITypes, AnswersNumbered
  <1>. QED
    BY <1>1, <1>3, <1>4 DEF CLIStep

-----------------------------------------------------------------------------
(* The invariant and what follows from it *)

LEMMA InitInv == Init => IInv
  <1> SUFFICES ASSUME Init PROVE IInv
    OBVIOUS
  <1>. USE BoundsAssumption DEF Init
  <1>1. CallTypes /\ ChannelsBounded
    BY DEF CallTypes, ChannelsBounded, CallPCs
  <1>2. HandlerTypes
    <2>1. seen \in [handled : Nat, taken : Nat] /\ callbacks \in [CallbackKinds -> Nat]
      OBVIOUS
    <2>2. handler \in Handlers /\ msgChan \in Seq(Nat)
      BY RestingType
    <2>. QED
      BY <2>1, <2>2 DEF HandlerTypes
  <1>3. CLITypes
    BY DEF CLITypes
  <1>4. CallsNumbered /\ AnswersNumbered
    BY DEF CallsNumbered, AnswersNumbered
  <1>5. DeliveriesNumbered
    BY RestingType DEF DeliveriesNumbered
  <1>6. OneOwner /\ OwnAnswer
    BY DEF OneOwner, OwnAnswer
  <1>7. PendingExact
    BY DEF PendingExact, Active
  <1>. QED
    BY <1>1, <1>2, <1>3, <1>4, <1>5, <1>6, <1>7 DEF IInv, TypeOK

LEMMA StepInv == IInv /\ [Next]_vars => IInv'
  <1> SUFFICES ASSUME IInv, [Next]_vars PROVE IInv'
    OBVIOUS
  <1>1. CASE UNCHANGED vars
    BY <1>1, CallerFrame, OtherFrame
       DEF vars, cliVars, IInv, TypeOK, AnswersNumbered, DeliveriesNumbered
  <1>2. ASSUME NEW c \in Callers, CallerStep(c)
        PROVE  IInv'
    BY <1>2, BeginStep, RegisterStep, WriteRequestStep, WaitStep, LeaveStep, UnregisterStep
       DEF CallerStep
  <1>. QED
    BY <1>1, <1>2, HandlerStepInv, UserStepInv, CLIStepInv DEF Next

\* Ids, the pending map, the channels and the position of every call fit
\* together in every reachable state of the handler.
THEOREM InvariantHolds == Spec => []IInv
  BY InitInv, StepInv, PTL DEF Spec

\* Type correctness of ProtocolHandler and of everything on its wire.
THEOREM TypeCorrect == Spec => []TypeOK
  BY InvariantHolds, PTL DEF IInv

\* SendControlRequest never returns the answer to somebody else's request, for
\* any number of concurrent callers and any late, repeated or reordered answers.
THEOREM AnswersNeverCrossed == Spec => []OwnAnswer
  BY InvariantHolds, PTL DEF IInv

\* pendingRequests holds exactly the calls in progress: no entry leaks.
THEOREM PendingMapExact == Spec => []PendingExact
  BY InvariantHolds, PTL DEF IInv

-----------------------------------------------------------------------------
(* The refinement of RequestReply *)

LEMMA RefinesInit == Init => RR!Init
  BY BoundsAssumption DEF Init, RR!Init, Outcome, Requests

LEMMA RefinesBegin ==
    ASSUME IInv, NEW c \in Callers, Begin(c)
    PROVE  RR!Next
  <1> DEFINE r == Len(respChan) + 1
  <1>1. /\ Len(respChan) < MaxRequests /\ respChan' = Append(respChan, <<>>)
        /\ UNCHANGED <<result, answered>>
    BY DEF Begin, cliVars
  <1>2. respChan \in Seq(Seq(Messages)) /\ <<>> \in Seq(Messages)
    BY DEF IInv, TypeOK, CallTypes
  <1>3. Len(respChan) \in Nat /\ Len(respChan') = r
    BY <1>1, <1>2, AppendFacts
  <1>4. r \in Requests /\ Outcome[r] = "unmade" /\ result[r].st = "open"
    BY <1>1, <1>3, BoundsAssumption DEF Outcome, Requests, IInv, OneOwner
  <1>5. Outcome' = [Outcome EXCEPT ![r] = "open"]
    <2>1. ASSUME NEW x \in Requests
          PROVE  Outcome'[x] = IF x = r THEN "open" ELSE Outcome[x]
      BY <1>1, <1>3, <1>4, BoundsAssumption DEF Outcome, Requests
    <2>. QED
      BY <1>4, <2>1 DEF Outcome
  <1>. QED
    BY <1>1, <1>4, <1>5 DEF RR!Next, RR!Make

LEMMA RefinesLeave ==
    ASSUME IInv, NEW c \in Callers, WriteFails(c) \/ TimeOut(c) \/ TakeResponse(c)
    PROVE  RR!Next
  <1> DEFINE r == call[c].ch
  <1>1. call[c].pc \in {"registered", "writing", "waiting"} /\ UNCHANGED answered
    BY DEF WriteFails, TimeOut, TakeResponse, Leave, cliVars
  <1>2. /\ r \in 1 .. Len(respChan) /\ r \in Requests /\ result[r].st = "open"
        /\ Len(respChan) \in Nat
        /\ respChan \in Seq(Seq(Messages))
        /\ result \in [Requests -> [st : {"open", "answered", "failed"}, of : Nat]]
    BY <1>1, BoundsAssumption DEF IInv, TypeOK, CallTypes, CallsNumbered, OneOwner, Requests
  <1>3. Outcome[r] = "open"
    BY <1>2 DEF Outcome
  <1>4. CASE WriteFails(c) \/ TimeOut(c)
    <2>1. respChan' = respChan /\ result' = [result EXCEPT ![r] = [st |-> "failed", of |-> 0]]
      BY <1>4 DEF WriteFails, TimeOut, Leave
    <2>2. Outcome' = [Outcome EXCEPT ![r] = "failed"]
      <3>1. ASSUME NEW x \in Requests
            PROVE  Outcome'[x] = IF x = r THEN "failed" ELSE Outcome[x]
        BY <1>2, <2>1, BoundsAssumption DEF Outcome, Requests
      <3>. QED
        BY <1>2, <3>1 DEF Outcome
    <2>. QED
      BY <1>1, <1>2, <1>3, <2>2 DEF RR!Next, RR!GiveUp
  <1>5. CASE TakeResponse(c)
    <2>1. respChan[r] # <<>> /\ respChan[r] \in Seq(Messages)
      BY <1>2, <1>5 DEF TakeResponse
    <2>2. Head(respChan[r]) = respChan[r][1]
      BY <2>1, TailFacts
    <2>3. Head(respChan[r]).of = r /\ r \in answered
      BY <1>2, <2>1, <2>2 DEF IInv, DeliveriesNumbered
    <2>4. result' = [result EXCEPT ![r] = [st |-> "answered", of |-> r]]
      BY <1>5, <2>3 DEF TakeResponse, Leave
    <2>5. respChan' = [respChan EXCEPT ![r] = Tail(respChan[r])]
      BY <1>5 DEF TakeResponse
    <2>6. Tail(respChan[r]) \in Seq(Messages)
      BY <2>1, TailFacts
    <2>7. Len(respChan') = Len(respChan)
      BY <1>2, <2>5, <2>6, ExceptFacts
    <2>8. Outcome' = [Outcome EXCEPT ![r] = "answered"]
      <3>1. ASSUME NEW x \in Requests
            PROVE  Outcome'[x] = IF x = r THEN "answered" ELSE Outcome[x]
        BY <1>2, <2>4, <2>7, BoundsAssumption DEF Outcome, Requests
      <3>. QED
        BY <1>2, <3>1 DEF Outcome
    <2>. QED
      BY <1>1, <1>2, <1>3, <2>3, <2>8 DEF RR!Next, RR!Return
  <1>. QED
    BY <1>4, <1>5

LEMMA RefinesStutter ==
    ASSUME UNCHANGED <<result, answered>>, Len(respChan') = Len(respChan)
    PROVE  UNCHANGED RR!vars
  BY DEF RR!vars, Outcome

LEMMA RefinesStep == IInv /\ [Next]_vars => [RR!Next]_(RR!vars)
  <1> SUFFICES ASSUME IInv, [Next]_vars PROVE [RR!Next]_(RR!vars)
    OBVIOUS
  <1>. USE DEF callVars, cliVars
  <1>1. CASE UNCHANGED vars
    BY <1>1, RefinesStutter DEF vars
  <1>2. ASSUME NEW c \in Callers, CallerStep(c)
        PROVE  [RR!Next]_(RR!vars)
    <2>1. CASE Register(c) \/ WriteBlocks(c) \/ WriteRequest(c) \/ Wait(c) \/ Unregister(c)
      BY <2>1, RefinesStutter DEF Register, WriteBlocks, WriteRequest, Wait, Unregister
    <2>. QED
      BY <1>2, <2>1, RefinesBegin, RefinesLeave DEF CallerStep
  <1>3. CASE Deliver
    <2>1. UNCHANGED <<result, answered>>
      BY <1>3 DEF Deliver
    <2>2. respChan \in Seq(Seq(Messages)) /\ DOMAIN respChan' = DOMAIN respChan /\ Len(respChan) \in Nat
      BY <1>3 DEF Deliver, IInv, TypeOK, CallTypes
    <2>3. Len(respChan') = Len(respChan)
      BY <1>3, StepInv, <2>2 DEF IInv, TypeOK, CallTypes, Next, HandlerStep, CallsNumbered, Deliver
    <2>. QED
      BY <2>1, <2>3, RefinesStutter
  <1>4. CASE HandlerStep /\ ~Deliver
    <2>1. UNCHANGED <<callVars, respChan, answered>>
      BY <1>4 DEF HandlerStep, ReceiveGarbage, ReceiveResponse, ReceiveRequest, ReceiveStream,
         Arrived, CallbackReturns, CallbackPanics, ReplyBlocks, Reply, Push, DropOldest,
         SendAfterDrop, SendOnClosed, ErrorReturned
    <2>. QED
      BY <2>1, RefinesStutter
  <1>5. CASE UserStep
    <2>1. UNCHANGED <<callVars, respChan, answered>>
      BY <1>5 DEF UserStep, SetCallback, TakeMessage, WriteMessage, Close
    <2>. QED
      BY <2>1, RefinesStutter
  <1>6. ASSUME NEW q \in asked, CLIAnswers(q)
        PROVE  RR!Next
    <2>1. q.of \in 1 .. Len(respChan) /\ q.of \in Requests /\ Len(respChan) \in Nat
      BY <1>6, BoundsAssumption DEF IInv, TypeOK, CallTypes, CLITypes, AnswersNumbered, Requests
    <2>2. Outcome[q.of] # "unmade"
      <3>1. result[q.of].st \in {"open", "answered", "failed"} /\ ~(q.of > Len(respChan))
        BY <2>1 DEF IInv, TypeOK, CallTypes
      <3>. QED
        BY <2>1, <3>1 DEF Outcome
    <2>3. answered' = answered \cup {q.of} /\ UNCHANGED Outcome
      BY <1>6 DEF CLIAnswers, Outcome
    <2>. QED
      BY <2>1, <2>2, <2>3 DEF RR!Next, RR!Answer
  <1>7. CASE \/ \E k \in RequestKinds \cup StreamKinds \cup {"response"} : CLIEmits(k)
             \/ CLIReads \/ TransportDown
    <2>1. UNCHANGED <<callVars, respChan, answered>>
      BY <1>7 DEF CLIEmits, CLIReads, TransportDown
    <2>. QED
      BY <2>1, RefinesStutter
  <1>. QED
    BY <1>1, <1>2, <1>3, <1>4, <1>5, <1>6, <1>7 DEF Next, CLIStep

\* ControlProtocol implements RequestReply: every behaviour of the handler is,
\* seen by its callers, a behaviour of the promise.
THEOREM ProtocolImplementsRequestReply == Spec => ImplementsRequestReply
  BY RefinesInit, RefinesStep, InvariantHolds, PTL DEF Spec, RR!Spec, ImplementsRequestReply

-----------------------------------------------------------------------------
(* The blocking send *)

QInv == Len(msgChan) <= MsgCap /\ PushNeverBlocks

LEMMA QueueStep == TypeOK /\ QInv /\ [Next]_vars => QInv'
  <1> SUFFICES ASSUME TypeOK, QInv, [Next]_vars PROVE QInv'
    OBVIOUS
  <1>1. msgChan \in Seq(Nat) /\ Len(msgChan) \in Nat /\ handler \in Handlers /\ MsgCap \in Nat \ {0}
    BY BoundsAssumption DEF TypeOK, HandlerTypes
  <1>2. CASE DropOldest
    <2>1. CASE msgChan = <<>>
      BY <1>1, <1>2, <2>1 DEF DropOldest, QInv, PushNeverBlocks
    <2>2. CASE msgChan # <<>>
      <3>1. Len(msgChan') = Len(msgChan) - 1
        BY <1>1, <1>2, <2>2, TailFacts DEF DropOldest
      <3>. QED
        BY <1>1, <3>1 DEF QInv, PushNeverBlocks
    <2>. QED
      BY <2>1, <2>2
  <1>3. CASE Push \/ SendAfterDrop
    <2>1. handler'.pc # "send"
      BY <1>1, <1>3, RestingType DEF Push, SendAfterDrop, Enqueue, Finish, Handlers
    <2>2. msgChan' = msgChan \/ (Len(msgChan) < MsgCap /\ msgChan' = Append(msgChan, handler.msg.n))
      BY <1>3 DEF Push, SendAfterDrop, Enqueue, queueVars
    <2>3. handler.msg.n \in Nat
      BY <1>1 DEF Handlers, Messages
    <2>4. Len(Append(msgChan, handler.msg.n)) = Len(msgChan) + 1
      BY <1>1, <2>3, AppendFacts
    <2>5. Len(msgChan') <= MsgCap
      BY <1>1, <2>2, <2>4 DEF QInv
    <2>. QED
      BY <2>1, <2>5 DEF QInv, PushNeverBlocks
  <1>4. CASE TakeMessage
    <2>1. Len(msgChan') = Len(msgChan) - 1 /\ handler' = handler
      BY <1>1, <1>4, TailFacts DEF TakeMessage
    <2>. QED
      BY <1>1, <2>1 DEF QInv, PushNeverBlocks
  <1>5. ASSUME UNCHANGED msgChan, handler'.pc = "send" => handler' = handler
        PROVE  QInv'
    BY <1>5 DEF QInv, PushNeverBlocks
  <1>6. CASE UNCHANGED vars
    BY <1>5, <1>6 DEF vars, queueVars
  <1>7. CASE \E c \in Callers : CallerStep(c)
    BY <1>5, <1>7 DEF CallerStep, Begin, Register, WriteBlocks, WriteRequest, WriteFails, Wait,
       TakeResponse, TimeOut, Leave, Unregister, queueVars
  <1>8. CASE ReceiveGarbage \/ ReceiveResponse \/ ReceiveRequest \/ ReceiveStream
    <2>1. UNCHANGED msgChan
      BY <1>8 DEF ReceiveGarbage, ReceiveResponse, ReceiveRequest, ReceiveStream, Arrived, queueVars
    <2>2. handler'.pc # "send"
      BY <1>8, RestingType DEF ReceiveGarbage, ReceiveResponse, ReceiveRequest, ReceiveStream,
         Resting
    <2>. QED
      BY <1>5, <2>1, <2>2
  <1>9. CASE Deliver \/ ErrorReturned \/ SendOnClosed \/ CallbackPanics
    BY <1>5, <1>9, RestingType DEF Deliver, ErrorReturned, SendOnClosed, CallbackPanics, queueVars
  <1>10. CASE (\E v \in Verdicts : CallbackReturns(v)) \/ ReplyBlocks \/ Reply
    <2>1. UNCHANGED msgChan
      BY <1>10 DEF CallbackReturns, ReplyBlocks, Reply, queueVars
    <2>2. handler'.pc # "send"
      BY <1>1, <1>10, RestingType DEF CallbackReturns, ReplyBlocks, Reply, Handlers
    <2>. QED
      BY <1>5, <2>1, <2>2
  <1>11. CASE CLIStep \/ WriteMessage \/ Close \/ \E k \in CallbackKinds : SetCallback(k)
    BY <1>5, <1>11 DEF CLIStep, CLIAnswers, CLIEmits, CLIReads, TransportDown,
                      WriteMessage, Close, SetCallback, queueVars
  <1>. QED
    BY <1>2, <1>3, <1>4, <1>6, <1>7, <1>8, <1>9, <1>10, <1>11 DEF Next, HandlerStep, UserStep

\* HandleIncoming never blocks on a full msgChan, whatever its capacity and
\* even if nobody ever reads Messages().
THEOREM ReceiveLoopNeverBlocked == Spec => []PushNeverBlocks
  <1>1. Init => QInv
    BY BoundsAssumption, RestingType DEF Init, QInv, PushNeverBlocks
  <1>. QED
    BY <1>1, QueueStep, TypeCorrect, PTL DEF Spec, QInv

-----------------------------------------------------------------------------
(* What the CLI sends of its own accord, on its way through the pipe,       *)
(* HandleIncoming, msgChan and the consumer.  Every message has a serial    *)
(* number; at each place it is smaller than all those of the places before. *)
(* The messages of the application keep this order, and a request is at one *)
(* place only, so it is answered once.                                      *)

Unsolicited(m) == m.kind # "response"

\* Number k was sent before all that is still in the pipe.
Precedes(k) == \A i \in 1 .. Len(incoming) : Unsolicited(incoming[i]) => k < incoming[i].n

PipeOrdered ==
    /\ \A i \in 1 .. Len(incoming) : Unsolicited(incoming[i]) =>
          /\ incoming[i].n \in 1 .. emitted
          /\ incoming[i].n \in requests <=> incoming[i].kind \in RequestKinds
    /\ \A i, j \in 1 .. Len(incoming) :
          i < j /\ Unsolicited(incoming[i]) /\ Unsolicited(incoming[j]) =>
              incoming[i].n < incoming[j].n

Pushing == handler.pc \in {"push", "full", "send"}
Answering == handler.pc \in {"callback", "reply", "replying"}

HandOrdered ==
    /\ Pushing \/ Answering => handler.msg.n \in 1 .. emitted /\ Precedes(handler.msg.n)
    /\ Answering => handler.msg.n \in requests
    /\ handler.pc \in {"full", "send"} => handler.msg.kind = "conversation"

\* Number k is out of the pipe, and behind it what the handler holds.
Passed(k) == k \in 0 .. emitted /\ Precedes(k) /\ (Pushing => k < handler.msg.n)

QueueOrdered ==
    /\ Passed(seen.taken)
    /\ \A i \in 1 .. Len(msgChan) : Passed(msgChan[i])

\* Nothing is answered before it was sent.
NoReplyAhead == \A n \in 1 .. MaxEmit : n > emitted => replies[n] = <<>>

\* The inductive invariant, beside TypeOK.
StreamInv ==
    PipeOrdered /\ HandOrdered /\ QueueOrdered /\ NoReplyAhead /\ QueueKeepsNewest /\ RepliedOnce

Queued(n) == \E i \in 1 .. Len(incoming) : incoming[i].n = n /\ Unsolicited(incoming[i])
InHand(n) == Answering /\ handler.msg.n = n

LEMMA RepliedOnceIs ==
    RepliedOnce <=>
        \A n \in requests : Len(replies[n]) = IF Queued(n) \/ InHand(n) THEN 0 ELSE 1
BY DEF RepliedOnce, Queued, InHand, Answering, Unsolicited

-----------------------------------------------------------------------------
(* The pipe *)

\* The handler takes the oldest message.
LEMMA TakenFromPipe ==
    ASSUME TypeOK, PipeOrdered, incoming # <<>>, incoming' = Tail(incoming),
           UNCHANGED <<emitted, requests>>, NEW m, m = Head(incoming)
    PROVE  /\ PipeOrdered' /\ m \in Messages
           /\ \A k \in Nat : Precedes(k) => Precedes(k)'
           /\ Unsolicited(m) =>
                 /\ m.n \in 1 .. emitted /\ Precedes(m.n)'
                 /\ m.n \in requests <=> m.kind \in RequestKinds
                 /\ ~Queued(m.n)'
           /\ \A n \in Nat : Queued(n) <=> Queued(n)' \/ (Unsolicited(m) /\ m.n = n)
<1>1. incoming \in Seq(Messages)
  BY DEF TypeOK, CLITypes
<1>2. /\ m \in Messages /\ m = incoming[1] /\ 1 \in 1 .. Len(incoming)
      /\ Len(incoming') = Len(incoming) - 1 /\ Len(incoming) \in Nat
      /\ \A i \in 1 .. Len(incoming') : incoming'[i] = incoming[i + 1] /\ i + 1 \in 1 .. Len(incoming)
  BY <1>1, TailFacts
<1>3. \A i \in 1 .. Len(incoming) :
         i = 1 \/ (i - 1 \in 1 .. Len(incoming') /\ incoming'[i - 1] = incoming[i])
  BY <1>2
<1>4. PipeOrdered'
  BY <1>2 DEF PipeOrdered
<1>5. \A k \in Nat : Precedes(k) => Precedes(k)'
  BY <1>2 DEF Precedes
<1>6. ASSUME Unsolicited(m)
      PROVE  /\ m.n \in 1 .. emitted /\ (m.n \in requests <=> m.kind \in RequestKinds)
             /\ \A i \in 1 .. Len(incoming') : Unsolicited(incoming'[i]) => m.n < incoming'[i].n
  <2>1. m.n \in 1 .. emitted /\ (m.n \in requests <=> m.kind \in RequestKinds)
    BY <1>2, <1>6 DEF PipeOrdered
  <2>2. ASSUME NEW i \in 1 .. Len(incoming'), Unsolicited(incoming'[i])
        PROVE  m.n < incoming'[i].n
    BY <1>2, <1>6, <2>2 DEF PipeOrdered
  <2>. QED
    BY <2>1, <2>2
<1>7. Unsolicited(m) => Precedes(m.n)' /\ ~Queued(m.n)'
  BY <1>2, <1>6 DEF Precedes, Queued
<1>8. ASSUME NEW n \in Nat
      PROVE  Queued(n) <=> Queued(n)' \/ (Unsolicited(m) /\ m.n = n)
  <2>1. ASSUME Queued(n) PROVE Queued(n)' \/ (Unsolicited(m) /\ m.n = n)
    <3>1. PICK i \in 1 .. Len(incoming) : incoming[i].n = n /\ Unsolicited(incoming[i])
      BY <2>1 DEF Queued
    <3>. QED
      BY <1>2, <1>3, <3>1 DEF Queued
  <2>2. ASSUME Queued(n)' \/ (Unsolicited(m) /\ m.n = n) PROVE Queued(n)
    BY <1>2, <2>2 DEF Queued
  <2>. QED
    BY <2>1, <2>2
<1>. QED
  BY <1>2, <1>4, <1>5, <1>6, <1>7, <1>8

\* The CLI writes a message: an answer, or the next one of its own.
LEMMA WrittenToPipe ==
    ASSUME TypeOK, PipeOrdered, NEW m \in Messages, incoming' = Append(incoming, m),
           emitted' \in Nat, emitted <= emitted',
           requests' \cap 1 .. emitted = requests \cap 1 .. emitted,
           Unsolicited(m) =>
               /\ m.n = emitted + 1 /\ emitted' = emitted + 1
               /\ m.n \in requests' <=> m.kind \in RequestKinds
    PROVE  /\ PipeOrdered'
           /\ \A k \in 0 .. emitted : Precedes(k) => Precedes(k)'
           /\ \A n \in Nat : Queued(n)' <=> Queued(n) \/ (Unsolicited(m) /\ m.n = n)
<1>1. incoming \in Seq(Messages) /\ emitted \in Nat
  BY BoundsAssumption DEF TypeOK, CLITypes
<1>2. /\ Len(incoming') = Len(incoming) + 1 /\ Len(incoming) \in Nat
      /\ \A i \in 1 .. Len(incoming) : incoming'[i] = incoming[i]
      /\ incoming'[Len(incoming) + 1] = m
  BY <1>1, AppendFacts
<1>3. \A i \in 1 .. Len(incoming') : i \in 1 .. Len(incoming) \/ i = Len(incoming) + 1
  BY <1>2
<1>4. PipeOrdered'
  <2>1. ASSUME NEW i \in 1 .. Len(incoming'), Unsolicited(incoming'[i])
        PROVE  /\ incoming'[i].n \in 1 .. emitted'
               /\ incoming'[i].n \in requests' <=> incoming'[i].kind \in RequestKinds
    BY <1>1, <1>2, <1>3, <2>1 DEF PipeOrdered
  <2>2. ASSUME NEW i \in 1 .. Len(incoming'), NEW j \in 1 .. Len(incoming'), i < j,
               Unsolicited(incoming'[i]), Unsolicited(incoming'[j])
        PROVE  incoming'[i].n < incoming'[j].n
    <3>1. i \in 1 .. Len(incoming)
      BY <1>2, <2>2
    <3>2. CASE j \in 1 .. Len(incoming)
      BY <1>2, <2>2, <3>1, <3>2 DEF PipeOrdered
    <3>3. CASE j = Len(incoming) + 1
      BY <1>1, <1>2, <2>2, <3>1, <3>3 DEF PipeOrdered
    <3>. QED
      BY <1>3, <3>2, <3>3
  <2>. QED
    BY <2>1, <2>2 DEF PipeOrdered, Unsolicited
<1>5. \A k \in 0 .. emitted : Precedes(k) => Precedes(k)'
  BY <1>1, <1>2, <1>3 DEF Precedes
<1>6. \A n \in Nat : Queued(n)' <=> Queued(n) \/ (Unsolicited(m) /\ m.n = n)
  BY <1>2, <1>3 DEF Queued
<1>. QED
  BY <1>4, <1>5, <1>6

-----------------------------------------------------------------------------
(* Steps that move nothing, and the handler's steps at the pipe            *)

LEMMA RestStep ==
    ASSUME StreamInv, UNCHANGED <<incoming, emitted, requests, replies, msgChan, seen>>,
           handler' = handler \/ (handler.pc \in {"deliver", "failed"} /\ handler'.pc = "idle")
    PROVE  StreamInv'
<1>1. PipeOrdered' /\ NoReplyAhead'
  BY DEF StreamInv, PipeOrdered, NoReplyAhead
<1>2. \A k : Precedes(k)' <=> Precedes(k)
  BY DEF Precedes
<1>3. Pushing' => Pushing /\ handler' = handler
  BY DEF Pushing
<1>4. (Answering' <=> Answering) /\ (Answering => handler' = handler)
  BY DEF Answering
<1>5. HandOrdered'
  BY <1>2, <1>3, <1>4 DEF StreamInv, HandOrdered
<1>6. QueueOrdered'
  BY <1>2, <1>3 DEF StreamInv, QueueOrdered, Passed
<1>7. QueueKeepsNewest'
  BY DEF StreamInv, QueueKeepsNewest
<1>8. RepliedOnce'
  <2>1. \A n : (Queued(n)' <=> Queued(n)) /\ (InHand(n)' <=> InHand(n))
    BY <1>4 DEF Queued, InHand
  <2>2. \A n \in requests' : Len(replies'[n]) = IF Queued(n)' \/ InHand(n)' THEN 0 ELSE 1
    BY <2>1, RepliedOnceIs DEF StreamInv
  <2>. QED
    BY <2>2 DEF RepliedOnce, Queued, InHand, Answering, Unsolicited
<1>. QED
  BY <1>1, <1>5, <1>6, <1>7, <1>8 DEF StreamInv

\* What the handler does with the message m it takes.
Received(m) ==
    \/ handler'.pc \in {"idle", "failed", "deliver"} /\ m.kind \notin RequestKinds
    \/ /\ handler'.pc = "push" /\ handler'.msg = m
       /\ Unsolicited(m) /\ m.kind \notin RequestKinds
    \/ handler'.pc \in {"callback", "reply"} /\ handler'.msg = m /\ m.kind \in RequestKinds

LEMMA ReceiveStep ==
    ASSUME TypeOK, StreamInv, handler.pc = "idle", incoming # <<>>, incoming' = Tail(incoming),
           UNCHANGED <<emitted, requests, replies, msgChan, seen>>,
           NEW m, m = Head(incoming), Received(m)
    PROVE  StreamInv'
<1>1. /\ PipeOrdered' /\ m \in Messages
      /\ \A k \in Nat : Precedes(k) => Precedes(k)'
      /\ Unsolicited(m) =>
            /\ m.n \in 1 .. emitted /\ Precedes(m.n)'
            /\ m.n \in requests <=> m.kind \in RequestKinds
            /\ ~Queued(m.n)'
      /\ \A n \in Nat : Queued(n) <=> Queued(n)' \/ (Unsolicited(m) /\ m.n = n)
  BY TakenFromPipe DEF StreamInv
<1>2. m.kind \in RequestKinds => Unsolicited(m)
  BY DEF RequestKinds, CallbackKinds, Unsolicited
<1>3. emitted \in Nat /\ requests \subseteq 1 .. emitted
  BY BoundsAssumption DEF TypeOK, CLITypes
<1>4. HandOrdered'
  BY <1>1, <1>2 DEF HandOrdered, Pushing, Answering, Received
<1>5. QueueOrdered'
  <2>1. ASSUME NEW k, Passed(k), \A i \in 1 .. Len(incoming) : Unsolicited(incoming[i]) => k < incoming[i].n
        PROVE  Passed(k)'
    <3>1. k \in Nat /\ Precedes(k)'
      BY <1>1, <1>3, <2>1 DEF Passed
    <3>2. Unsolicited(m) => k < m.n
      <4>1. incoming \in Seq(Messages)
        BY DEF TypeOK, CLITypes
      <4>2. m = incoming[1] /\ 1 \in 1 .. Len(incoming)
        BY <4>1, TailFacts
      <4>. QED
        BY <2>1, <4>2
    <3>3. Pushing' => Unsolicited(m) /\ handler'.msg = m
      BY DEF Pushing, Received
    <3>. QED
      BY <2>1, <3>1, <3>2, <3>3 DEF Passed
  <2>2. \A k : Passed(k) =>
           \A i \in 1 .. Len(incoming) : Unsolicited(incoming[i]) => k < incoming[i].n
    BY DEF Passed, Precedes
  <2>. QED
    BY <2>1, <2>2 DEF StreamInv, QueueOrdered
<1>6. QueueKeepsNewest'
  BY DEF StreamInv, QueueKeepsNewest
<1>7. NoReplyAhead'
  BY DEF StreamInv, NoReplyAhead
<1>8. RepliedOnce'
  <2>1. \A n : ~InHand(n)
    BY DEF InHand, Answering
  <2>2. ASSUME NEW n \in requests
        PROVE  Queued(n)' \/ InHand(n)' <=> Queued(n)
    <3>1. n \in Nat
      BY <1>3
    <3>2. InHand(n)' => Unsolicited(m) /\ m.n = n
      BY <1>2 DEF InHand, Answering, Received
    <3>3. Unsolicited(m) /\ m.n = n => InHand(n)'
      BY <1>1 DEF InHand, Answering, Received
    <3>. QED
      BY <1>1, <3>1, <3>2, <3>3
  <2>3. \A n \in requests' : Len(replies'[n]) = IF Queued(n)' \/ InHand(n)' THEN 0 ELSE 1
    BY <2>1, <2>2, RepliedOnceIs DEF StreamInv
  <2>. QED
    BY <2>3 DEF RepliedOnce, Queued, InHand, Answering, Unsolicited
<1>. QED
  BY <1>1, <1>4, <1>5, <1>6, <1>7, <1>8 DEF StreamInv

-----------------------------------------------------------------------------
(* Callbacks and the answer                                                *)

\* A callback returns, or its answer waits for room in the pipe.
LEMMA CallbackStep ==
    ASSUME TypeOK, StreamInv, (\E v \in Verdicts : CallbackReturns(v)) \/ ReplyBlocks
    PROVE  StreamInv'
<1>1. /\ handler.pc \in {"callback", "reply"}
      /\ UNCHANGED <<incoming, emitted, requests, replies, msgChan, seen>>
  BY DEF CallbackReturns, ReplyBlocks, queueVars, cliVars
<1>2. handler'.pc \in {"callback", "reply", "replying"} /\ handler'.msg = handler.msg
  BY <1>1 DEF CallbackReturns, ReplyBlocks, TypeOK, HandlerTypes, Handlers
<1>3. PipeOrdered' /\ NoReplyAhead' /\ QueueKeepsNewest'
  BY <1>1 DEF StreamInv, PipeOrdered, NoReplyAhead, QueueKeepsNewest
<1>4. \A k : Precedes(k)' <=> Precedes(k)
  BY <1>1 DEF Precedes
<1>5. HandOrdered'
  BY <1>1, <1>2, <1>4 DEF StreamInv, HandOrdered, Answering, Pushing
<1>6. QueueOrdered'
  BY <1>1, <1>2, <1>4 DEF StreamInv, QueueOrdered, Passed, Pushing
<1>7. RepliedOnce'
  <2>1. \A n : (Queued(n)' <=> Queued(n)) /\ (InHand(n)' <=> InHand(n))
    BY <1>1, <1>2 DEF Queued, InHand, Answering
  <2>2. \A n \in requests' : Len(replies'[n]) = IF Queued(n)' \/ InHand(n)' THEN 0 ELSE 1
    BY <1>1, <2>1, RepliedOnceIs DEF StreamInv
  <2>. QED
    BY <2>2 DEF RepliedOnce, Queued, InHand, Answering, Unsolicited
<1>. QED
  BY <1>3, <1>5, <1>6, <1>7 DEF StreamInv

LEMMA ReplyStep ==
    ASSUME TypeOK, StreamInv, Reply
    PROVE  StreamInv'
<1> DEFINE a == IF handler.reply = "lost" \/ ~up THEN "lost" ELSE handler.reply
           h == handler.msg.n
<1>1. /\ handler.pc \in {"reply", "replying"} /\ replies' = [replies EXCEPT ![h] = Append(@, a)]
      /\ UNCHANGED <<incoming, emitted, requests, msgChan, seen>>
  BY DEF Reply, queueVars, cliVars
<1>2. handler'.pc \in {"idle", "failed"}
  BY <1>1 DEF Reply, Resting, TypeOK, HandlerTypes, Handlers
<1>3. h \in requests /\ h \in 1 .. emitted /\ Precedes(h)
  BY <1>1 DEF StreamInv, HandOrdered, Answering
<1>4. emitted \in 0 .. MaxEmit /\ MaxEmit \in Nat /\ requests \subseteq 1 .. emitted
  BY BoundsAssumption DEF TypeOK, CLITypes
<1>5. /\ replies \in [1 .. MaxEmit -> Seq({"success", "error", "lost"})]
      /\ a \in {"success", "error", "lost"} /\ h \in 1 .. MaxEmit
  BY <1>3, <1>4 DEF TypeOK, CLITypes, HandlerTypes, Handlers
<1>6. /\ \A n \in 1 .. MaxEmit : n # h => replies'[n] = replies[n]
      /\ Len(replies'[h]) = Len(replies[h]) + 1
  <2>1. \A n \in 1 .. MaxEmit : n # h => replies'[n] = replies[n]
    BY <1>1, <1>5
  <2>2. replies'[h] = Append(replies[h], a) /\ replies[h] \in Seq({"success", "error", "lost"})
    BY <1>1, <1>5
  <2>. QED
    BY <1>5, <2>1, <2>2, AppendFacts
<1> HIDE DEF a
<1>7. PipeOrdered' /\ QueueKeepsNewest'
  BY <1>1, <1>2 DEF StreamInv, PipeOrdered, QueueKeepsNewest
<1>8. NoReplyAhead'
  BY <1>1, <1>3, <1>4, <1>6 DEF StreamInv, NoReplyAhead
<1>9. \A k : Precedes(k)' <=> Precedes(k)
  BY <1>1 DEF Precedes
<1>10. HandOrdered'
  BY <1>2 DEF HandOrdered, Answering, Pushing
<1>11. QueueOrdered'
  BY <1>1, <1>2, <1>9 DEF StreamInv, QueueOrdered, Passed, Pushing
<1>12. RepliedOnce'
  <2>1. ~Queued(h)
    BY <1>3, <1>4 DEF Precedes, Queued
  <2>2. /\ \A n : Queued(n)' <=> Queued(n)
        /\ \A n : ~InHand(n)'
        /\ \A n : InHand(n) <=> n = h
    BY <1>1, <1>2 DEF Queued, InHand, Answering
  <2>3. ASSUME NEW n \in requests'
        PROVE  Len(replies'[n]) = IF Queued(n)' \/ InHand(n)' THEN 0 ELSE 1
    <3>1. n \in 1 .. MaxEmit /\ n \in requests
      BY <1>1, <1>4, <2>3
    <3>2. Len(replies[n]) = IF Queued(n) \/ InHand(n) THEN 0 ELSE 1
      BY <3>1, RepliedOnceIs DEF StreamInv
    <3>3. CASE n = h
      BY <1>6, <2>1, <2>2, <3>2, <3>3
    <3>4. CASE n # h
      BY <1>6, <2>2, <3>1, <3>2, <3>4
    <3>. QED
      BY <3>3, <3>4
  <2>. QED
    BY <2>3 DEF RepliedOnce, Queued, InHand, Answering, Unsolicited
<1>. QED
  BY <1>7, <1>8, <1>10, <1>11, <1>12 DEF StreamInv

-----------------------------------------------------------------------------
(* The queue of the application                                            *)

\* Steps at the queue leave the pipe and the answers alone.
LEMMA QueueFrame ==
    ASSUME StreamInv, UNCHANGED <<incoming, emitted, requests, replies>>,
           ~Answering, ~Answering'
    PROVE  /\ PipeOrdered' /\ NoReplyAhead' /\ RepliedOnce'
           /\ \A k : Precedes(k)' <=> Precedes(k)
<1>1. PipeOrdered' /\ NoReplyAhead'
  BY DEF StreamInv, PipeOrdered, NoReplyAhead
<1>2. \A k : Precedes(k)' <=> Precedes(k)
  BY DEF Precedes
<1>3. \A n : (Queued(n)' <=> Queued(n)) /\ ~InHand(n) /\ ~InHand(n)'
  BY DEF Queued, InHand
<1>4. \A n \in requests' : Len(replies'[n]) = IF Queued(n)' \/ InHand(n)' THEN 0 ELSE 1
  BY <1>3, RepliedOnceIs DEF StreamInv
<1>5. RepliedOnce'
  BY <1>4 DEF RepliedOnce, Queued, InHand, Answering, Unsolicited
<1>. QED
  BY <1>1, <1>2, <1>5

\* The handler's message joins the queue.
LEMMA EnqueueStep ==
    ASSUME TypeOK, StreamInv, Pushing, Enqueue,
           UNCHANGED <<incoming, emitted, requests, replies>>
    PROVE  StreamInv'
<1> DEFINE h == handler.msg.n
<1>1. /\ msgChan' = Append(msgChan, h) /\ handler'.pc = "idle"
      /\ seen'.taken = seen.taken
      /\ seen'.handled = h \/ (seen'.handled = seen.handled /\ handler.pc # "send")
  BY DEF Enqueue, Finish, Resting, StreamInv, HandOrdered, TypeOK, HandlerTypes
<1>2. /\ msgChan \in Seq(Nat) /\ emitted \in Nat /\ h \in 1 .. emitted /\ Precedes(h)
      /\ seen.taken \in Nat /\ seen.handled \in Nat
  BY BoundsAssumption DEF TypeOK, HandlerTypes, CLITypes, StreamInv, HandOrdered
<1>3. /\ Len(msgChan) \in Nat /\ Len(msgChan') = Len(msgChan) + 1
      /\ \A i \in 1 .. Len(msgChan) : msgChan'[i] = msgChan[i]
      /\ msgChan'[Len(msgChan) + 1] = h
  BY <1>1, <1>2, AppendFacts
<1>4. \A i \in 1 .. Len(msgChan') : i \in 1 .. Len(msgChan) \/ i = Len(msgChan) + 1
  BY <1>3
<1>5. /\ seen.taken < h
      /\ \A i \in 1 .. Len(msgChan) : msgChan[i] < h /\ msgChan[i] \in Nat
  BY DEF StreamInv, QueueOrdered, Passed
<1>6. ~Answering /\ ~Answering' /\ ~Pushing'
  BY <1>1 DEF Answering, Pushing
<1>7. /\ PipeOrdered' /\ NoReplyAhead' /\ RepliedOnce'
      /\ \A k : Precedes(k)' <=> Precedes(k)
  BY <1>6, QueueFrame
<1>8. HandOrdered'
  BY <1>1, <1>6 DEF HandOrdered
<1>9. QueueOrdered'
  <2>1. \A k : Passed(k) => Passed(k)'
    BY <1>6, <1>7 DEF Passed
  <2>2. Passed(seen.taken) /\ \A i \in 1 .. Len(msgChan) : Passed(msgChan[i])
    BY DEF StreamInv, QueueOrdered
  <2>3. \A k : k = h => Passed(k)'
    BY <1>2, <1>6, <1>7 DEF Passed
  <2>4. \A k : k = seen'.taken => Passed(k)'
    BY <1>1, <2>1, <2>2
  <2>5. \A i \in 1 .. Len(msgChan') : \A k : k = msgChan'[i] => Passed(k)'
    BY <1>3, <1>4, <2>1, <2>2, <2>3
  <2>. QED
    BY <2>4, <2>5 DEF QueueOrdered, Passed, Precedes, Pushing
<1>10. QueueKeepsNewest'
  <2>1. ASSUME NEW i \in 1 .. Len(msgChan'), NEW j \in 1 .. Len(msgChan'), i < j
        PROVE  msgChan'[i] < msgChan'[j]
    <3>1. i \in 1 .. Len(msgChan)
      BY <1>3, <2>1
    <3>2. CASE j \in 1 .. Len(msgChan)
      BY <1>3, <2>1, <3>1, <3>2 DEF StreamInv, QueueKeepsNewest
    <3>3. CASE j = Len(msgChan) + 1
      BY <1>3, <1>5, <3>1, <3>3
    <3>. QED
      BY <1>4, <3>2, <3>3
  <2>2. \A i \in 1 .. Len(msgChan') : msgChan'[i] > seen'.taken
    BY <1>1, <1>2, <1>3, <1>4, <1>5 DEF StreamInv, QueueKeepsNewest
  <2>3. seen'.handled <= seen'.taken \/ \E i \in 1 .. Len(msgChan') : msgChan'[i] = seen'.handled
    <3>1. CASE seen'.handled = h
      BY <1>3, <3>1
    <3>2. CASE seen'.handled = seen.handled /\ handler.pc # "send"
      BY <1>1, <1>3, <3>2 DEF StreamInv, QueueKeepsNewest
    <3>. QED
      BY <1>1, <3>1, <3>2
  <2>. QED
    BY <2>1, <2>2, <2>3 DEF QueueKeepsNewest
<1>. QED
  BY <1>7, <1>8, <1>9, <1>10 DEF StreamInv

\* The first send fails: the message is unknown, or another try will follow.
LEMMA PushStep ==
    ASSUME TypeOK, StreamInv, Push
    PROVE  StreamInv'
<1>1. handler.pc = "push" /\ Pushing /\ UNCHANGED <<incoming, emitted, requests, replies>>
  BY DEF Push, Pushing, cliVars
<1>2. CASE Enqueue
  BY <1>1, <1>2, EnqueueStep
<1>3. ASSUME UNCHANGED msgChan,
             \/ /\ handler.msg.kind = "conversation" /\ UNCHANGED seen
                /\ handler' = [handler EXCEPT !.pc = "full"]
             \/ handler.msg.kind = "unknown" /\ Finish
      PROVE  StreamInv'
  <2>1. /\ seen' = seen
        /\ \/ handler'.pc = "idle"
           \/ /\ handler'.pc = "full" /\ handler'.msg = handler.msg
              /\ handler.msg.kind = "conversation"
    BY <1>3 DEF Finish, Resting, TypeOK, HandlerTypes, Handlers
  <2>2. /\ PipeOrdered' /\ NoReplyAhead' /\ RepliedOnce'
        /\ \A k : Precedes(k)' <=> Precedes(k)
    BY <1>1, <2>1, QueueFrame DEF Answering
  <2>3. HandOrdered'
    BY <1>1, <2>1, <2>2 DEF StreamInv, HandOrdered, Pushing, Answering
  <2>4. QueueOrdered'
    BY <1>1, <1>3, <2>1, <2>2 DEF StreamInv, QueueOrdered, Passed, Pushing
  <2>5. QueueKeepsNewest'
    BY <1>1, <1>3, <2>1 DEF StreamInv, QueueKeepsNewest
  <2>. QED
    BY <2>2, <2>3, <2>4, <2>5 DEF StreamInv
<1>. QED
  BY <1>2, <1>3 DEF Push, queueVars

\* The oldest message leaves the queue.
LEMMA OldestLeaves ==
    ASSUME TypeOK, StreamInv, msgChan # <<>>, msgChan' = Tail(msgChan),
           UNCHANGED <<incoming, emitted>>
    PROVE  /\ \A i \in 1 .. Len(msgChan') :
                 /\ Passed(msgChan[i + 1]) /\ i + 1 \in 1 .. Len(msgChan)
                 /\ msgChan'[i] = msgChan[i + 1] /\ msgChan[1] < msgChan'[i]
           /\ \A i, j \in 1 .. Len(msgChan') : i < j => msgChan'[i] < msgChan'[j]
           /\ \A i \in 1 .. Len(msgChan) :
                 i = 1 \/ (i - 1 \in 1 .. Len(msgChan') /\ msgChan'[i - 1] = msgChan[i])
           /\ Head(msgChan) = msgChan[1] /\ Passed(msgChan[1]) /\ msgChan[1] > seen.taken
<1>1. msgChan \in Seq(Nat)
  BY DEF TypeOK, HandlerTypes
<1>2. /\ Head(msgChan) = msgChan[1] /\ 1 \in 1 .. Len(msgChan)
      /\ Len(msgChan') = Len(msgChan) - 1 /\ Len(msgChan) \in Nat
      /\ \A i \in 1 .. Len(msgChan') : msgChan'[i] = msgChan[i + 1] /\ i + 1 \in 1 .. Len(msgChan)
  BY <1>1, TailFacts
<1>3. \A i, j \in 1 .. Len(msgChan) : i < j => msgChan[i] < msgChan[j]
  BY DEF StreamInv, QueueKeepsNewest
<1>4. \A i \in 1 .. Len(msgChan) : Passed(msgChan[i]) /\ msgChan[i] > seen.taken
  BY DEF StreamInv, QueueOrdered, QueueKeepsNewest
<1>5. \A i \in 1 .. Len(msgChan) :
         i = 1 \/ (i - 1 \in 1 .. Len(msgChan') /\ msgChan'[i - 1] = msgChan[i])
  BY <1>2
<1>6. \A i, j \in 1 .. Len(msgChan') : i < j => msgChan'[i] < msgChan'[j]
  BY <1>2, <1>3
<1>. QED
  BY <1>2, <1>3, <1>4, <1>5, <1>6

LEMMA DropStep ==
    ASSUME TypeOK, StreamInv, DropOldest
    PROVE  StreamInv'
<1>1. /\ handler.pc = "full" /\ Pushing /\ handler'.pc = "send" /\ handler'.msg = handler.msg
      /\ Pushing' /\ ~Answering /\ ~Answering'
      /\ UNCHANGED <<incoming, emitted, requests, replies, seen>>
  BY DEF DropOldest, Pushing, Answering, cliVars, TypeOK, HandlerTypes, Handlers
<1>2. /\ PipeOrdered' /\ NoReplyAhead' /\ RepliedOnce'
      /\ \A k : Precedes(k)' <=> Precedes(k)
  BY <1>1, QueueFrame
<1>3. HandOrdered'
  BY <1>1, <1>2 DEF StreamInv, HandOrdered
<1>4. \A k : Passed(k)' <=> Passed(k)
  BY <1>1, <1>2 DEF Passed
<1>5. Passed(seen.taken) /\ \A i \in 1 .. Len(msgChan) : Passed(msgChan[i])
  BY DEF StreamInv, QueueOrdered
<1>6. CASE msgChan = <<>>
  <2>1. msgChan' = msgChan
    BY <1>6 DEF DropOldest
  <2>2. QueueOrdered' /\ QueueKeepsNewest'
    BY <1>1, <1>2, <2>1 DEF StreamInv, QueueOrdered, QueueKeepsNewest, Passed
  <2>. QED
    BY <1>2, <1>3, <2>2 DEF StreamInv
<1>7. CASE msgChan # <<>>
  <2>1. msgChan' = Tail(msgChan)
    BY <1>7 DEF DropOldest
  <2>2. \A i \in 1 .. Len(msgChan') :
           Passed(msgChan[i + 1]) /\ msgChan'[i] = msgChan[i + 1] /\ msgChan'[i] > seen.taken
    <3>1. \A k : Passed(k) => k \in Nat
      BY BoundsAssumption DEF TypeOK, CLITypes, Passed
    <3>2. seen.taken \in Nat /\ msgChan[1] \in Nat
      BY <1>1, <1>5, <1>7, <2>1, <3>1, OldestLeaves
    <3>. SUFFICES ASSUME NEW i \in 1 .. Len(msgChan')
                  PROVE  /\ Passed(msgChan[i + 1]) /\ msgChan'[i] = msgChan[i + 1]
                         /\ msgChan'[i] > seen.taken
      OBVIOUS
    <3>3. Passed(msgChan[i + 1]) /\ msgChan'[i] = msgChan[i + 1] /\ msgChan[1] < msgChan'[i]
      BY <1>1, <1>7, <2>1, OldestLeaves
    <3>4. msgChan[1] > seen.taken
      BY <1>1, <1>7, <2>1, OldestLeaves
    <3>5. msgChan[i + 1] \in Nat
      BY <3>1, <3>3
    <3>. QED
      BY <3>2, <3>3, <3>4, <3>5
  <2>3. QueueOrdered'
    <3>1. \A i \in 1 .. Len(msgChan') : \A k : k = msgChan'[i] => Passed(k)'
      BY <1>4, <2>2
    <3>2. \A k : k = seen'.taken => Passed(k)'
      BY <1>1, <1>4, <1>5
    <3>. QED
      BY <3>1, <3>2 DEF QueueOrdered, Passed, Precedes, Pushing
  <2>4. QueueKeepsNewest'
    BY <1>1, <1>7, <2>1, <2>2, OldestLeaves DEF QueueKeepsNewest
  <2>. QED
    BY <1>2, <1>3, <2>3, <2>4 DEF StreamInv
<1>. QED
  BY <1>6, <1>7

LEMMA TakeStep ==
    ASSUME TypeOK, StreamInv, TakeMessage
    PROVE  StreamInv'
<1>1. /\ msgChan # <<>> /\ msgChan' = Tail(msgChan)
      /\ seen'.taken = Head(msgChan) /\ seen'.handled = seen.handled
      /\ UNCHANGED <<incoming, emitted, requests, replies, handler>>
  BY DEF TakeMessage, cliVars, TypeOK, HandlerTypes
<1>2. /\ \A k : Precedes(k)' <=> Precedes(k)
      /\ Pushing' <=> Pushing
      /\ Answering' <=> Answering
  BY <1>1 DEF Precedes, Pushing, Answering
<1>3. PipeOrdered' /\ NoReplyAhead' /\ HandOrdered'
  BY <1>1, <1>2 DEF StreamInv, PipeOrdered, NoReplyAhead, HandOrdered
<1>4. RepliedOnce'
  BY <1>1 DEF StreamInv, RepliedOnce
<1>5. \A k : Passed(k)' <=> Passed(k)
  BY <1>1, <1>2 DEF Passed
<1>6. \A k : Passed(k) => k \in Nat
  BY BoundsAssumption DEF TypeOK, CLITypes, Passed
<1>7. QueueOrdered'
  <2>1. \A i \in 1 .. Len(msgChan') : \A k : k = msgChan'[i] => Passed(k)'
    BY <1>1, <1>5, OldestLeaves
  <2>2. \A k : k = seen'.taken => Passed(k)'
    BY <1>1, <1>5, OldestLeaves
  <2>. QED
    BY <2>1, <2>2 DEF QueueOrdered, Passed, Precedes, Pushing
<1>8. QueueKeepsNewest'
  <2>1. \A i \in 1 .. Len(msgChan') : msgChan'[i] > seen'.taken
    BY <1>1, <1>6, OldestLeaves
  <2>2. \A i, j \in 1 .. Len(msgChan') : i < j => msgChan'[i] < msgChan'[j]
    BY <1>1, OldestLeaves
  <2>3. \/ seen'.handled <= seen'.taken
        \/ \E i \in 1 .. Len(msgChan') : msgChan'[i] = seen'.handled
        \/ handler'.pc = "send"
    <3>1. seen.handled \in Nat /\ seen.taken \in Nat /\ msgChan[1] \in Nat
      BY <1>1, <1>6, OldestLeaves DEF TypeOK, HandlerTypes
    <3>2. CASE seen.handled <= seen.taken
      BY <1>1, <3>1, <3>2, OldestLeaves
    <3>3. CASE \E i \in 1 .. Len(msgChan) : msgChan[i] = seen.handled
      <4>1. PICK i \in 1 .. Len(msgChan) : msgChan[i] = seen.handled
        BY <3>3
      <4>2. i = 1 \/ (i - 1 \in 1 .. Len(msgChan') /\ msgChan'[i - 1] = seen.handled)
        BY <1>1, <4>1, OldestLeaves
      <4>3. seen'.taken = msgChan[1] /\ seen'.handled = seen.handled
        BY <1>1, OldestLeaves
      <4>. QED
        BY <3>1, <4>1, <4>2, <4>3
    <3>4. CASE handler.pc = "send"
      BY <1>1, <3>4
    <3>. QED
      BY <3>2, <3>3, <3>4 DEF StreamInv, QueueKeepsNewest
  <2>. QED
    BY <2>1, <2>2, <2>3 DEF QueueKeepsNewest
<1>. QED
  BY <1>3, <1>4, <1>7, <1>8 DEF StreamInv

-----------------------------------------------------------------------------
(* The CLI                                                                 *)

\* A message is written to the pipe; only one of its own gets a number.
LEMMA WriteStep ==
    ASSUME TypeOK, StreamInv, NEW m \in Messages, incoming' = Append(incoming, m),
           UNCHANGED <<handler, msgChan, seen, replies>>,
           \/ m.kind = "response" /\ emitted' = emitted /\ requests' = requests
           \/ /\ emitted < MaxEmit /\ emitted' = emitted + 1
              /\ m.kind = "response" \/ m.n = emitted + 1
              /\ requests' = IF m.kind \in RequestKinds THEN requests \cup {emitted + 1}
                                                        ELSE requests
    PROVE  StreamInv'
<1>1. /\ emitted \in 0 .. MaxEmit /\ MaxEmit \in Nat /\ requests \subseteq 1 .. emitted
      /\ emitted \in Nat
  BY BoundsAssumption DEF TypeOK, CLITypes
<1>2. "response" \notin RequestKinds
  BY DEF RequestKinds, CallbackKinds
<1>3. /\ emitted' \in Nat /\ emitted <= emitted' /\ requests \subseteq requests'
      /\ requests' \cap 1 .. emitted = requests \cap 1 .. emitted
      /\ Unsolicited(m) =>
            /\ m.n = emitted + 1 /\ emitted' = emitted + 1
            /\ m.n \in requests' <=> m.kind \in RequestKinds
      /\ \A n \in requests' : n \in requests \/ (n = emitted + 1 /\ Unsolicited(m) /\ m.n = n)
  BY <1>1, <1>2 DEF Unsolicited
<1>4. /\ PipeOrdered'
      /\ \A k \in 0 .. emitted : Precedes(k) => Precedes(k)'
      /\ \A n \in Nat : Queued(n)' <=> Queued(n) \/ (Unsolicited(m) /\ m.n = n)
  BY <1>3, WrittenToPipe DEF StreamInv
<1>5. /\ Pushing' <=> Pushing
      /\ Answering' <=> Answering
  BY DEF Pushing, Answering
<1>6. HandOrdered'
  BY <1>1, <1>3, <1>4, <1>5 DEF StreamInv, HandOrdered
<1>7. QueueOrdered'
  <2>1. \A k : Passed(k) => Passed(k)'
    BY <1>1, <1>3, <1>4, <1>5 DEF Passed
  <2>. QED
    BY <2>1 DEF StreamInv, QueueOrdered
<1>8. NoReplyAhead' /\ QueueKeepsNewest'
  BY <1>1, <1>3 DEF StreamInv, NoReplyAhead, QueueKeepsNewest
<1>9. RepliedOnce'
  <2>1. \A n : InHand(n)' <=> InHand(n)
    BY <1>5 DEF InHand
  <2>2. ASSUME NEW n \in requests'
        PROVE  Len(replies'[n]) = IF Queued(n)' \/ InHand(n)' THEN 0 ELSE 1
    <3>1. CASE n \in requests
      <4>1. n \in Nat /\ ~(Unsolicited(m) /\ m.n = n)
        BY <1>1, <1>3, <3>1
      <4>. QED
        BY <1>4, <2>1, <3>1, <4>1, RepliedOnceIs DEF StreamInv
    <3>2. CASE n = emitted + 1 /\ Unsolicited(m) /\ m.n = n
      <4>1. emitted' = emitted + 1 /\ n \in 1 .. MaxEmit /\ n \in Nat
        BY <1>1, <1>3, <3>2
      <4>2. replies'[n] = <<>> /\ Queued(n)'
        BY <1>1, <1>4, <3>2, <4>1 DEF StreamInv, NoReplyAhead
      <4>. QED
        BY <4>2
    <3>. QED
      BY <1>3, <3>1, <3>2
  <2>. QED
    BY <2>2 DEF RepliedOnce, Queued, InHand, Answering, Unsolicited
<1>. QED
  BY <1>4, <1>6, <1>7, <1>8, <1>9 DEF StreamInv

-----------------------------------------------------------------------------
LEMMA StreamInit == Init => StreamInv
<1>. SUFFICES ASSUME Init PROVE StreamInv
  OBVIOUS
<1>1. PipeOrdered /\ HandOrdered
  BY DEF Init, PipeOrdered, HandOrdered, Pushing, Answering, Resting
<1>2. QueueOrdered /\ NoReplyAhead
  BY DEF Init, QueueOrdered, Passed, Precedes, Pushing, Resting, NoReplyAhead
<1>3. QueueKeepsNewest /\ RepliedOnce
  BY DEF Init, QueueKeepsNewest, RepliedOnce
<1>. QED
  BY <1>1, <1>2, <1>3 DEF StreamInv

LEMMA StreamStep == TypeOK /\ StreamInv /\ [Next]_vars => StreamInv'
<1>. SUFFICES ASSUME TypeOK, StreamInv, [Next]_vars PROVE StreamInv'
  OBVIOUS
<1>1. ASSUME NEW c \in Callers, CallerStep(c) PROVE StreamInv'
  <2>1. UNCHANGED <<incoming, emitted, requests, replies, msgChan, seen, handler>>
    BY <1>1 DEF CallerStep, Begin, Register, WriteBlocks, WriteRequest, WriteFails, Wait,
       TakeResponse, TimeOut, Unregister, Leave, cliVars, queueVars
  <2>. QED
    BY <2>1, RestStep
<1>2. CASE HandlerStep
  <2>1. CASE Deliver \/ ErrorReturned \/ SendOnClosed \/ CallbackPanics
    <3>1. /\ UNCHANGED <<incoming, emitted, requests, replies, msgChan, seen>>
          /\ handler' = handler \/ (handler.pc \in {"deliver", "failed"} /\ handler'.pc = "idle")
      BY <2>1 DEF Deliver, ErrorReturned, SendOnClosed, CallbackPanics, Resting, cliVars, queueVars
    <3>. QED
      BY <3>1, RestStep
  <2>2. CASE ReceiveGarbage \/ ReceiveResponse \/ ReceiveRequest \/ ReceiveStream
    <3>1. /\ handler.pc = "idle" /\ incoming # <<>> /\ incoming' = Tail(incoming)
          /\ UNCHANGED <<emitted, requests, replies, msgChan, seen>>
      BY <2>2 DEF ReceiveGarbage, ReceiveResponse, ReceiveRequest, ReceiveStream, Arrived,
         cliVars, queueVars
    <3> DEFINE m == Head(incoming)
    <3>2. CASE ReceiveGarbage \/ ReceiveResponse
      <4>1. m.kind \notin RequestKinds /\ handler'.pc \in {"idle", "failed", "deliver"}
        <5>1. CASE ReceiveGarbage
          BY <5>1 DEF ReceiveGarbage, Arrived, Resting, RequestKinds, CallbackKinds
        <5>2. CASE ReceiveResponse
          BY <5>2 DEF ReceiveResponse, Arrived, Resting, RequestKinds, CallbackKinds
        <5>. QED
          BY <3>2, <5>1, <5>2
      <4>. QED
        BY <3>1, <4>1, ReceiveStep DEF Received
    <3>3. CASE ReceiveRequest
      <4>1. m.kind \in RequestKinds /\ handler'.pc \in {"callback", "reply"} /\ handler'.msg = m
        BY <3>3 DEF ReceiveRequest, Arrived, Resting
      <4>. QED
        BY <3>1, <4>1, ReceiveStep DEF Received
    <3>4. CASE ReceiveStream
      <4>1. /\ m.kind \notin RequestKinds /\ Unsolicited(m)
            /\ handler'.pc = "push" /\ handler'.msg = m
        BY <3>4 DEF ReceiveStream, Arrived, Resting, RequestKinds, CallbackKinds, Unsolicited
      <4>. QED
        BY <3>1, <4>1, ReceiveStep DEF Received
    <3>. QED
      BY <2>2, <3>2, <3>3, <3>4
  <2>3. CASE (\E v \in Verdicts : CallbackReturns(v)) \/ ReplyBlocks
    BY <2>3, CallbackStep
  <2>4. CASE Reply
    BY <2>4, ReplyStep
  <2>5. CASE Push
    BY <2>5, PushStep
  <2>6. CASE DropOldest
    BY <2>6, DropStep
  <2>7. CASE SendAfterDrop
    BY <2>7, EnqueueStep DEF SendAfterDrop, Pushing, cliVars
  <2>. QED
    BY <1>2, <2>1, <2>2, <2>3, <2>4, <2>5, <2>6, <2>7 DEF HandlerStep
<1>3. CASE CLIStep
  <2>1. ASSUME NEW q \in asked, CLIAnswers(q) PROVE StreamInv'
    <3> DEFINE m == [kind |-> "response", n |-> q.id, of |-> q.of]
    <3>1. m \in Messages
      BY DEF TypeOK, CLITypes, Messages, Requests
    <3>2. /\ incoming' = Append(incoming, m) /\ emitted' = emitted /\ requests' = requests
          /\ UNCHANGED <<handler, msgChan, seen, replies>>
      BY <2>1 DEF CLIAnswers, queueVars
    <3>. QED
      BY <3>1, <3>2, WriteStep
  <2>2. ASSUME NEW k \in RequestKinds \cup StreamKinds \cup {"response"}, CLIEmits(k)
        PROVE  StreamInv'
    <3> DEFINE m == [kind |-> k, of |-> 0, n |-> IF k = "response" THEN 0 ELSE emitted + 1]
    <3>1. m \in Messages
      BY BoundsAssumption DEF TypeOK, CLITypes, Messages
    <3>2. /\ incoming' = Append(incoming, m) /\ emitted < MaxEmit /\ emitted' = emitted + 1
          /\ requests' = IF m.kind \in RequestKinds THEN requests \cup {emitted + 1} ELSE requests
          /\ UNCHANGED <<handler, msgChan, seen, replies>>
          /\ m.kind = "response" \/ m.n = emitted + 1
      BY <2>2 DEF CLIEmits, queueVars
    <3> HIDE DEF m
    <3>. QED
      BY <3>1, <3>2, WriteStep
  <2>3. CASE CLIReads \/ TransportDown
    BY <2>3, RestStep DEF CLIReads, TransportDown, queueVars
  <2>. QED
    BY <1>3, <2>1, <2>2, <2>3 DEF CLIStep
<1>4. CASE UserStep
  <2>1. CASE TakeMessage
    BY <2>1, TakeStep
  <2>2. CASE (\E k \in CallbackKinds : SetCallback(k)) \/ WriteMessage \/ Close
    <3>1. UNCHANGED <<incoming, emitted, requests, replies, msgChan, seen, handler>>
      BY <2>2 DEF SetCallback, WriteMessage, Close, cliVars, queueVars
    <3>. QED
      BY <3>1, RestStep
  <2>. QED
    BY <1>4, <2>1, <2>2 DEF UserStep
<1>5. CASE UNCHANGED vars
  <2>1. UNCHANGED <<incoming, emitted, requests, replies, msgChan, seen, handler>>
    BY <1>5 DEF vars, queueVars, cliVars
  <2>. QED
    BY <2>1, RestStep
<1>. QED
  BY <1>1, <1>2, <1>3, <1>4, <1>5 DEF Next

(* The messages of the CLI stay in order from the pipe to the consumer, and *)
(* each request is in one place: the invariant of the theorems below.      *)
THEOREM StreamInvariant == Spec => []StreamInv
<1>1. Init => StreamInv
  BY StreamInit
<1>2. TypeOK /\ StreamInv /\ [Next]_vars => StreamInv'
  BY StreamStep
<1>. QED
  BY <1>1, <1>2, TypeCorrect, PTL DEF Spec

(* HandleIncoming answers every control request of the CLI once, after its *)
(* callbacks, however many messages and answers come between.              *)
THEOREM EveryRequestRepliedOnce == Spec => []RepliedOnce
<1>1. StreamInv => RepliedOnce
  BY DEF StreamInv
<1>. QED
  BY <1>1, StreamInvariant, PTL

(* The queue of messages keeps the order of the CLI and the newest message *)
(* of the conversation, whatever its capacity and whoever reads it.        *)
THEOREM NewestIsKept == Spec => []QueueKeepsNewest
<1>1. StreamInv => QueueKeepsNewest
  BY DEF StreamInv
<1>. QED
  BY <1>1, StreamInvariant, PTL

=============================================================================
