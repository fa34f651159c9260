-------------------------- MODULE TTHTTPAgent_proofs --------------------------
(***************************************************************************)
(* Proofs about TTHTTPAgent, for any requests, methods and settings: its   *)
(* types, that settings are mixed only by requests prepared at the same    *)
(* time, and what the chain of response serializers makes of an answer.    *)
(***************************************************************************)
EXTENDS TTHTTPAgent, TLAPS

-----------------------------------------------------------------------------
\* The chain of serializers.

\* The chain is four serializers long.
LEMMA ChainIsFour ==
    /\ DOMAIN Serializers = 1..4
    /\ Serializers[1] = "json" /\ Serializers[2] = "gif"
    /\ Serializers[3] = "image" /\ Serializers[4] = "last"
  BY DEF Serializers

\* The chain finds the first serializer that parses, for the last one always does.
LEMMA FirstParses ==
    ASSUME NEW response \in Responses
    PROVE  \E n \in 1..4 :
              /\ Parses(Serializers[n], response)
              /\ \A j \in 1..(n - 1) : ~ Parses(Serializers[j], response)
              /\ Outcome(response) = Makes(Serializers[n], response)
<1> DEFINE First(i) == /\ Parses(Serializers[i], response)
                       /\ \A j \in 1..(i - 1) : ~ Parses(Serializers[j], response)
<1>1. Parses(Serializers[4], response)
  BY ChainIsFour DEF Parses
<1>2. \E i \in 1..4 : First(i)
  <2>1. CASE Parses(Serializers[1], response)
    <3>1. First(1)
      BY <2>1
    <3> QED
      BY <3>1
  <2>2. CASE ~ Parses(Serializers[1], response) /\ Parses(Serializers[2], response)
    <3>1. \A j \in 1..(2 - 1) : j = 1
      OBVIOUS
    <3>2. First(2)
      BY <2>2, <3>1
    <3> QED
      BY <3>2
  <2>3. CASE /\ ~ Parses(Serializers[1], response) /\ ~ Parses(Serializers[2], response)
             /\ Parses(Serializers[3], response)
    <3>1. \A j \in 1..(3 - 1) : j = 1 \/ j = 2
      OBVIOUS
    <3>2. First(3)
      BY <2>3, <3>1
    <3> QED
      BY <3>2
  <2>4. CASE /\ ~ Parses(Serializers[1], response) /\ ~ Parses(Serializers[2], response)
             /\ ~ Parses(Serializers[3], response)
    <3>1. \A j \in 1..(4 - 1) : j = 1 \/ j = 2 \/ j = 3
      OBVIOUS
    <3>2. First(4)
      BY <1>1, <2>4, <3>1
    <3> QED
      BY <3>2
  <2> QED
    BY <2>1, <2>2, <2>3, <2>4
<1> DEFINE n == CHOOSE i \in DOMAIN Serializers : First(i)
<1>3. n \in 1..4 /\ First(n)
  BY <1>2, ChainIsFour
<1>4. Outcome(response) = Makes(Serializers[n], response)
  BY DEF Outcome
<1> QED
  BY <1>3, <1>4

\* What comes of a response: an object from JSON, data from gif or from nothing,
\* an image from an image, each with a good status, or a failure.
LEMMA OutcomeIs ==
    ASSUME NEW response \in Responses
    PROVE  LET outcome == Outcome(response)
           IN  /\ outcome \in {"object", "data", "image", "failure"}
               /\ outcome # "failure" => response.ok
               /\ outcome = "object" => response.type = "json" /\ response.body = "right"
               /\ outcome = "image" => response.type = "image" /\ response.body = "right"
               /\ outcome = "data" =>
                     response.type = "gif" \/ (response.type = "none" /\ response.body = "empty")
               /\ response.body = "empty" => outcome \in {"data", "failure"}
<1>1. PICK n \in 1..4 :
          /\ Parses(Serializers[n], response)
          /\ \A j \in 1..(n - 1) : ~ Parses(Serializers[j], response)
          /\ Outcome(response) = Makes(Serializers[n], response)
  BY FirstParses
<1>2. /\ response.type \in {"json", "gif", "image", "none", "other"}
      /\ response.ok \in BOOLEAN
      /\ response.body \in {"right", "empty", "wrong"}
      /\ response.type \in {"none", "other"} => response.body # "right"
  BY DEF Responses
<1>3. CASE n = 1
  BY <1>1, <1>2, <1>3, ChainIsFour DEF Makes, Parses, Typed, Accepted, Outcomes
<1>4. CASE n = 2
  BY <1>1, <1>2, <1>4, ChainIsFour DEF Makes, Parses, Typed, Accepted, Outcomes
<1>5. CASE n = 3
  <2>1. ~ Parses("gif", response)
    BY <1>1, <1>5, ChainIsFour
  <2> QED
    BY <1>1, <1>2, <1>5, <2>1, ChainIsFour DEF Makes, Parses, Typed, Accepted, Outcomes
<1>6. CASE n = 4
  BY <1>1, <1>2, <1>6, ChainIsFour DEF Makes, Outcomes
<1> QED
  BY <1>3, <1>4, <1>5, <1>6

\* What a block is called with is an outcome.
LEMMA PassedIs ==
    ASSUME NEW r \in Requests, NEW response \in Responses
    PROVE  Passed(r, response) \in Outcomes
  BY OutcomeIs DEF Passed, Outcomes

-----------------------------------------------------------------------------
\* Types.

\* What a request asks for is among the values of each field.
LEMMA OwnTypes ==
    ASSUME NEW r \in Requests
    PROVE  /\ Own[r].cachePolicy \in Values("cachePolicy")
           /\ Own[r].timeout \in Values("timeout")
           /\ Own[r].cookie \in Values("cookie")
  BY AgentAssumption DEF Settings

\* The serializer starts with the defaults, and no request is made.
LEMMA InitTypes == Init => TypeOK
  BY AgentAssumption DEF Init, TypeOK, Stages, NoAnswer, Responses, Outcomes

\* A request that is made is well typed.
LEMMA CallTypes ==
    ASSUME TypeOK, NEW r \in Requests, Call(r) PROVE TypeOK'
<1>1. during' \in [Requests -> SUBSET Requests]
  BY DEF TypeOK, Call, Preparing
<1>2. stage' \in [Requests -> Stages]
  BY DEF TypeOK, Call, Goes, Stages, Preparation
<1> QED
  BY <1>1, <1>2 DEF TypeOK, Call

\* So is it after each of its steps.
LEMMA StepTypes ==
    ASSUME TypeOK, NEW r \in Requests, Step(r) PROVE TypeOK'
<1>1. stage' \in [Requests -> Stages]
  BY DEF TypeOK, Step, Goes, Stages, Preparation, SetCachePolicy, SetTimeout, SetCookie,
         MakeNoTask, RaiseOnURL, MakeRequest, AddHeaders, Answered, NotAnswered
<1>2. CASE SetCachePolicy(r) \/ SetTimeout(r) \/ SetCookie(r)
  <2>1. serializer' \in Settings
    BY <1>2, OwnTypes DEF TypeOK, SetCachePolicy, SetTimeout, SetCookie, Settings
  <2> QED
    BY <1>1, <1>2, <2>1 DEF TypeOK, SetCachePolicy, SetTimeout, SetCookie
<1>3. CASE MakeRequest(r) \/ AddHeaders(r)
  <2>1. PICK settings \in Settings : sent' = [sent EXCEPT ![r] = settings]
    <3>1. sent[r] \in Settings /\ serializer \in Settings
      BY DEF TypeOK
    <3>2. CASE MakeRequest(r)
      <4>1. [sent[r] EXCEPT !.cachePolicy = serializer.cachePolicy,
                            !.timeout = serializer.timeout] \in Settings
        BY <3>1 DEF Settings
      <4> QED
        BY <3>2, <4>1 DEF MakeRequest
    <3>3. CASE AddHeaders(r)
      <4>1. [sent[r] EXCEPT !.cookie = serializer.cookie] \in Settings
        BY <3>1 DEF Settings
      <4> QED
        BY <3>3, <4>1 DEF AddHeaders
    <3> QED
      BY <1>3, <3>2, <3>3
  <2>2. sent' \in [Requests -> Settings]
    BY <2>1 DEF TypeOK
  <2> QED
    BY <1>1, <1>3, <2>2 DEF TypeOK, MakeRequest, AddHeaders
<1>4. CASE Answered(r)
  <2>1. answer' \in [Requests -> [response : Responses, outcome : Outcomes]]
    BY <1>4, PassedIs DEF TypeOK, Answered, ResponsesTo
  <2> QED
    BY <1>1, <1>4, <2>1 DEF TypeOK, Answered
<1>5. CASE MakeNoTask(r) \/ RaiseOnURL(r) \/ NotAnswered(r)
  BY <1>1, <1>5 DEF TypeOK, MakeNoTask, RaiseOnURL, NotAnswered
<1> QED
  BY <1>2, <1>3, <1>4, <1>5 DEF Step

\* Types are kept by every step.
LEMMA NextTypes == TypeOK /\ [Next]_vars => TypeOK'
<1>1. TypeOK /\ UNCHANGED vars => TypeOK'
  BY DEF TypeOK, vars
<1> QED
  BY <1>1, CallTypes, StepTypes DEF Next

\* The agent keeps its variables well typed.
THEOREM AgentTypes == Spec => []TypeOK
<1> QED
  BY InitTypes, NextTypes, PTL DEF Spec

-----------------------------------------------------------------------------
\* Answers.

\* What a request got is what the chain makes of an answer to it.
AnswersAreOutcomes ==
    \A r \in Requests :
        answer[r] # NoAnswer =>
            /\ answer[r].response \in ResponsesTo(r)
            /\ answer[r].outcome = Passed(r, answer[r].response)

\* An answer is made by the chain, and stays.
LEMMA AnswersAreKept ==
    ASSUME TypeOK, AnswersAreOutcomes, [Next]_vars PROVE AnswersAreOutcomes'
<1>1. CASE UNCHANGED answer
  BY <1>1 DEF AnswersAreOutcomes
<1>2. CASE \E r \in Requests : Answered(r)
  BY <1>2 DEF AnswersAreOutcomes, Answered, TypeOK
<1> QED
  BY <1>1, <1>2 DEF Next, Call, Step, SetCachePolicy, SetTimeout, SetCookie, MakeNoTask,
                    RaiseOnURL, MakeRequest, AddHeaders, NotAnswered, vars

\* In every behaviour an answer is what the chain makes of the response.
LEMMA AgentAnswersAreOutcomes == Spec => []AnswersAreOutcomes
<1>1. Init => AnswersAreOutcomes
  BY DEF Init, AnswersAreOutcomes
<1> QED
  BY <1>1, AnswersAreKept, AgentTypes, PTL DEF Spec

\* Of all outcomes of the chain only those with the right type succeed.
LEMMA AnswersSucceed ==
    ASSUME TypeOK, AnswersAreOutcomes
    PROVE  OnlyParsedAnswersSucceed
<1> SUFFICES ASSUME NEW r \in Requests
             PROVE  LET response == answer[r].response
                        outcome == answer[r].outcome
                    IN  /\ outcome # "failure" => response.ok
                        /\ outcome = "object" => response.type = "json" /\ response.body = "right"
                        /\ outcome = "image" => response.type = "image" /\ response.body = "right"
                        /\ outcome \in {"data", "nothing"} =>
                              \/ response.type = "gif"
                              \/ response.type = "none" /\ response.body = "empty"
                        /\ outcome # "failure" => (outcome = "nothing" <=> MethodOf[r] = "HEAD")
  BY DEF OnlyParsedAnswersSucceed
<1>1. CASE answer[r] = NoAnswer
  BY <1>1 DEF NoAnswer
<1>2. CASE answer[r] # NoAnswer
  <2> DEFINE response == answer[r].response
  <2>1. /\ response \in Responses
        /\ MethodOf[r] = "HEAD" => response.body = "empty"
        /\ answer[r].outcome = Passed(r, response)
    BY <1>2 DEF AnswersAreOutcomes, ResponsesTo
  <2>2. CASE MethodOf[r] = "HEAD"
    BY <2>1, <2>2, OutcomeIs DEF Passed
  <2>3. CASE MethodOf[r] # "HEAD"
    BY <2>1, <2>3, OutcomeIs DEF Passed
  <2> QED
    BY <2>2, <2>3
<1> QED
  BY <1>1, <1>2

\* Only an answer with a good status succeeds, with what its type says.
THEOREM AgentOnlyParsedSucceed == Spec => []OnlyParsedAnswersSucceed
<1> QED
  BY AgentTypes, AgentAnswersAreOutcomes, AnswersSucceed, PTL

-----------------------------------------------------------------------------
\* The shared serializer.

\* Two requests that are being prepared know of each other.
OverlapIsKnown ==
    \A r, q \in Preparing : r # q => q \in during[r]

\* What a request has put into the serializer and not yet used is still its own
\* or that of one being prepared with it,
HeldPolicy ==
    \A r \in Requests : stage[r] \in {"timeout", "cookie", "request"} =>
        \E q \in {r} \cup during[r] : serializer.cachePolicy = Own[q].cachePolicy
HeldTimeout ==
    \A r \in Requests : stage[r] \in {"cookie", "request"} =>
        \E q \in {r} \cup during[r] : serializer.timeout = Own[q].timeout
HeldCookie ==
    \A r \in Requests : stage[r] \in {"request", "headers"} =>
        \E q \in {r} \cup during[r] : serializer.cookie = Own[q].cookie

\* and so is what it has been made with.
SentPolicy ==
    \A r \in Requests : stage[r] \in {"headers", "sent", "answered"} =>
        \E q \in {r} \cup during[r] : sent[r].cachePolicy = Own[q].cachePolicy
SentTimeout ==
    \A r \in Requests : stage[r] \in {"headers", "sent", "answered"} =>
        \E q \in {r} \cup during[r] : sent[r].timeout = Own[q].timeout
SentCookie ==
    \A r \in Requests : stage[r] \in {"sent", "answered"} =>
        \E q \in {r} \cup during[r] : sent[r].cookie = Own[q].cookie

SharedInv ==
    /\ OverlapIsKnown
    /\ HeldPolicy /\ HeldTimeout /\ HeldCookie
    /\ SentPolicy /\ SentTimeout /\ SentCookie

\* Before any request nothing was put into the serializer.
LEMMA SharedInit == Init => SharedInv
  BY DEF Init, SharedInv, OverlapIsKnown, Preparing, Preparation, HeldPolicy, HeldTimeout,
         HeldCookie, SentPolicy, SentTimeout, SentCookie

\* A call makes the overlap known, and only adds to it.
LEMMA CallShares ==
    ASSUME TypeOK, SharedInv, NEW r \in Requests, Call(r) PROVE SharedInv'
<1>1. \A q \in Requests : during[q] \subseteq during'[q] \/ q = r
  BY DEF Call, TypeOK, Preparing
<1>2. \A q \in Requests : q # r => stage'[q] = stage[q]
  BY DEF Call, Goes, TypeOK
<1>3. stage'[r] = "cachePolicy" /\ stage[r] = "new"
  BY DEF Call, Goes, TypeOK
<1>4. OverlapIsKnown'
  <2> SUFFICES ASSUME NEW p \in Preparing', NEW q \in Preparing', p # q
               PROVE  q \in during'[p]
    BY DEF OverlapIsKnown
  <2>1. CASE p = r
    <3>1. q \in Preparing
      BY <1>2, <2>1 DEF Preparing
    <3> QED
      BY <2>1, <3>1 DEF Call, Preparing
  <2>2. CASE p # r
    <3>1. p \in Preparing
      BY <1>2, <2>2 DEF Preparing
    <3>2. during'[p] = during[p] \cup {r}
      BY <2>2, <3>1 DEF Call, Preparing
    <3>3. q = r \/ q \in Preparing
      BY <1>2 DEF Preparing
    <3> QED
      BY <3>1, <3>2, <3>3 DEF SharedInv, OverlapIsKnown
  <2> QED
    BY <2>1, <2>2
<1>5. UNCHANGED <<serializer, sent>>
  BY DEF Call
<1>6. (HeldPolicy /\ HeldTimeout /\ HeldCookie)'
  BY <1>1, <1>2, <1>3, <1>5 DEF SharedInv, HeldPolicy, HeldTimeout, HeldCookie
<1>7. (SentPolicy /\ SentTimeout /\ SentCookie)'
  BY <1>1, <1>2, <1>3, <1>5 DEF SharedInv, SentPolicy, SentTimeout, SentCookie
<1> QED
  BY <1>4, <1>6, <1>7 DEF SharedInv

\* A step of a request leaves the others where they are.
LEMMA StepGoes ==
    ASSUME TypeOK, NEW r \in Requests, Step(r)
    PROVE  /\ \A q \in Requests : q # r => stage'[q] = stage[q]
           /\ during' = during
           /\ stage[r] \in Preparation \cup {"sent"}
           /\ stage'[r] \in Preparation => stage[r] \in Preparation
  BY DEF TypeOK, Step, Goes, Preparation, SetCachePolicy, SetTimeout, SetCookie,
         MakeNoTask, RaiseOnURL, MakeRequest, AddHeaders, Answered, NotAnswered

\* A step of a request only ends its overlap with others.
LEMMA OverlapStays ==
    ASSUME TypeOK, SharedInv, NEW r \in Requests, Step(r) PROVE OverlapIsKnown'
<1>1. Preparing' \subseteq Preparing
  BY StepGoes DEF Preparing
<1> QED
  BY <1>1, StepGoes DEF SharedInv, OverlapIsKnown

\* A request that sets a field shares it with all that are being prepared.
LEMMA SettingShares ==
    ASSUME TypeOK, SharedInv, NEW r \in Requests,
           SetCachePolicy(r) \/ SetTimeout(r) \/ SetCookie(r)
    PROVE  SharedInv'
<1>1. Step(r)
  BY DEF Step
<1>2. /\ \A q \in Requests : q # r => stage'[q] = stage[q]
      /\ during' = during /\ sent' = sent
  BY <1>1, StepGoes DEF SetCachePolicy, SetTimeout, SetCookie
<1>3. r \in Preparing
  BY DEF Preparing, Preparation, SetCachePolicy, SetTimeout, SetCookie, Goes
<1>4. \A q \in Requests :
         q # r /\ stage[q] \in {"timeout", "cookie", "request", "headers"} => r \in during[q]
  BY <1>3 DEF SharedInv, OverlapIsKnown, Preparing, Preparation
<1>5. CASE SetCachePolicy(r)
  <2>1. /\ serializer'.cachePolicy = Own[r].cachePolicy
        /\ serializer'.timeout = serializer.timeout
        /\ serializer'.cookie = serializer.cookie
        /\ stage'[r] = "timeout"
    BY <1>5 DEF SetCachePolicy, TypeOK, Settings, Goes
  <2> QED
    BY <1>1, <1>2, <1>4, <2>1, OverlapStays
    DEF SharedInv, HeldPolicy, HeldTimeout, HeldCookie, SentPolicy, SentTimeout, SentCookie
<1>6. CASE SetTimeout(r)
  <2>1. /\ serializer'.cachePolicy = serializer.cachePolicy
        /\ serializer'.timeout = Own[r].timeout
        /\ serializer'.cookie = serializer.cookie
        /\ stage[r] = "timeout" /\ stage'[r] = "cookie"
    BY <1>6 DEF SetTimeout, TypeOK, Settings, Goes
  <2> QED
    BY <1>1, <1>2, <1>4, <2>1, OverlapStays
    DEF SharedInv, HeldPolicy, HeldTimeout, HeldCookie, SentPolicy, SentTimeout, SentCookie
<1>7. CASE SetCookie(r)
  <2>1. /\ serializer'.cachePolicy = serializer.cachePolicy
        /\ serializer'.timeout = serializer.timeout
        /\ serializer'.cookie = Own[r].cookie
        /\ stage[r] = "cookie" /\ stage'[r] = "request"
    BY <1>7 DEF SetCookie, TypeOK, Settings, Goes
  <2> QED
    BY <1>1, <1>2, <1>4, <2>1, OverlapStays
    DEF SharedInv, HeldPolicy, HeldTimeout, HeldCookie, SentPolicy, SentTimeout, SentCookie
<1> QED
  BY <1>5, <1>6, <1>7

\* A task takes what the serializer holds.
LEMMA TakingShares ==
    ASSUME TypeOK, SharedInv, NEW r \in Requests, MakeRequest(r) \/ AddHeaders(r)
    PROVE  SharedInv'
<1>1. Step(r)
  BY DEF Step
<1>2. /\ \A q \in Requests : q # r => stage'[q] = stage[q] /\ sent'[q] = sent[q]
      /\ during' = during /\ serializer' = serializer
  BY <1>1, StepGoes DEF MakeRequest, AddHeaders, TypeOK
<1>3. CASE MakeRequest(r)
  <2>1. /\ sent'[r].cachePolicy = serializer.cachePolicy
        /\ sent'[r].timeout = serializer.timeout
        /\ stage[r] = "request" /\ stage'[r] = "headers"
    BY <1>3 DEF MakeRequest, TypeOK, Settings, Goes
  <2> QED
    BY <1>1, <1>2, <2>1, OverlapStays
    DEF SharedInv, HeldPolicy, HeldTimeout, HeldCookie, SentPolicy, SentTimeout, SentCookie
<1>4. CASE AddHeaders(r)
  <2>1. /\ sent'[r].cachePolicy = sent[r].cachePolicy
        /\ sent'[r].timeout = sent[r].timeout
        /\ sent'[r].cookie = serializer.cookie
        /\ stage[r] = "headers" /\ stage'[r] = "sent"
    BY <1>4 DEF AddHeaders, TypeOK, Settings, Goes
  <2> QED
    BY <1>1, <1>2, <2>1, OverlapStays
    DEF SharedInv, HeldPolicy, HeldTimeout, HeldCookie, SentPolicy, SentTimeout, SentCookie
<1> QED
  BY <1>3, <1>4

\* A request that ends leaves serializer and settings alone.
LEMMA EndingShares ==
    ASSUME TypeOK, SharedInv, NEW r \in Requests,
           MakeNoTask(r) \/ RaiseOnURL(r) \/ Answered(r) \/ NotAnswered(r)
    PROVE  SharedInv'
<1>1. Step(r)
  BY DEF Step
<1>2. /\ \A q \in Requests : q # r => stage'[q] = stage[q]
      /\ during' = during /\ serializer' = serializer /\ sent' = sent
      /\ stage[r] = "sent" \/ stage'[r] \in {"noTask", "raised"}
      /\ stage'[r] \in {"answered", "noTask", "raised"}
  BY <1>1, StepGoes DEF MakeNoTask, RaiseOnURL, Answered, NotAnswered, Goes, TypeOK
<1> QED
  BY <1>1, <1>2, OverlapStays
  DEF SharedInv, HeldPolicy, HeldTimeout, HeldCookie, SentPolicy, SentTimeout, SentCookie

\* Every step keeps where the serializer's fields come from.
LEMMA SharedNext == TypeOK /\ SharedInv /\ [Next]_vars => SharedInv'
<1>1. SharedInv /\ UNCHANGED vars => SharedInv'
  BY DEF SharedInv, OverlapIsKnown, Preparing, HeldPolicy, HeldTimeout, HeldCookie,
         SentPolicy, SentTimeout, SentCookie, vars
<1> QED
  BY <1>1, CallShares, SettingShares, TakingShares, EndingShares DEF Next, Step

\* A request is only ever sent with its own settings or with those of a request
\* prepared at the same time.
THEOREM AgentMixesOnlyByOverlap == Spec => []SettingsAreMixedOnlyByOverlap
<1>1. SharedInv => SettingsAreMixedOnlyByOverlap
  BY DEF SharedInv, SentPolicy, SentTimeout, SentCookie, SettingsAreMixedOnlyByOverlap
<1> QED
  BY <1>1, SharedInit, SharedNext, AgentTypes, PTL DEF Spec
=============================================================================
