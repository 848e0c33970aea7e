------------------------ MODULE AuthorizationCodeProofs ------------------------
(***************************************************************************)
(* Proofs of the safety of AuthorizationCode, for any finite set of HTTP   *)
(* requests, any clients and challenges, and all bounds.                   *)
(***************************************************************************)
EXTENDS AuthorizationCode, FiniteSetTheorems, SequenceTheorems, TLAPS

-----------------------------------------------------------------------------
(* The inductive invariant. *)

\* What was drawn is a prefix of the ids, and only drawn ids are about.
RequestsDrawn ==
    /\ asked \in Seq(Asked) /\ Len(asked) = lastId
    /\ lastId \in 0..MaxRequest
    /\ requests \subseteq 1..lastId

CodesDrawn ==
    /\ minted \in Seq(Minted) /\ Len(minted) = lastCode
    /\ lastCode \in 0..MaxCode
    /\ codes \subseteq 1..lastCode /\ delivered \subseteq 1..lastCode
    /\ \A code \in 1..lastCode : minted[code].id \in 1..lastId

StepsTyped == pc \in [Req -> Step] /\ loc \in [Req -> Local]

ConsentsTyped == consents \in [Client -> 0..MaxConsent]

GrantsTyped ==
    grants \subseteq [code: 1..lastCode, client: Client, verifier: MaybeChallenge]

\* A login holds an id, an exchange a code, that was drawn, and a real client.
LocalsDrawn ==
    \A p \in Req :
       /\ pc[p] \in {"delRequest", "saveCode", "findConsent", "createConsent"} =>
             loc[p].id \in 1..lastId /\ loc[p].client \in Client
       /\ pc[p] \in {"findConsent", "createConsent"} => loc[p].code \in 1..lastCode
       /\ pc[p] \in {"delCode", "readConsent", "generate"} =>
             loc[p].code \in 1..lastCode /\ loc[p].client \in Client

AllDrawn == RequestsDrawn /\ CodesDrawn /\ LocalsDrawn /\ StepsTyped

\* Past the match, a login is about the request's own client, and the request,
\* like that of the code it has minted, is gone.
LoginMatched ==
    \A p \in Req :
       /\ At(p, "saveCode") =>
             asked[loc[p].id].client = loc[p].client /\ loc[p].id \notin requests
       /\ pc[p] \in {"findConsent", "createConsent"} =>
             /\ minted[loc[p].code].client = loc[p].client
             /\ minted[loc[p].code].id \notin requests

\* A code whose verifier was accepted is gone, and the verifier is its own
\* challenge unless a confidential client sent none.
ExchangeProved ==
    \A p \in Req :
       /\ At(p, "delCode") => FlowAllowed(loc[p].client, loc[p].verifier)
       /\ pc[p] \in {"readConsent", "generate"} =>
             /\ loc[p].code \notin codes
             /\ FlowAllowed(loc[p].client, loc[p].verifier)
             /\ loc[p].verifier \in {NoChallenge, minted[loc[p].code].challenge}

\* The requests about to add a consent for a client: there are some only until
\* the first row is there.
Creators(client) == {p \in Req : pc[p] = "createConsent" /\ loc[p].client = client}

CreatorsFit ==
    \A client \in Client : consents[client] + Cardinality(Creators(client)) <= Cardinality(Req)

\* What a step does to the two tables of what was drawn.
AskedGrows ==
    lastId <= lastId' /\ \A id \in 1..lastId : asked'[id] = asked[id]

MintedGrows ==
    lastCode <= lastCode' /\ \A code \in 1..lastCode : minted'[code] = minted[code]

IInv ==
    /\ AllDrawn /\ ConsentsTyped /\ GrantsTyped
    /\ LoginMatched /\ ExchangeProved /\ CreatorsFit
    /\ DeliveredHasConsent /\ ConsumedIsGone /\ PublicGrantProved

USE DEF redis, drawn, history, At, AllDrawn

-----------------------------------------------------------------------------
(* What every step preserves, part by part. *)

\* A request stands at one of the steps, and what it remembers keeps its type.
LEMMA StepsTypedStep ==
    StepsTyped /\ RequestsDrawn /\ CodesDrawn /\ [Next]_vars => StepsTyped'
  <1> SUFFICES ASSUME StepsTyped /\ RequestsDrawn /\ CodesDrawn, [Next]_vars
               PROVE  StepsTyped'
    OBVIOUS
  <1>a. /\ pc \in [Req -> Step] /\ loc \in [Req -> Local] /\ NewCode \in Nat
        /\ MaxRequest \in Nat /\ MaxCode \in Nat /\ lastCode \in Nat
    BY ConstantsAssumption DEF StepsTyped, CodesDrawn, NewCode
  <1> USE DEF Goto, Leave, NoLocal, Local
  <1>1. ASSUME NEW client \in Client, NEW ch \in MaybeChallenge,
               NEW m \in Method, Authorize(client, ch, m)
        PROVE  StepsTyped'
    BY <1>1, <1>a DEF Authorize, StepsTyped, Step, Id, Code, MaybeChallenge, NewCode
  <1>2. ASSUME NEW id \in Id, RequestLapse(id) PROVE StepsTyped'
    BY <1>2, <1>a DEF RequestLapse, StepsTyped, Step, Id, Code, MaybeChallenge, NewCode
  <1>3. ASSUME NEW code \in Code, CodeLapse(code) PROVE StepsTyped'
    BY <1>3, <1>a DEF CodeLapse, StepsTyped, Step, Id, Code, MaybeChallenge, NewCode
  <1>4. ASSUME NEW p \in Req, NEW id \in Id,
               NEW client \in Client, LoginGet(p, id, client)
        PROVE  StepsTyped'
    BY <1>4, <1>a DEF LoginGet, StepsTyped, Step, Id, Code, MaybeChallenge, NewCode
  <1>5. ASSUME NEW p \in Req, LoginDelete(p) PROVE StepsTyped'
    BY <1>5, <1>a DEF LoginDelete, StepsTyped, Step, Id, Code, MaybeChallenge, NewCode
  <1>6. ASSUME NEW p \in Req, LoginSaveCode(p) PROVE StepsTyped'
    <2> DEFINE new == [loc[p] EXCEPT !.code = NewCode]
    <2>1. NewCode \in 0..MaxCode
      BY <1>6, <1>a, ConstantsAssumption DEF LoginSaveCode, NewCode
    <2>2. new \in Local
      BY <1>a, <2>1
    <2>3. loc' = [loc EXCEPT ![p] = new]
      BY <1>6, <1>a DEF LoginSaveCode
    <2>4. pc' \in [Req -> Step]
      BY <1>6, <1>a DEF LoginSaveCode, Step
    <2> QED
      BY <2>2, <2>3, <2>4, <1>a DEF StepsTyped
  <1>7. ASSUME NEW p \in Req, LoginFindConsent(p) PROVE StepsTyped'
    BY <1>7, <1>a DEF LoginFindConsent, StepsTyped, Step, Id, Code, MaybeChallenge,
       NewCode
  <1>8. ASSUME NEW p \in Req, LoginCreateConsent(p) PROVE StepsTyped'
    BY <1>8, <1>a DEF LoginCreateConsent, StepsTyped, Step, Id, Code, MaybeChallenge,
       NewCode
  <1>9. ASSUME NEW p \in Req, NEW code \in Code, NEW client \in Client,
               NEW v \in MaybeChallenge, ExchangeGet(p, code, client, v)
        PROVE  StepsTyped'
    BY <1>9, <1>a DEF ExchangeGet, StepsTyped, Step, Id, Code, MaybeChallenge, NewCode
  <1>10. ASSUME NEW p \in Req, ExchangeDelete(p) PROVE StepsTyped'
    BY <1>10, <1>a DEF ExchangeDelete, StepsTyped, Step, Id, Code, MaybeChallenge,
       NewCode
  <1>11. ASSUME NEW p \in Req, ExchangeReadConsent(p) PROVE StepsTyped'
    BY <1>11, <1>a DEF ExchangeReadConsent, StepsTyped, Step, Id, Code,
       MaybeChallenge, NewCode
  <1>12. ASSUME NEW p \in Req, ExchangeGenerate(p) PROVE StepsTyped'
    BY <1>12, <1>a DEF ExchangeGenerate, StepsTyped, Step, Id, Code, MaybeChallenge,
       NewCode
  <1>13. ASSUME NEW p \in Req, Abort(p) PROVE StepsTyped'
    BY <1>13, <1>a DEF Abort, StepsTyped, Step, Id, Code, MaybeChallenge, NewCode
  <1>14. CASE UNCHANGED vars
    BY <1>14, <1>a DEF vars, StepsTyped, Step, Id, Code, MaybeChallenge, NewCode
  <1> QED
    BY <1>1, <1>2, <1>3, <1>4, <1>5, <1>6, <1>7, <1>8, <1>9, <1>10, <1>11, <1>12,
       <1>13, <1>14 DEF Next

\* The authorization requests are only added to.
LEMMA RequestsDrawnStep == RequestsDrawn /\ [Next]_vars => RequestsDrawn' /\ AskedGrows
  <1> SUFFICES ASSUME RequestsDrawn, [Next]_vars PROVE RequestsDrawn' /\ AskedGrows
    OBVIOUS
  <1>1. ASSUME NEW client \in Client, NEW ch \in MaybeChallenge,
               NEW m \in Method, Authorize(client, ch, m)
        PROVE  RequestsDrawn' /\ AskedGrows
    <2> DEFINE e == [client |-> client, challenge |-> ch]
    <2>1. e \in Asked
      BY DEF Asked
    <2>2. /\ asked' = Append(asked, e) /\ asked \in Seq(Asked) /\ Len(asked) = lastId
          /\ lastId' = lastId + 1 /\ lastId' \in 0..MaxRequest
          /\ requests' = requests \cup {lastId + 1} /\ requests \subseteq 1..lastId
      BY <1>1, ConstantsAssumption DEF Authorize, RequestsDrawn
    <2>3. /\ asked' \in Seq(Asked) /\ Len(asked') = lastId'
          /\ \A id \in 1..lastId : asked'[id] = asked[id]
      BY <2>1, <2>2, AppendProperties
    <2>4. requests' \subseteq 1..lastId' /\ lastId <= lastId'
      <3>1. lastId \in Nat
        BY <2>2, ConstantsAssumption
      <3> QED
        BY <2>2, <3>1
    <2> QED
      BY <2>2, <2>3, <2>4 DEF RequestsDrawn, AskedGrows
  <1>2. ASSUME NEW id \in Id, RequestLapse(id) PROVE RequestsDrawn' /\ AskedGrows
    BY <1>2 DEF RequestLapse, RequestsDrawn, AskedGrows, Del
  <1>3. ASSUME NEW code \in Code, CodeLapse(code) PROVE RequestsDrawn' /\ AskedGrows
    BY <1>3 DEF CodeLapse, RequestsDrawn, AskedGrows, Del
  <1>4. ASSUME NEW p \in Req, NEW id \in Id,
               NEW client \in Client, LoginGet(p, id, client)
        PROVE  RequestsDrawn' /\ AskedGrows
    BY <1>4 DEF LoginGet, RequestsDrawn, AskedGrows, Del
  <1>5. ASSUME NEW p \in Req, LoginDelete(p) PROVE RequestsDrawn' /\ AskedGrows
    <2>1. UNCHANGED <<asked, lastId>> /\ requests' \subseteq requests
      BY <1>5 DEF LoginDelete, Del
    <2> QED
      BY <2>1 DEF RequestsDrawn, AskedGrows
  <1>6. ASSUME NEW p \in Req, LoginSaveCode(p) PROVE RequestsDrawn' /\ AskedGrows
    BY <1>6 DEF LoginSaveCode, RequestsDrawn, AskedGrows, Del
  <1>7. ASSUME NEW p \in Req, LoginFindConsent(p) PROVE RequestsDrawn' /\ AskedGrows
    BY <1>7 DEF LoginFindConsent, RequestsDrawn, AskedGrows, Del
  <1>8. ASSUME NEW p \in Req, LoginCreateConsent(p) PROVE RequestsDrawn' /\ AskedGrows
    BY <1>8 DEF LoginCreateConsent, RequestsDrawn, AskedGrows, Del
  <1>9. ASSUME NEW p \in Req, NEW code \in Code, NEW client \in Client,
               NEW v \in MaybeChallenge, ExchangeGet(p, code, client, v)
        PROVE  RequestsDrawn' /\ AskedGrows
    BY <1>9 DEF ExchangeGet, RequestsDrawn, AskedGrows, Del
  <1>10. ASSUME NEW p \in Req, ExchangeDelete(p) PROVE RequestsDrawn' /\ AskedGrows
    BY <1>10 DEF ExchangeDelete, RequestsDrawn, AskedGrows, Del
  <1>11. ASSUME NEW p \in Req, ExchangeReadConsent(p) PROVE RequestsDrawn' /\ AskedGrows
    BY <1>11 DEF ExchangeReadConsent, RequestsDrawn, AskedGrows, Del
  <1>12. ASSUME NEW p \in Req, ExchangeGenerate(p) PROVE RequestsDrawn' /\ AskedGrows
    BY <1>12 DEF ExchangeGenerate, RequestsDrawn, AskedGrows, Del
  <1>13. ASSUME NEW p \in Req, Abort(p) PROVE RequestsDrawn' /\ AskedGrows
    BY <1>13 DEF Abort, RequestsDrawn, AskedGrows, Del
  <1>14. CASE UNCHANGED vars
    BY <1>14 DEF vars, RequestsDrawn, AskedGrows, Del
  <1> QED
    BY <1>1, <1>2, <1>3, <1>4, <1>5, <1>6, <1>7, <1>8, <1>9, <1>10, <1>11, <1>12,
       <1>13, <1>14 DEF Next

\* The codes are only added to, and each belongs to an authorization request.
LEMMA CodesDrawnStep == AllDrawn /\ [Next]_vars => CodesDrawn' /\ MintedGrows
  <1> SUFFICES ASSUME AllDrawn, [Next]_vars PROVE CodesDrawn' /\ MintedGrows
    OBVIOUS
  <1>a. /\ lastId <= lastId' /\ lastId \in Nat /\ lastId' \in Nat /\ lastCode \in Nat
        /\ pc \in [Req -> Step] /\ loc \in [Req -> Local]
    BY RequestsDrawnStep, ConstantsAssumption
    DEF RequestsDrawn, CodesDrawn, StepsTyped, AskedGrows
  <1>1. ASSUME NEW client \in Client, NEW ch \in MaybeChallenge,
               NEW m \in Method, Authorize(client, ch, m)
        PROVE  CodesDrawn' /\ MintedGrows
    <2>1. UNCHANGED <<codes, minted, delivered, lastCode>>
      BY <1>1 DEF Authorize
    <2> QED
      BY <2>1, <1>a DEF CodesDrawn, MintedGrows
  <1>2. ASSUME NEW id \in Id, RequestLapse(id) PROVE CodesDrawn' /\ MintedGrows
    BY <1>2, <1>a DEF RequestLapse, CodesDrawn, MintedGrows, Del
  <1>3. ASSUME NEW code \in Code, CodeLapse(code) PROVE CodesDrawn' /\ MintedGrows
    BY <1>3, <1>a DEF CodeLapse, CodesDrawn, MintedGrows, Del
  <1>4. ASSUME NEW p \in Req, NEW id \in Id,
               NEW client \in Client, LoginGet(p, id, client)
        PROVE  CodesDrawn' /\ MintedGrows
    BY <1>4, <1>a DEF LoginGet, CodesDrawn, MintedGrows, Del
  <1>5. ASSUME NEW p \in Req, LoginDelete(p) PROVE CodesDrawn' /\ MintedGrows
    <2>1. UNCHANGED <<codes, minted, delivered, lastId, lastCode>>
      BY <1>5 DEF LoginDelete
    <2> QED
      BY <2>1, <1>a DEF CodesDrawn, MintedGrows
  <1>6. ASSUME NEW p \in Req, LoginSaveCode(p) PROVE CodesDrawn' /\ MintedGrows
    <2> DEFINE e == [id |-> loc[p].id, client |-> asked[loc[p].id].client,
                   challenge |-> asked[loc[p].id].challenge]
    <2>1. loc[p].id \in 1..lastId /\ lastId \in 0..MaxRequest
      BY <1>6 DEF LoginSaveCode, LocalsDrawn, RequestsDrawn
    <2>2. e \in Minted
      <3>1. asked[loc[p].id] \in Asked
        BY <2>1 DEF RequestsDrawn
      <3>2. loc[p].id \in Id
        BY <2>1, ConstantsAssumption DEF Id
      <3> QED
        BY <3>1, <3>2 DEF Asked, Minted
    <2>3. /\ minted' = Append(minted, e) /\ minted \in Seq(Minted) /\ Len(minted) = lastCode
          /\ lastCode' = lastCode + 1 /\ lastCode' \in 0..MaxCode
          /\ codes' = codes \cup {lastCode + 1} /\ codes \subseteq 1..lastCode
          /\ delivered' = delivered /\ delivered \subseteq 1..lastCode
          /\ lastId' = lastId
      BY <1>6, ConstantsAssumption DEF LoginSaveCode, CodesDrawn, NewCode
    <2>4. /\ minted' \in Seq(Minted) /\ Len(minted') = lastCode'
          /\ \A code \in 1..lastCode : minted'[code] = minted[code]
          /\ minted'[lastCode + 1] = e
      BY <2>2, <2>3, AppendProperties
    <2>5. codes' \subseteq 1..lastCode' /\ delivered' \subseteq 1..lastCode'
      BY <2>3, <1>a
    <2>6. \A code \in 1..lastCode' : minted'[code].id \in 1..lastId'
      <3>1. \A code \in 1..lastCode' : code \in 1..lastCode \/ code = lastCode + 1
        BY <2>3, <1>a
      <3> QED
        BY <2>1, <2>3, <2>4, <3>1 DEF CodesDrawn
    <2> HIDE DEF e
    <2>7. MintedGrows
      BY <1>a, <2>3, <2>4 DEF MintedGrows
    <2>8. CodesDrawn'
      BY <2>3, <2>4, <2>5, <2>6 DEF CodesDrawn
    <2> QED
      BY <2>7, <2>8
  <1>7. ASSUME NEW p \in Req, LoginFindConsent(p) PROVE CodesDrawn' /\ MintedGrows
    <2>1. /\ UNCHANGED <<codes, minted, lastId, lastCode>>
          /\ delivered' \subseteq delivered \cup {loc[p].code}
          /\ loc[p].code \in 1..lastCode
      BY <1>7 DEF LoginFindConsent, LocalsDrawn
    <2> QED
      BY <2>1, <1>a DEF CodesDrawn, MintedGrows
  <1>8. ASSUME NEW p \in Req, LoginCreateConsent(p) PROVE CodesDrawn' /\ MintedGrows
    <2>1. /\ UNCHANGED <<codes, minted, lastId, lastCode>>
          /\ delivered' = delivered \cup {loc[p].code}
          /\ loc[p].code \in 1..lastCode
      BY <1>8 DEF LoginCreateConsent, LocalsDrawn
    <2>2. delivered' \subseteq 1..lastCode
      BY <2>1 DEF CodesDrawn
    <2> QED
      BY <2>1, <2>2, <1>a DEF CodesDrawn, MintedGrows
  <1>9. ASSUME NEW p \in Req, NEW code \in Code, NEW client \in Client,
               NEW v \in MaybeChallenge, ExchangeGet(p, code, client, v)
        PROVE  CodesDrawn' /\ MintedGrows
    BY <1>9, <1>a DEF ExchangeGet, CodesDrawn, MintedGrows, Del
  <1>10. ASSUME NEW p \in Req, ExchangeDelete(p) PROVE CodesDrawn' /\ MintedGrows
    <2>1. UNCHANGED <<minted, delivered, lastId, lastCode>> /\ codes' \subseteq codes
      BY <1>10 DEF ExchangeDelete, Del
    <2> QED
      BY <2>1, <1>a DEF CodesDrawn, MintedGrows
  <1>11. ASSUME NEW p \in Req, ExchangeReadConsent(p) PROVE CodesDrawn' /\ MintedGrows
    BY <1>11, <1>a DEF ExchangeReadConsent, CodesDrawn, MintedGrows, Del
  <1>12. ASSUME NEW p \in Req, ExchangeGenerate(p) PROVE CodesDrawn' /\ MintedGrows
    BY <1>12, <1>a DEF ExchangeGenerate, CodesDrawn, MintedGrows, Del
  <1>13. ASSUME NEW p \in Req, Abort(p) PROVE CodesDrawn' /\ MintedGrows
    BY <1>13, <1>a DEF Abort, CodesDrawn, MintedGrows, Del
  <1>14. CASE UNCHANGED vars
    BY <1>14, <1>a DEF vars, CodesDrawn, MintedGrows, Del
  <1> QED
    BY <1>1, <1>2, <1>3, <1>4, <1>5, <1>6, <1>7, <1>8, <1>9, <1>10, <1>11, <1>12,
       <1>13, <1>14 DEF Next

\* What the other parts need of the two lemmas above.
LEMMA DrawnKept ==
    AllDrawn /\ [Next]_vars =>
        /\ lastId \in Nat /\ lastId' \in Nat /\ lastId <= lastId'
        /\ lastCode \in Nat /\ lastCode' \in Nat /\ lastCode <= lastCode'
        /\ \A id \in 1..lastId : asked'[id] = asked[id]
        /\ \A code \in 1..lastCode : minted'[code] = minted[code]
  BY RequestsDrawnStep, CodesDrawnStep, ConstantsAssumption
  DEF RequestsDrawn, CodesDrawn, AskedGrows, MintedGrows

\* The number of rows keeps its type.
LEMMA ConsentsTypedStep == ConsentsTyped /\ [Next]_vars => ConsentsTyped'
  <1> SUFFICES ASSUME ConsentsTyped, [Next]_vars PROVE ConsentsTyped'
    OBVIOUS
  <1>1. ASSUME NEW client \in Client, NEW ch \in MaybeChallenge,
               NEW m \in Method, Authorize(client, ch, m)
        PROVE  ConsentsTyped'
    BY <1>1, ConstantsAssumption DEF Authorize, ConsentsTyped
  <1>2. ASSUME NEW id \in Id, RequestLapse(id) PROVE ConsentsTyped'
    BY <1>2, ConstantsAssumption DEF RequestLapse, ConsentsTyped
  <1>3. ASSUME NEW code \in Code, CodeLapse(code) PROVE ConsentsTyped'
    BY <1>3, ConstantsAssumption DEF CodeLapse, ConsentsTyped
  <1>4. ASSUME NEW p \in Req, NEW id \in Id,
               NEW client \in Client, LoginGet(p, id, client)
        PROVE  ConsentsTyped'
    BY <1>4, ConstantsAssumption DEF LoginGet, ConsentsTyped
  <1>5. ASSUME NEW p \in Req, LoginDelete(p) PROVE ConsentsTyped'
    BY <1>5, ConstantsAssumption DEF LoginDelete, ConsentsTyped
  <1>6. ASSUME NEW p \in Req, LoginSaveCode(p) PROVE ConsentsTyped'
    BY <1>6, ConstantsAssumption DEF LoginSaveCode, ConsentsTyped
  <1>7. ASSUME NEW p \in Req, LoginFindConsent(p) PROVE ConsentsTyped'
    BY <1>7, ConstantsAssumption DEF LoginFindConsent, ConsentsTyped
  <1>8. ASSUME NEW p \in Req, LoginCreateConsent(p) PROVE ConsentsTyped'
    <2> DEFINE c == loc[p].client
    <2>1. c \in Client => consents[c] + 1 \in 0..MaxConsent
      BY <1>8, ConstantsAssumption DEF LoginCreateConsent, ConsentsTyped
    <2>2. consents' = [consents EXCEPT ![c] = consents[c] + 1]
      BY <1>8 DEF LoginCreateConsent
    <2> QED
      BY <2>1, <2>2 DEF ConsentsTyped
  <1>9. ASSUME NEW p \in Req, NEW code \in Code, NEW client \in Client,
               NEW v \in MaybeChallenge, ExchangeGet(p, code, client, v)
        PROVE  ConsentsTyped'
    BY <1>9, ConstantsAssumption DEF ExchangeGet, ConsentsTyped
  <1>10. ASSUME NEW p \in Req, ExchangeDelete(p) PROVE ConsentsTyped'
    BY <1>10, ConstantsAssumption DEF ExchangeDelete, ConsentsTyped
  <1>11. ASSUME NEW p \in Req, ExchangeReadConsent(p) PROVE ConsentsTyped'
    BY <1>11, ConstantsAssumption DEF ExchangeReadConsent, ConsentsTyped
  <1>12. ASSUME NEW p \in Req, ExchangeGenerate(p) PROVE ConsentsTyped'
    BY <1>12, ConstantsAssumption DEF ExchangeGenerate, ConsentsTyped
  <1>13. ASSUME NEW p \in Req, Abort(p) PROVE ConsentsTyped'
    BY <1>13, ConstantsAssumption DEF Abort, ConsentsTyped
  <1>14. CASE UNCHANGED vars
    BY <1>14, ConstantsAssumption DEF vars, ConsentsTyped
  <1> QED
    BY <1>1, <1>2, <1>3, <1>4, <1>5, <1>6, <1>7, <1>8, <1>9, <1>10, <1>11, <1>12,
       <1>13, <1>14 DEF Next

\* Only drawn codes are exchanged.
LEMMA GrantsTypedStep == AllDrawn /\ GrantsTyped /\ [Next]_vars => GrantsTyped'
  <1> SUFFICES ASSUME AllDrawn /\ GrantsTyped, [Next]_vars PROVE GrantsTyped'
    OBVIOUS
  <1>a. /\ lastId \in Nat /\ lastId' \in Nat /\ lastId <= lastId'
        /\ lastCode \in Nat /\ lastCode' \in Nat /\ lastCode <= lastCode'
        /\ \A id \in 1..lastId : asked'[id] = asked[id]
        /\ \A code \in 1..lastCode : minted'[code] = minted[code]
    BY DrawnKept
  <1>b. pc \in [Req -> Step] /\ loc \in [Req -> Local]
    BY DEF StepsTyped
  <1> USE DEF Goto, Leave, NoLocal
  <1>1. ASSUME NEW client \in Client, NEW ch \in MaybeChallenge,
               NEW m \in Method, Authorize(client, ch, m)
        PROVE  GrantsTyped'
    BY <1>1, <1>a, <1>b DEF Authorize, GrantsTyped, LocalsDrawn, Local
  <1>2. ASSUME NEW id \in Id, RequestLapse(id) PROVE GrantsTyped'
    BY <1>2, <1>a, <1>b DEF RequestLapse, GrantsTyped, LocalsDrawn, Local
  <1>3. ASSUME NEW code \in Code, CodeLapse(code) PROVE GrantsTyped'
    BY <1>3, <1>a, <1>b DEF CodeLapse, GrantsTyped, LocalsDrawn, Local
  <1>4. ASSUME NEW p \in Req, NEW id \in Id,
               NEW client \in Client, LoginGet(p, id, client)
        PROVE  GrantsTyped'
    BY <1>4, <1>a, <1>b DEF LoginGet, GrantsTyped, LocalsDrawn, Local
  <1>5. ASSUME NEW p \in Req, LoginDelete(p) PROVE GrantsTyped'
    BY <1>5, <1>a, <1>b DEF LoginDelete, GrantsTyped, LocalsDrawn, Local
  <1>6. ASSUME NEW p \in Req, LoginSaveCode(p) PROVE GrantsTyped'
    BY <1>6, <1>a, <1>b DEF LoginSaveCode, GrantsTyped, LocalsDrawn, Local
  <1>7. ASSUME NEW p \in Req, LoginFindConsent(p) PROVE GrantsTyped'
    BY <1>7, <1>a, <1>b DEF LoginFindConsent, GrantsTyped, LocalsDrawn, Local
  <1>8. ASSUME NEW p \in Req, LoginCreateConsent(p) PROVE GrantsTyped'
    BY <1>8, <1>a, <1>b DEF LoginCreateConsent, GrantsTyped, LocalsDrawn, Local
  <1>9. ASSUME NEW p \in Req, NEW code \in Code, NEW client \in Client,
               NEW v \in MaybeChallenge, ExchangeGet(p, code, client, v)
        PROVE  GrantsTyped'
    BY <1>9, <1>a, <1>b DEF ExchangeGet, GrantsTyped, LocalsDrawn, Local
  <1>10. ASSUME NEW p \in Req, ExchangeDelete(p) PROVE GrantsTyped'
    BY <1>10, <1>a, <1>b DEF ExchangeDelete, GrantsTyped, LocalsDrawn, Local
  <1>11. ASSUME NEW p \in Req, ExchangeReadConsent(p) PROVE GrantsTyped'
    BY <1>11, <1>a, <1>b DEF ExchangeReadConsent, GrantsTyped, LocalsDrawn, Local
  <1>12. ASSUME NEW p \in Req, ExchangeGenerate(p) PROVE GrantsTyped'
    BY <1>12, <1>a, <1>b DEF ExchangeGenerate, GrantsTyped, LocalsDrawn, Local
  <1>13. ASSUME NEW p \in Req, Abort(p) PROVE GrantsTyped'
    BY <1>13, <1>a, <1>b DEF Abort, GrantsTyped, LocalsDrawn, Local
  <1>14. CASE UNCHANGED vars
    BY <1>14, <1>a, <1>b DEF vars, GrantsTyped, LocalsDrawn, Local
  <1> QED
    BY <1>1, <1>2, <1>3, <1>4, <1>5, <1>6, <1>7, <1>8, <1>9, <1>10, <1>11, <1>12,
       <1>13, <1>14 DEF Next

\* What a request holds was drawn: it was found in Redis, or is its own.
LEMMA LocalsDrawnStep == AllDrawn /\ [Next]_vars => LocalsDrawn'
  <1> SUFFICES ASSUME AllDrawn, [Next]_vars PROVE LocalsDrawn'
    OBVIOUS
  <1>a. /\ lastId \in Nat /\ lastId' \in Nat /\ lastId <= lastId'
        /\ lastCode \in Nat /\ lastCode' \in Nat /\ lastCode <= lastCode'
        /\ \A id \in 1..lastId : asked'[id] = asked[id]
        /\ \A code \in 1..lastCode : minted'[code] = minted[code]
    BY DrawnKept
  <1>b. pc \in [Req -> Step] /\ loc \in [Req -> Local]
    BY DEF StepsTyped
  <1> USE DEF Goto, Leave, NoLocal
  <1>1. ASSUME NEW client \in Client, NEW ch \in MaybeChallenge,
               NEW m \in Method, Authorize(client, ch, m)
        PROVE  LocalsDrawn'
    BY <1>1, <1>a, <1>b DEF Authorize, LocalsDrawn, RequestsDrawn, CodesDrawn, NewCode
  <1>2. ASSUME NEW id \in Id, RequestLapse(id) PROVE LocalsDrawn'
    BY <1>2, <1>a, <1>b DEF RequestLapse, LocalsDrawn, RequestsDrawn, CodesDrawn,
       NewCode
  <1>3. ASSUME NEW code \in Code, CodeLapse(code) PROVE LocalsDrawn'
    BY <1>3, <1>a, <1>b DEF CodeLapse, LocalsDrawn, RequestsDrawn, CodesDrawn, NewCode
  <1>4. ASSUME NEW p \in Req, NEW id \in Id,
               NEW client \in Client, LoginGet(p, id, client)
        PROVE  LocalsDrawn'
    BY <1>4, <1>a, <1>b DEF LoginGet, LocalsDrawn, RequestsDrawn, CodesDrawn, NewCode
  <1>5. ASSUME NEW p \in Req, LoginDelete(p) PROVE LocalsDrawn'
    BY <1>5, <1>a, <1>b DEF LoginDelete, LocalsDrawn, RequestsDrawn, CodesDrawn, NewCode
  <1>6. ASSUME NEW p \in Req, LoginSaveCode(p) PROVE LocalsDrawn'
    BY <1>6, <1>a, <1>b DEF LoginSaveCode, LocalsDrawn, RequestsDrawn, CodesDrawn,
       NewCode
  <1>7. ASSUME NEW p \in Req, LoginFindConsent(p) PROVE LocalsDrawn'
    BY <1>7, <1>a, <1>b DEF LoginFindConsent, LocalsDrawn, RequestsDrawn, CodesDrawn,
       NewCode
  <1>8. ASSUME NEW p \in Req, LoginCreateConsent(p) PROVE LocalsDrawn'
    BY <1>8, <1>a, <1>b DEF LoginCreateConsent, LocalsDrawn, RequestsDrawn,
       CodesDrawn, NewCode
  <1>9. ASSUME NEW p \in Req, NEW code \in Code, NEW client \in Client,
               NEW v \in MaybeChallenge, ExchangeGet(p, code, client, v)
        PROVE  LocalsDrawn'
    BY <1>9, <1>a, <1>b DEF ExchangeGet, LocalsDrawn, RequestsDrawn, CodesDrawn, NewCode
  <1>10. ASSUME NEW p \in Req, ExchangeDelete(p) PROVE LocalsDrawn'
    BY <1>10, <1>a, <1>b DEF ExchangeDelete, LocalsDrawn, RequestsDrawn, CodesDrawn,
       NewCode
  <1>11. ASSUME NEW p \in Req, ExchangeReadConsent(p) PROVE LocalsDrawn'
    BY <1>11, <1>a, <1>b DEF ExchangeReadConsent, LocalsDrawn, RequestsDrawn,
       CodesDrawn, NewCode
  <1>12. ASSUME NEW p \in Req, ExchangeGenerate(p) PROVE LocalsDrawn'
    BY <1>12, <1>a, <1>b DEF ExchangeGenerate, LocalsDrawn, RequestsDrawn, CodesDrawn,
       NewCode
  <1>13. ASSUME NEW p \in Req, Abort(p) PROVE LocalsDrawn'
    BY <1>13, <1>a, <1>b DEF Abort, LocalsDrawn, RequestsDrawn, CodesDrawn, NewCode
  <1>14. CASE UNCHANGED vars
    BY <1>14, <1>a, <1>b DEF vars, LocalsDrawn, RequestsDrawn, CodesDrawn, NewCode
  <1> QED
    BY <1>1, <1>2, <1>3, <1>4, <1>5, <1>6, <1>7, <1>8, <1>9, <1>10, <1>11, <1>12,
       <1>13, <1>14 DEF Next

\* A login goes on only after the request was deleted and matched.
LEMMA LoginMatchedStep == AllDrawn /\ LoginMatched /\ [Next]_vars => LoginMatched'
  <1> SUFFICES ASSUME AllDrawn /\ LoginMatched, [Next]_vars PROVE LoginMatched'
    OBVIOUS
  <1>a. /\ lastId \in Nat /\ lastId' \in Nat /\ lastId <= lastId'
        /\ lastCode \in Nat /\ lastCode' \in Nat /\ lastCode <= lastCode'
        /\ \A id \in 1..lastId : asked'[id] = asked[id]
        /\ \A code \in 1..lastCode : minted'[code] = minted[code]
    BY DrawnKept
  <1>b. pc \in [Req -> Step] /\ loc \in [Req -> Local]
    BY DEF StepsTyped
  <1> USE DEF Goto, Leave, NoLocal
  <1>1. ASSUME NEW client \in Client, NEW ch \in MaybeChallenge,
               NEW m \in Method, Authorize(client, ch, m)
        PROVE  LoginMatched'
    <2>1. pc' = pc /\ loc' = loc /\ requests' \subseteq requests \cup {lastId + 1}
      BY <1>1 DEF Authorize
    <2>2. \A q \in Req : pc[q] \in {"findConsent", "createConsent"} =>
             minted[loc[q].code].id \in 1..lastId
      BY DEF LocalsDrawn, CodesDrawn
    <2> QED
      BY <2>1, <2>2, <1>a DEF LoginMatched, LocalsDrawn
  <1>2. ASSUME NEW id \in Id, RequestLapse(id) PROVE LoginMatched'
    BY <1>2, <1>a, <1>b DEF RequestLapse, LoginMatched, LocalsDrawn, QueryMatches, Del
  <1>3. ASSUME NEW code \in Code, CodeLapse(code) PROVE LoginMatched'
    BY <1>3, <1>a, <1>b DEF CodeLapse, LoginMatched, LocalsDrawn, QueryMatches, Del
  <1>4. ASSUME NEW p \in Req, NEW id \in Id,
               NEW client \in Client, LoginGet(p, id, client)
        PROVE  LoginMatched'
    BY <1>4, <1>a, <1>b DEF LoginGet, LoginMatched, LocalsDrawn, QueryMatches, Del
  <1>5. ASSUME NEW p \in Req, LoginDelete(p) PROVE LoginMatched'
    BY <1>5, <1>a, <1>b DEF LoginDelete, LoginMatched, LocalsDrawn, QueryMatches, Del
  <1>6. ASSUME NEW p \in Req, LoginSaveCode(p) PROVE LoginMatched'
    <2>1. /\ minted'[lastCode + 1].client = loc[p].client
          /\ minted'[lastCode + 1].id = loc[p].id
      <3>1. Len(minted') = Len(minted) + 1 /\ Len(minted) = lastCode
        BY <1>6, CodesDrawnStep, <1>a DEF LoginSaveCode, CodesDrawn, NewCode
      <3>2. minted'[Len(minted) + 1].client = asked[loc[p].id].client
            /\ minted'[Len(minted) + 1].id = loc[p].id
        BY <1>6, <3>1, <1>a DEF LoginSaveCode, CodesDrawn
      <3> QED
        BY <1>6, <3>1, <3>2 DEF LoginSaveCode, LoginMatched
    <2>2. loc[p].id \notin requests /\ requests' = requests /\ asked' = asked
      BY <1>6 DEF LoginSaveCode, LoginMatched
    <2>3. /\ pc'[p] = "findConsent" /\ loc'[p].code = lastCode + 1
          /\ loc'[p].client = loc[p].client
          /\ \A q \in Req : q # p => pc'[q] = pc[q] /\ loc'[q] = loc[q]
      BY <1>6, <1>b DEF LoginSaveCode, NewCode, Local
    <2> QED
      BY <2>1, <2>2, <2>3, <1>a DEF LoginMatched, LocalsDrawn
  <1>7. ASSUME NEW p \in Req, LoginFindConsent(p) PROVE LoginMatched'
    BY <1>7, <1>a, <1>b DEF LoginFindConsent, LoginMatched, LocalsDrawn, QueryMatches,
       Del
  <1>8. ASSUME NEW p \in Req, LoginCreateConsent(p) PROVE LoginMatched'
    BY <1>8, <1>a, <1>b DEF LoginCreateConsent, LoginMatched, LocalsDrawn,
       QueryMatches, Del
  <1>9. ASSUME NEW p \in Req, NEW code \in Code, NEW client \in Client,
               NEW v \in MaybeChallenge, ExchangeGet(p, code, client, v)
        PROVE  LoginMatched'
    BY <1>9, <1>a, <1>b DEF ExchangeGet, LoginMatched, LocalsDrawn, QueryMatches, Del
  <1>10. ASSUME NEW p \in Req, ExchangeDelete(p) PROVE LoginMatched'
    BY <1>10, <1>a, <1>b DEF ExchangeDelete, LoginMatched, LocalsDrawn, QueryMatches,
       Del
  <1>11. ASSUME NEW p \in Req, ExchangeReadConsent(p) PROVE LoginMatched'
    BY <1>11, <1>a, <1>b DEF ExchangeReadConsent, LoginMatched, LocalsDrawn,
       QueryMatches, Del
  <1>12. ASSUME NEW p \in Req, ExchangeGenerate(p) PROVE LoginMatched'
    BY <1>12, <1>a, <1>b DEF ExchangeGenerate, LoginMatched, LocalsDrawn,
       QueryMatches, Del
  <1>13. ASSUME NEW p \in Req, Abort(p) PROVE LoginMatched'
    BY <1>13, <1>a, <1>b DEF Abort, LoginMatched, LocalsDrawn, QueryMatches, Del
  <1>14. CASE UNCHANGED vars
    BY <1>14, <1>a, <1>b DEF vars, LoginMatched, LocalsDrawn, QueryMatches, Del
  <1> QED
    BY <1>1, <1>2, <1>3, <1>4, <1>5, <1>6, <1>7, <1>8, <1>9, <1>10, <1>11, <1>12,
       <1>13, <1>14 DEF Next

\* An exchange goes on only after the code was deleted and its verifier fits.
LEMMA ExchangeProvedStep == AllDrawn /\ ExchangeProved /\ [Next]_vars => ExchangeProved'
  <1> SUFFICES ASSUME AllDrawn /\ ExchangeProved, [Next]_vars PROVE ExchangeProved'
    OBVIOUS
  <1>a. /\ lastId \in Nat /\ lastId' \in Nat /\ lastId <= lastId'
        /\ lastCode \in Nat /\ lastCode' \in Nat /\ lastCode <= lastCode'
        /\ \A id \in 1..lastId : asked'[id] = asked[id]
        /\ \A code \in 1..lastCode : minted'[code] = minted[code]
    BY DrawnKept
  <1>b. pc \in [Req -> Step] /\ loc \in [Req -> Local]
    BY DEF StepsTyped
  <1> USE DEF Goto, Leave, NoLocal
  <1>1. ASSUME NEW client \in Client, NEW ch \in MaybeChallenge,
               NEW m \in Method, Authorize(client, ch, m)
        PROVE  ExchangeProved'
    BY <1>1, <1>a, <1>b DEF Authorize, ExchangeProved, LocalsDrawn, Del
  <1>2. ASSUME NEW id \in Id, RequestLapse(id) PROVE ExchangeProved'
    BY <1>2, <1>a, <1>b DEF RequestLapse, ExchangeProved, LocalsDrawn, Del
  <1>3. ASSUME NEW code \in Code, CodeLapse(code) PROVE ExchangeProved'
    BY <1>3, <1>a, <1>b DEF CodeLapse, ExchangeProved, LocalsDrawn, Del
  <1>4. ASSUME NEW p \in Req, NEW id \in Id,
               NEW client \in Client, LoginGet(p, id, client)
        PROVE  ExchangeProved'
    BY <1>4, <1>a, <1>b DEF LoginGet, ExchangeProved, LocalsDrawn, Del
  <1>5. ASSUME NEW p \in Req, LoginDelete(p) PROVE ExchangeProved'
    BY <1>5, <1>a, <1>b DEF LoginDelete, ExchangeProved, LocalsDrawn, Del
  <1>6. ASSUME NEW p \in Req, LoginSaveCode(p) PROVE ExchangeProved'
    <2>1. pc'[p] = "findConsent" /\ codes' = codes \cup {lastCode + 1}
          /\ \A q \in Req : q # p => pc'[q] = pc[q] /\ loc'[q] = loc[q]
      BY <1>6, <1>b DEF LoginSaveCode, NewCode, Local
    <2> QED
      BY <2>1, <1>a DEF ExchangeProved, LocalsDrawn
  <1>7. ASSUME NEW p \in Req, LoginFindConsent(p) PROVE ExchangeProved'
    BY <1>7, <1>a, <1>b DEF LoginFindConsent, ExchangeProved, LocalsDrawn, Del
  <1>8. ASSUME NEW p \in Req, LoginCreateConsent(p) PROVE ExchangeProved'
    BY <1>8, <1>a, <1>b DEF LoginCreateConsent, ExchangeProved, LocalsDrawn, Del
  <1>9. ASSUME NEW p \in Req, NEW code \in Code, NEW client \in Client,
               NEW v \in MaybeChallenge, ExchangeGet(p, code, client, v)
        PROVE  ExchangeProved'
    BY <1>9, <1>a, <1>b DEF ExchangeGet, ExchangeProved, LocalsDrawn, Del
  <1>10. ASSUME NEW p \in Req, ExchangeDelete(p) PROVE ExchangeProved'
    BY <1>10, <1>a, <1>b DEF ExchangeDelete, ExchangeProved, LocalsDrawn, Del
  <1>11. ASSUME NEW p \in Req, ExchangeReadConsent(p) PROVE ExchangeProved'
    BY <1>11, <1>a, <1>b DEF ExchangeReadConsent, ExchangeProved, LocalsDrawn, Del
  <1>12. ASSUME NEW p \in Req, ExchangeGenerate(p) PROVE ExchangeProved'
    BY <1>12, <1>a, <1>b DEF ExchangeGenerate, ExchangeProved, LocalsDrawn, Del
  <1>13. ASSUME NEW p \in Req, Abort(p) PROVE ExchangeProved'
    BY <1>13, <1>a, <1>b DEF Abort, ExchangeProved, LocalsDrawn, Del
  <1>14. CASE UNCHANGED vars
    BY <1>14, <1>a, <1>b DEF vars, ExchangeProved, LocalsDrawn, Del
  <1> QED
    BY <1>1, <1>2, <1>3, <1>4, <1>5, <1>6, <1>7, <1>8, <1>9, <1>10, <1>11, <1>12,
       <1>13, <1>14 DEF Next

\* A code is delivered by the login that found or added the consent to its client.
LEMMA DeliveredStep ==
    AllDrawn /\ ConsentsTyped /\ LoginMatched /\ DeliveredHasConsent /\ [Next]_vars
    => DeliveredHasConsent'
  <1> SUFFICES ASSUME AllDrawn /\ ConsentsTyped /\ LoginMatched /\ DeliveredHasConsent, [Next]_vars
               PROVE  DeliveredHasConsent'
    OBVIOUS
  <1>a. /\ lastId \in Nat /\ lastId' \in Nat /\ lastId <= lastId'
        /\ lastCode \in Nat /\ lastCode' \in Nat /\ lastCode <= lastCode'
        /\ \A id \in 1..lastId : asked'[id] = asked[id]
        /\ \A code \in 1..lastCode : minted'[code] = minted[code]
    BY DrawnKept
  <1>b. pc \in [Req -> Step] /\ loc \in [Req -> Local]
    BY DEF StepsTyped
  <1>c. /\ delivered \subseteq 1..lastCode /\ consents \in [Client -> 0..MaxConsent]
        /\ \A code \in 1..lastCode : minted[code].client \in Client
        /\ MaxConsent \in Nat
    <2>1. \A code \in 1..lastCode : minted[code] \in Minted
      BY DEF CodesDrawn
    <2> QED
      BY <2>1, ConstantsAssumption DEF CodesDrawn, Minted, ConsentsTyped
  <1> USE DEF Goto, Leave, NoLocal
  <1>1. ASSUME NEW client \in Client, NEW ch \in MaybeChallenge,
               NEW m \in Method, Authorize(client, ch, m)
        PROVE  DeliveredHasConsent'
    BY <1>1, <1>a, <1>b, <1>c DEF Authorize, DeliveredHasConsent
  <1>2. ASSUME NEW id \in Id, RequestLapse(id) PROVE DeliveredHasConsent'
    BY <1>2, <1>a, <1>b, <1>c DEF RequestLapse, DeliveredHasConsent
  <1>3. ASSUME NEW code \in Code, CodeLapse(code) PROVE DeliveredHasConsent'
    BY <1>3, <1>a, <1>b, <1>c DEF CodeLapse, DeliveredHasConsent
  <1>4. ASSUME NEW p \in Req, NEW id \in Id,
               NEW client \in Client, LoginGet(p, id, client)
        PROVE  DeliveredHasConsent'
    BY <1>4, <1>a, <1>b, <1>c DEF LoginGet, DeliveredHasConsent
  <1>5. ASSUME NEW p \in Req, LoginDelete(p) PROVE DeliveredHasConsent'
    BY <1>5, <1>a, <1>b, <1>c DEF LoginDelete, DeliveredHasConsent
  <1>6. ASSUME NEW p \in Req, LoginSaveCode(p) PROVE DeliveredHasConsent'
    BY <1>6, <1>a, <1>b, <1>c DEF LoginSaveCode, DeliveredHasConsent
  <1>7. ASSUME NEW p \in Req, LoginFindConsent(p) PROVE DeliveredHasConsent'
    <2>1. CASE HasConsent(p)
      <3>1. minted[loc[p].code].client = loc[p].client /\ consents[loc[p].client] > 0
        BY <1>7, <2>1 DEF LoginFindConsent, LoginMatched, HasConsent
      <3>2. delivered' = delivered \cup {loc[p].code} /\ UNCHANGED <<minted, consents>>
        BY <1>7, <2>1 DEF LoginFindConsent
      <3> QED
        BY <3>1, <3>2 DEF DeliveredHasConsent
    <2>2. CASE ~ HasConsent(p)
      BY <1>7, <2>2 DEF LoginFindConsent, DeliveredHasConsent
    <2> QED
      BY <2>1, <2>2
  <1>8. ASSUME NEW p \in Req, LoginCreateConsent(p) PROVE DeliveredHasConsent'
    <2>1. /\ minted[loc[p].code].client = loc[p].client /\ loc[p].client \in Client
      BY <1>8 DEF LoginCreateConsent, LoginMatched, LocalsDrawn
    <2>2. /\ delivered' = delivered \cup {loc[p].code} /\ UNCHANGED minted
          /\ consents' = [consents EXCEPT ![loc[p].client] = consents[loc[p].client] + 1]
      BY <1>8 DEF LoginCreateConsent
    <2>3. \A c \in Client : consents[c] > 0 \/ c = loc[p].client => consents'[c] > 0
      BY <2>1, <2>2, <1>c
    <2> QED
      BY <2>1, <2>2, <2>3, <1>c DEF DeliveredHasConsent
  <1>9. ASSUME NEW p \in Req, NEW code \in Code, NEW client \in Client,
               NEW v \in MaybeChallenge, ExchangeGet(p, code, client, v)
        PROVE  DeliveredHasConsent'
    BY <1>9, <1>a, <1>b, <1>c DEF ExchangeGet, DeliveredHasConsent
  <1>10. ASSUME NEW p \in Req, ExchangeDelete(p) PROVE DeliveredHasConsent'
    BY <1>10, <1>a, <1>b, <1>c DEF ExchangeDelete, DeliveredHasConsent
  <1>11. ASSUME NEW p \in Req, ExchangeReadConsent(p) PROVE DeliveredHasConsent'
    BY <1>11, <1>a, <1>b, <1>c DEF ExchangeReadConsent, DeliveredHasConsent
  <1>12. ASSUME NEW p \in Req, ExchangeGenerate(p) PROVE DeliveredHasConsent'
    BY <1>12, <1>a, <1>b, <1>c DEF ExchangeGenerate, DeliveredHasConsent
  <1>13. ASSUME NEW p \in Req, Abort(p) PROVE DeliveredHasConsent'
    BY <1>13, <1>a, <1>b, <1>c DEF Abort, DeliveredHasConsent
  <1>14. CASE UNCHANGED vars
    BY <1>14, <1>a, <1>b, <1>c DEF vars, DeliveredHasConsent
  <1> QED
    BY <1>1, <1>2, <1>3, <1>4, <1>5, <1>6, <1>7, <1>8, <1>9, <1>10, <1>11, <1>12,
       <1>13, <1>14 DEF Next

\* What was deleted is not drawn again.
LEMMA ConsumedStep ==
    AllDrawn /\ GrantsTyped /\ LoginMatched /\ ExchangeProved /\ ConsumedIsGone
    /\ [Next]_vars
    => ConsumedIsGone'
  <1> SUFFICES ASSUME AllDrawn /\ GrantsTyped /\ LoginMatched /\ ExchangeProved
                      /\ ConsumedIsGone, [Next]_vars
               PROVE  ConsumedIsGone'
    OBVIOUS
  <1>a. /\ lastId \in Nat /\ lastId' \in Nat /\ lastId <= lastId'
        /\ lastCode \in Nat /\ lastCode' \in Nat /\ lastCode <= lastCode'
        /\ \A id \in 1..lastId : asked'[id] = asked[id]
        /\ \A code \in 1..lastCode : minted'[code] = minted[code]
    BY DrawnKept
  <1>b. pc \in [Req -> Step] /\ loc \in [Req -> Local]
    BY DEF StepsTyped
  <1>c. /\ delivered \subseteq 1..lastCode
        /\ \A code \in 1..lastCode : minted[code].id \in 1..lastId
        /\ \A g \in grants : g.code \in 1..lastCode
    BY DEF CodesDrawn, GrantsTyped
  <1> USE DEF Goto, Leave, NoLocal
  <1>1. ASSUME NEW client \in Client, NEW ch \in MaybeChallenge,
               NEW m \in Method, Authorize(client, ch, m)
        PROVE  ConsumedIsGone'
    BY <1>1, <1>a, <1>b, <1>c DEF Authorize, ConsumedIsGone, Del
  <1>2. ASSUME NEW id \in Id, RequestLapse(id) PROVE ConsumedIsGone'
    BY <1>2, <1>a, <1>b, <1>c DEF RequestLapse, ConsumedIsGone, Del
  <1>3. ASSUME NEW code \in Code, CodeLapse(code) PROVE ConsumedIsGone'
    BY <1>3, <1>a, <1>b, <1>c DEF CodeLapse, ConsumedIsGone, Del
  <1>4. ASSUME NEW p \in Req, NEW id \in Id,
               NEW client \in Client, LoginGet(p, id, client)
        PROVE  ConsumedIsGone'
    BY <1>4, <1>a, <1>b, <1>c DEF LoginGet, ConsumedIsGone, Del
  <1>5. ASSUME NEW p \in Req, LoginDelete(p) PROVE ConsumedIsGone'
    BY <1>5, <1>a, <1>b, <1>c DEF LoginDelete, ConsumedIsGone, Del
  <1>6. ASSUME NEW p \in Req, LoginSaveCode(p) PROVE ConsumedIsGone'
    <2>1. /\ codes' = codes \cup {lastCode + 1}
          /\ UNCHANGED <<requests, delivered, grants>>
      BY <1>6 DEF LoginSaveCode, NewCode
    <2> QED
      BY <2>1, <1>a, <1>c DEF ConsumedIsGone
  <1>7. ASSUME NEW p \in Req, LoginFindConsent(p) PROVE ConsumedIsGone'
    <2>1. /\ minted[loc[p].code].id \notin requests
          /\ delivered' \subseteq delivered \cup {loc[p].code}
          /\ UNCHANGED <<requests, codes, minted, grants>>
      BY <1>7 DEF LoginFindConsent, LoginMatched
    <2> QED
      BY <2>1 DEF ConsumedIsGone
  <1>8. ASSUME NEW p \in Req, LoginCreateConsent(p) PROVE ConsumedIsGone'
    BY <1>8, <1>a, <1>b, <1>c DEF LoginCreateConsent, LoginMatched, ConsumedIsGone, Del
  <1>9. ASSUME NEW p \in Req, NEW code \in Code, NEW client \in Client,
               NEW v \in MaybeChallenge, ExchangeGet(p, code, client, v)
        PROVE  ConsumedIsGone'
    BY <1>9, <1>a, <1>b, <1>c DEF ExchangeGet, ConsumedIsGone, Del
  <1>10. ASSUME NEW p \in Req, ExchangeDelete(p) PROVE ConsumedIsGone'
    BY <1>10, <1>a, <1>b, <1>c DEF ExchangeDelete, ConsumedIsGone, Del
  <1>11. ASSUME NEW p \in Req, ExchangeReadConsent(p) PROVE ConsumedIsGone'
    BY <1>11, <1>a, <1>b, <1>c DEF ExchangeReadConsent, ConsumedIsGone, Del
  <1>12. ASSUME NEW p \in Req, ExchangeGenerate(p) PROVE ConsumedIsGone'
    BY <1>12, <1>a, <1>b, <1>c DEF ExchangeGenerate, ExchangeProved, ConsumedIsGone, Del
  <1>13. ASSUME NEW p \in Req, Abort(p) PROVE ConsumedIsGone'
    BY <1>13, <1>a, <1>b, <1>c DEF Abort, ConsumedIsGone, Del
  <1>14. CASE UNCHANGED vars
    BY <1>14, <1>a, <1>b, <1>c DEF vars, ConsumedIsGone, Del
  <1> QED
    BY <1>1, <1>2, <1>3, <1>4, <1>5, <1>6, <1>7, <1>8, <1>9, <1>10, <1>11, <1>12,
       <1>13, <1>14 DEF Next

\* A grant is made by an exchange whose verifier was accepted.
LEMMA GrantProvedStep ==
    AllDrawn /\ GrantsTyped /\ ExchangeProved /\ PublicGrantProved /\ [Next]_vars
    => PublicGrantProved'
  <1> SUFFICES ASSUME AllDrawn /\ GrantsTyped /\ ExchangeProved /\ PublicGrantProved, [Next]_vars
               PROVE  PublicGrantProved'
    OBVIOUS
  <1>a. /\ lastId \in Nat /\ lastId' \in Nat /\ lastId <= lastId'
        /\ lastCode \in Nat /\ lastCode' \in Nat /\ lastCode <= lastCode'
        /\ \A id \in 1..lastId : asked'[id] = asked[id]
        /\ \A code \in 1..lastCode : minted'[code] = minted[code]
    BY DrawnKept
  <1>b. pc \in [Req -> Step] /\ loc \in [Req -> Local]
    BY DEF StepsTyped
  <1>c. \A g \in grants : g.code \in 1..lastCode
    BY DEF GrantsTyped
  <1> USE DEF Goto, Leave, NoLocal
  <1>1. ASSUME NEW client \in Client, NEW ch \in MaybeChallenge,
               NEW m \in Method, Authorize(client, ch, m)
        PROVE  PublicGrantProved'
    BY <1>1, <1>a, <1>b, <1>c DEF Authorize, PublicGrantProved
  <1>2. ASSUME NEW id \in Id, RequestLapse(id) PROVE PublicGrantProved'
    BY <1>2, <1>a, <1>b, <1>c DEF RequestLapse, PublicGrantProved
  <1>3. ASSUME NEW code \in Code, CodeLapse(code) PROVE PublicGrantProved'
    BY <1>3, <1>a, <1>b, <1>c DEF CodeLapse, PublicGrantProved
  <1>4. ASSUME NEW p \in Req, NEW id \in Id,
               NEW client \in Client, LoginGet(p, id, client)
        PROVE  PublicGrantProved'
    BY <1>4, <1>a, <1>b, <1>c DEF LoginGet, PublicGrantProved
  <1>5. ASSUME NEW p \in Req, LoginDelete(p) PROVE PublicGrantProved'
    BY <1>5, <1>a, <1>b, <1>c DEF LoginDelete, PublicGrantProved
  <1>6. ASSUME NEW p \in Req, LoginSaveCode(p) PROVE PublicGrantProved'
    BY <1>6, <1>a, <1>b, <1>c DEF LoginSaveCode, PublicGrantProved
  <1>7. ASSUME NEW p \in Req, LoginFindConsent(p) PROVE PublicGrantProved'
    BY <1>7, <1>a, <1>b, <1>c DEF LoginFindConsent, PublicGrantProved
  <1>8. ASSUME NEW p \in Req, LoginCreateConsent(p) PROVE PublicGrantProved'
    BY <1>8, <1>a, <1>b, <1>c DEF LoginCreateConsent, PublicGrantProved
  <1>9. ASSUME NEW p \in Req, NEW code \in Code, NEW client \in Client,
               NEW v \in MaybeChallenge, ExchangeGet(p, code, client, v)
        PROVE  PublicGrantProved'
    BY <1>9, <1>a, <1>b, <1>c DEF ExchangeGet, PublicGrantProved
  <1>10. ASSUME NEW p \in Req, ExchangeDelete(p) PROVE PublicGrantProved'
    BY <1>10, <1>a, <1>b, <1>c DEF ExchangeDelete, PublicGrantProved
  <1>11. ASSUME NEW p \in Req, ExchangeReadConsent(p) PROVE PublicGrantProved'
    BY <1>11, <1>a, <1>b, <1>c DEF ExchangeReadConsent, PublicGrantProved
  <1>12. ASSUME NEW p \in Req, ExchangeGenerate(p) PROVE PublicGrantProved'
    BY <1>12, <1>a, <1>b, <1>c DEF ExchangeGenerate, ExchangeProved, LocalsDrawn,
       FlowAllowed, PublicGrantProved
  <1>13. ASSUME NEW p \in Req, Abort(p) PROVE PublicGrantProved'
    BY <1>13, <1>a, <1>b, <1>c DEF Abort, PublicGrantProved
  <1>14. CASE UNCHANGED vars
    BY <1>14, <1>a, <1>b, <1>c DEF vars, PublicGrantProved
  <1> QED
    BY <1>1, <1>2, <1>3, <1>4, <1>5, <1>6, <1>7, <1>8, <1>9, <1>10, <1>11, <1>12,
       <1>13, <1>14 DEF Next

\* The sets of requests are finite, and none is larger than all of them.
LEMMA RequestSets ==
    ASSUME NEW S \in SUBSET Req
    PROVE  /\ IsFiniteSet(S) /\ Cardinality(S) \in Nat
           /\ Cardinality(S) <= Cardinality(Req) /\ Cardinality(Req) \in Nat
  BY ConstantsAssumption, FS_Subset, FS_CardinalityType

\* Nobody new is about to add a consent.
LEMMA NoNewCreator ==
    ASSUME CreatorsFit, ConsentsTyped, UNCHANGED consents,
           \A q \in Req : pc'[q] = "createConsent" =>
               pc[q] = "createConsent" /\ loc'[q].client = loc[q].client
    PROVE  CreatorsFit'
  <1> SUFFICES ASSUME NEW client \in Client
               PROVE  consents[client] + Cardinality(Creators(client)') <= Cardinality(Req)
    BY DEF CreatorsFit
  <1>1. Creators(client)' \subseteq Creators(client) /\ Creators(client) \in SUBSET Req
    BY DEF Creators
  <1>2. Cardinality(Creators(client)') <= Cardinality(Creators(client))
    BY <1>1, RequestSets, FS_Subset
  <1>3. /\ Cardinality(Creators(client)') \in Nat /\ Cardinality(Creators(client)) \in Nat
        /\ Cardinality(Req) \in Nat /\ consents[client] \in Nat
    BY <1>1, RequestSets, ConstantsAssumption DEF ConsentsTyped
  <1> QED
    BY <1>2, <1>3 DEF CreatorsFit

\* A request goes to add a consent only while there is none; then no more do.
LEMMA CreatorsStep ==
    StepsTyped /\ ConsentsTyped /\ CreatorsFit /\ [Next]_vars => CreatorsFit'
  <1> SUFFICES ASSUME StepsTyped /\ ConsentsTyped /\ CreatorsFit, [Next]_vars
               PROVE  CreatorsFit'
    OBVIOUS
  <1>a. pc \in [Req -> Step] /\ loc \in [Req -> Local]
    BY DEF StepsTyped
  <1> USE DEF Goto, Leave, NoLocal, Local
  <1>1. ASSUME NEW client \in Client, NEW ch \in MaybeChallenge,
               NEW m \in Method, Authorize(client, ch, m)
        PROVE  CreatorsFit'
    <2>1. /\ UNCHANGED consents
          /\ \A q \in Req : pc'[q] = "createConsent" =>
                pc[q] = "createConsent" /\ loc'[q].client = loc[q].client
      BY <1>1, <1>a DEF Authorize
    <2> QED
      BY <2>1, NoNewCreator
  <1>2. ASSUME NEW id \in Id, RequestLapse(id) PROVE CreatorsFit'
    <2>1. /\ UNCHANGED consents
          /\ \A q \in Req : pc'[q] = "createConsent" =>
                pc[q] = "createConsent" /\ loc'[q].client = loc[q].client
      BY <1>2, <1>a DEF RequestLapse
    <2> QED
      BY <2>1, NoNewCreator
  <1>3. ASSUME NEW code \in Code, CodeLapse(code) PROVE CreatorsFit'
    <2>1. /\ UNCHANGED consents
          /\ \A q \in Req : pc'[q] = "createConsent" =>
                pc[q] = "createConsent" /\ loc'[q].client = loc[q].client
      BY <1>3, <1>a DEF CodeLapse
    <2> QED
      BY <2>1, NoNewCreator
  <1>4. ASSUME NEW p \in Req, NEW id \in Id,
               NEW client \in Client, LoginGet(p, id, client)
        PROVE  CreatorsFit'
    <2>1. /\ UNCHANGED consents
          /\ \A q \in Req : pc'[q] = "createConsent" =>
                pc[q] = "createConsent" /\ loc'[q].client = loc[q].client
      BY <1>4, <1>a DEF LoginGet
    <2> QED
      BY <2>1, NoNewCreator
  <1>5. ASSUME NEW p \in Req, LoginDelete(p) PROVE CreatorsFit'
    <2>1. /\ UNCHANGED consents
          /\ \A q \in Req : pc'[q] = "createConsent" =>
                pc[q] = "createConsent" /\ loc'[q].client = loc[q].client
      BY <1>5, <1>a DEF LoginDelete
    <2> QED
      BY <2>1, NoNewCreator
  <1>6. ASSUME NEW p \in Req, LoginSaveCode(p) PROVE CreatorsFit'
    <2>1. /\ UNCHANGED consents
          /\ \A q \in Req : pc'[q] = "createConsent" =>
                pc[q] = "createConsent" /\ loc'[q].client = loc[q].client
      BY <1>6, <1>a DEF LoginSaveCode
    <2> QED
      BY <2>1, NoNewCreator
  <1>7. ASSUME NEW p \in Req, LoginFindConsent(p) PROVE CreatorsFit'
    <2>1. CASE HasConsent(p)
      <3>1. /\ UNCHANGED consents
            /\ \A q \in Req : pc'[q] = "createConsent" =>
                  pc[q] = "createConsent" /\ loc'[q].client = loc[q].client
        BY <1>7, <2>1, <1>a DEF LoginFindConsent
      <3> QED
        BY <3>1, NoNewCreator
    <2>2. CASE ~ HasConsent(p)
      <3> SUFFICES ASSUME NEW client \in Client
                   PROVE  consents'[client] + Cardinality(Creators(client)') <= Cardinality(Req)
        BY DEF CreatorsFit
      <3>1. consents' = consents /\ loc' = loc /\ \A q \in Req : q # p => pc'[q] = pc[q]
        BY <1>7, <2>2, <1>a DEF LoginFindConsent
      <3>2. Creators(client)' \in SUBSET Req
        BY DEF Creators
      <3>3. CASE client = loc[p].client
        <4>1. consents[client] = 0
          BY <2>2, <3>3, ConstantsAssumption DEF HasConsent, ConsentsTyped
        <4> QED
          BY <3>1, <3>2, <4>1, RequestSets
      <3>4. CASE client # loc[p].client
        <4>1. Creators(client)' = Creators(client)
          BY <3>1, <3>4, <1>7 DEF Creators, LoginFindConsent
        <4> QED
          BY <3>1, <4>1 DEF CreatorsFit
      <3> QED
        BY <3>3, <3>4
    <2> QED
      BY <2>1, <2>2
  <1>8. ASSUME NEW p \in Req, LoginCreateConsent(p) PROVE CreatorsFit'
    <2> SUFFICES ASSUME NEW client \in Client
                 PROVE  consents'[client] + Cardinality(Creators(client)') <= Cardinality(Req)
      BY DEF CreatorsFit
    <2>1. /\ pc[p] = "createConsent" /\ pc'[p] = "idle"
          /\ \A q \in Req : q # p => pc'[q] = pc[q] /\ loc'[q] = loc[q]
      BY <1>8, <1>a DEF LoginCreateConsent
    <2>2. Creators(client)' \in SUBSET Req /\ Creators(client) \in SUBSET Req
      BY DEF Creators
    <2>3. Creators(client)' = Creators(client) \ {p}
      BY <2>1 DEF Creators
    <2>4. consents[client] \in Nat
      BY ConstantsAssumption DEF ConsentsTyped
    <2>5. Cardinality(Creators(client)) \in Nat /\ Cardinality(Req) \in Nat
      BY <2>2, RequestSets
    <2>6. CASE client = loc[p].client
      <3>1. p \in Creators(client) /\ consents'[client] = consents[client] + 1
        BY <1>8, <2>1, <2>6 DEF Creators, LoginCreateConsent, ConsentsTyped
      <3>2. Cardinality(Creators(client)') = Cardinality(Creators(client)) - 1
        BY <2>2, <2>3, <3>1, RequestSets, FS_RemoveElement
      <3> QED
        BY <2>4, <2>5, <3>1, <3>2 DEF CreatorsFit
    <2>7. CASE client # loc[p].client
      <3>1. Creators(client)' = Creators(client)
        BY <2>3, <2>7 DEF Creators
      <3>2. consents'[client] = consents[client]
        BY <1>8, <2>7 DEF LoginCreateConsent, ConsentsTyped
      <3> QED
        BY <3>1, <3>2 DEF CreatorsFit
    <2> QED
      BY <2>6, <2>7
  <1>9. ASSUME NEW p \in Req, NEW code \in Code, NEW client \in Client,
               NEW v \in MaybeChallenge, ExchangeGet(p, code, client, v)
        PROVE  CreatorsFit'
    <2>1. /\ UNCHANGED consents
          /\ \A q \in Req : pc'[q] = "createConsent" =>
                pc[q] = "createConsent" /\ loc'[q].client = loc[q].client
      BY <1>9, <1>a DEF ExchangeGet
    <2> QED
      BY <2>1, NoNewCreator
  <1>10. ASSUME NEW p \in Req, ExchangeDelete(p) PROVE CreatorsFit'
    <2>1. /\ UNCHANGED consents
          /\ \A q \in Req : pc'[q] = "createConsent" =>
                pc[q] = "createConsent" /\ loc'[q].client = loc[q].client
      BY <1>10, <1>a DEF ExchangeDelete
    <2> QED
      BY <2>1, NoNewCreator
  <1>11. ASSUME NEW p \in Req, ExchangeReadConsent(p) PROVE CreatorsFit'
    <2>1. /\ UNCHANGED consents
          /\ \A q \in Req : pc'[q] = "createConsent" =>
                pc[q] = "createConsent" /\ loc'[q].client = loc[q].client
      BY <1>11, <1>a DEF ExchangeReadConsent
    <2> QED
      BY <2>1, NoNewCreator
  <1>12. ASSUME NEW p \in Req, ExchangeGenerate(p) PROVE CreatorsFit'
    <2>1. /\ UNCHANGED consents
          /\ \A q \in Req : pc'[q] = "createConsent" =>
                pc[q] = "createConsent" /\ loc'[q].client = loc[q].client
      BY <1>12, <1>a DEF ExchangeGenerate
    <2> QED
      BY <2>1, NoNewCreator
  <1>13. ASSUME NEW p \in Req, Abort(p) PROVE CreatorsFit'
    <2>1. /\ UNCHANGED consents
          /\ \A q \in Req : pc'[q] = "createConsent" =>
                pc[q] = "createConsent" /\ loc'[q].client = loc[q].client
      BY <1>13, <1>a DEF Abort
    <2> QED
      BY <2>1, NoNewCreator
  <1>14. CASE UNCHANGED vars
    BY <1>14, <1>a DEF vars, CreatorsFit, Creators
  <1> QED
    BY <1>1, <1>2, <1>3, <1>4, <1>5, <1>6, <1>7, <1>8, <1>9, <1>10, <1>11, <1>12,
       <1>13, <1>14 DEF Next

-----------------------------------------------------------------------------
(* The theorems. *)

\* Nothing has been stored, drawn or granted yet.
LEMMA InitIInv == Init => IInv
  <1> SUFFICES ASSUME Init PROVE IInv
    OBVIOUS
  <1> USE DEF Init
  <1>1. RequestsDrawn
    BY ConstantsAssumption, EmptySeq DEF RequestsDrawn
  <1>2. CodesDrawn
    BY ConstantsAssumption, EmptySeq DEF CodesDrawn
  <1>3. StepsTyped
    BY ConstantsAssumption DEF StepsTyped, Step, Local, NoLocal, MaybeChallenge
  <1>4. ConsentsTyped
    BY ConstantsAssumption DEF ConsentsTyped
  <1>5. GrantsTyped /\ LocalsDrawn /\ LoginMatched /\ ExchangeProved
    BY DEF GrantsTyped, LocalsDrawn, LoginMatched, ExchangeProved
  <1>6. CreatorsFit
    <2> SUFFICES ASSUME NEW client \in Client
                 PROVE  consents[client] + Cardinality(Creators(client)) <= Cardinality(Req)
      BY DEF CreatorsFit
    <2>1. Creators(client) \in SUBSET Req /\ consents[client] = 0
      BY DEF Creators
    <2> QED
      BY <2>1, RequestSets
  <1>7. DeliveredHasConsent /\ ConsumedIsGone /\ PublicGrantProved
    BY DEF DeliveredHasConsent, ConsumedIsGone, PublicGrantProved
  <1> QED
    BY <1>1, <1>2, <1>3, <1>4, <1>5, <1>6, <1>7 DEF IInv

\* In every behaviour, whatever requests interleave, lapse or stop half-way, the
\* inductive invariant holds throughout.
THEOREM Invariance == Spec => []IInv
  <1>1. IInv /\ [Next]_vars => IInv'
    <2> SUFFICES ASSUME IInv, [Next]_vars PROVE IInv'
      OBVIOUS
    <2>1. RequestsDrawn' /\ CodesDrawn' /\ StepsTyped' /\ ConsentsTyped'
      BY RequestsDrawnStep, CodesDrawnStep, StepsTypedStep, ConsentsTypedStep DEF IInv
    <2>2. GrantsTyped' /\ LocalsDrawn'
      BY GrantsTypedStep, LocalsDrawnStep DEF IInv
    <2>3. LoginMatched' /\ ExchangeProved' /\ CreatorsFit'
      BY LoginMatchedStep, ExchangeProvedStep, CreatorsStep DEF IInv
    <2>4. DeliveredHasConsent' /\ ConsumedIsGone' /\ PublicGrantProved'
      BY DeliveredStep, ConsumedStep, GrantProvedStep DEF IInv
    <2> QED
      BY <2>1, <2>2, <2>3, <2>4 DEF IInv
  <1> QED
    BY InitIInv, <1>1, PTL DEF Spec

\* Redis and the tables keep their types, and what is in Redis, delivered or
\* granted was drawn before.
THEOREM TypeCorrect == Spec => []TypeOK
  <1>1. IInv => TypeOK
    BY DEF IInv, RequestsDrawn, CodesDrawn, StepsTyped, ConsentsTyped, GrantsTyped,
       TypeOK
  <1> QED
    BY <1>1, Invariance, PTL

\* A code that reached a client has the user's consent to that client behind it.
THEOREM CodesHaveConsent == Spec => []DeliveredHasConsent
  <1>1. IInv => DeliveredHasConsent
    BY DEF IInv
  <1> QED
    BY <1>1, Invariance, PTL

\* Concurrent first logins leave at most one row per request in progress.
THEOREM ConsentsAreBounded == Spec => []ConsentBound
  <1>1. IInv => ConsentBound
    <2> SUFFICES ASSUME IInv, NEW client \in Client
                 PROVE  consents[client] <= Cardinality(Req)
      BY DEF ConsentBound
    <2>1. Creators(client) \in SUBSET Req
      BY DEF Creators
    <2>2. consents[client] \in Nat
      BY ConstantsAssumption DEF IInv, ConsentsTyped
    <2> QED
      BY <2>1, <2>2, RequestSets DEF IInv, CreatorsFit
  <1> QED
    BY <1>1, Invariance, PTL

\* An answered authorization request or code can't be used by a later request.
THEOREM ConsumptionIsFinal == Spec => []ConsumedIsGone
  <1>1. IInv => ConsumedIsGone
    BY DEF IInv
  <1> QED
    BY <1>1, Invariance, PTL

\* A public client gets tokens only with the verifier its own code asks for.
THEOREM PublicGrantsAreProved == Spec => []PublicGrantProved
  <1>1. IInv => PublicGrantProved
    BY DEF IInv
  <1> QED
    BY <1>1, Invariance, PTL
=============================================================================
