---------------------------- MODULE ClientsProofs ----------------------------
(***************************************************************************)
(* Proofs of the safety of Clients, for any number of registrations of any *)
(* payloads: the secret that was answered is the one that works, and an    *)
(* authorization is granted for what the client registered, whatever lists *)
(* of URIs and sets of scopes there are.                                   *)
(***************************************************************************)
EXTENDS Clients, FiniteSetTheorems, WellFoundedInduction, TLAPS

-----------------------------------------------------------------------------
(* The inductive invariant. *)

\* An id is drawn for each registration that has begun.
Begun == {p \in Req : pc[p] # "idle"}

TableTyped == clients \subseteq Client /\ drawn = Cardinality(Begun)

RequestsTyped ==
    /\ pc \in [Req -> Step] /\ loc \in [Req -> Client]
    /\ answer \in [Req -> {"none", "created", "conflict", "failed"}]
    /\ shown \in [Req -> Secret]

KeysUnique == \A c, d \in clients : SameKey(c, d) => c = d

\* A client that is confidential has a secret, and no other one has.
HasItsSecret(c) == c.secret = NoSecret <=> ~ c.props.isConfidential

SecretsFit ==
    /\ \A c \in clients : HasItsSecret(c)
    /\ \A p \in Req : /\ pc[p] \in {"save", "answer"} => HasItsSecret(loc[p])
                      /\ pc[p] = "hash" => loc[p].props.isConfidential = TRUE

\* A registration that is about to be answered has its client in the table, and
\* one that was answered was given the secret of that client.
AnsweredIsStored ==
    \A p \in Req :
        /\ pc[p] = "answer" \/ answer[p] = "created" => loc[p] \in clients
        /\ answer[p] = "created" => pc[p] = "over" /\ shown[p] = loc[p].secret

IInv == TableTyped /\ RequestsTyped /\ KeysUnique /\ SecretsFit /\ AnsweredIsStored

-----------------------------------------------------------------------------
(* Facts about the constants. *)

\* The registrations, and every set of them, can be counted.
LEMMA RegistrationSets ==
    ASSUME NEW S \in SUBSET Req
    PROVE  /\ Cardinality(S) \in Number
           /\ Cardinality(S) \in Nat /\ Cardinality(Req) \in Nat
           /\ \A p \in Req \ S : Cardinality(S \cup {p}) = Cardinality(S) + 1
  <1>1. IsFiniteSet(S) /\ Cardinality(S) <= Cardinality(Req)
    BY RegistrationsAssumption, FS_Subset
  <1>2. Cardinality(S) \in Nat /\ Cardinality(Req) \in Nat
    BY <1>1, RegistrationsAssumption, FS_CardinalityType
  <1>3. \A p \in Req \ S : Cardinality(S \cup {p}) = Cardinality(S) + 1
    BY <1>1, FS_AddElement
  <1> QED
    BY <1>1, <1>2, <1>3 DEF Number

\* What a registration holds before it has drawn anything has the shape of a client.
LEMMA NoClientIsClient == NoClient \in Client
  <1>1. NoPayload \in Payload
    BY RegistrationsAssumption DEF NoPayload, Payload
  <1>2. 0 \in Number
    BY RegistrationSets DEF Number
  <1> QED
    BY <1>1, <1>2 DEF NoClient, Client, Secret

-----------------------------------------------------------------------------
(* What every step preserves, part by part. *)

\* A registration keeps its shape.
LEMMA RequestsTypedStep == TableTyped /\ RequestsTyped /\ [Next]_vars => RequestsTyped'
  <1> SUFFICES ASSUME TableTyped /\ RequestsTyped, [Next]_vars PROVE RequestsTyped'
    OBVIOUS
  <1>a. /\ clients \subseteq Client /\ drawn = Cardinality(Begun)
        /\ pc \in [Req -> Step] /\ loc \in [Req -> Client]
        /\ answer \in [Req -> {"none", "created", "conflict", "failed"}]
        /\ shown \in [Req -> Secret]
    BY DEF TableTyped, RequestsTyped
  <1>b. NoClient \in Client
    BY NoClientIsClient
  <1> USE DEF At, Goto, Leave
  <1>1. ASSUME NEW p \in Req, NEW payload \in Payload, Create(p, payload)
        PROVE  RequestsTyped'
    <2>1. /\ loc' = [loc EXCEPT ![p] = [clientId |-> drawn', secret |-> NoSecret,
                                        props |-> payload]]
          /\ pc' = [pc EXCEPT ![p] = IF payload.isConfidential THEN "hash" ELSE "save"]
          /\ UNCHANGED <<answer, shown>> /\ drawn' = drawn + 1 /\ pc[p] = "idle"
      BY <1>1 DEF Create
    <2>2. drawn' = Cardinality(Begun \cup {p})
      BY <1>a, <2>1, RegistrationSets DEF Begun
    <2>3. Begun \cup {p} \in SUBSET Req
      BY DEF Begun
    <2>4. drawn' \in Number
      BY <2>2, <2>3, RegistrationSets
    <2>5. [clientId |-> drawn', secret |-> NoSecret, props |-> payload] \in Client
      BY <2>4 DEF Client, Secret
    <2> QED
      BY <1>a, <2>1, <2>5 DEF RequestsTyped, Step
  <1>2. ASSUME NEW p \in Req, GenerateClientSecret(p) PROVE RequestsTyped'
    <2>1. loc[p].clientId \in Secret
      BY <1>a DEF Client, Secret
    <2> QED
      BY <1>a, <2>1, <1>2 DEF GenerateClientSecret, RequestsTyped, Step, Client
  <1>3. ASSUME NEW p \in Req, Save(p) PROVE RequestsTyped'
    <2>1. CASE Conflicts(p)
      BY <1>3, <2>1, <1>a, <1>b DEF Save, RequestsTyped, Step
    <2>2. CASE ~ Conflicts(p)
      BY <1>3, <2>2, <1>a, <1>b DEF Save, RequestsTyped, Step
    <2> QED
      BY <2>1, <2>2
  <1>4. ASSUME NEW p \in Req, Answer(p) PROVE RequestsTyped'
    <2>1. loc[p].secret \in Secret
      BY <1>a DEF Client
    <2> QED
      BY <1>a, <2>1, <1>4 DEF Answer, RequestsTyped, Step
  <1>5. ASSUME NEW p \in Req, Abort(p) PROVE RequestsTyped'
    <2>1. /\ pc' = [pc EXCEPT ![p] = "over"] /\ loc' = [loc EXCEPT ![p] = NoClient]
          /\ UNCHANGED shown
      BY <1>5 DEF Abort
    <2>2. answer' = answer \/ answer' = [answer EXCEPT ![p] = "failed"]
      BY <1>5 DEF Abort
    <2> QED
      BY <1>a, <1>b, <2>1, <2>2 DEF RequestsTyped, Step
  <1>6. ASSUME NEW c \in clients, FindByClientId(c) PROVE RequestsTyped'
    BY <1>6, <1>a, <1>b DEF FindByClientId, vars, RequestsTyped, Step
  <1>7. CASE UNCHANGED vars
    BY <1>7, <1>a, <1>b DEF vars, RequestsTyped, Step
  <1> QED
    BY <1>1, <1>2, <1>3, <1>4, <1>5, <1>6, <1>7 DEF Next

\* An id is drawn when a registration begins, and only a whole client is stored.
LEMMA TableTypedStep == TableTyped /\ RequestsTyped /\ [Next]_vars => TableTyped'
  <1> SUFFICES ASSUME TableTyped /\ RequestsTyped, [Next]_vars PROVE TableTyped'
    OBVIOUS
  <1>a. /\ clients \subseteq Client /\ drawn = Cardinality(Begun)
        /\ pc \in [Req -> Step] /\ loc \in [Req -> Client]
        /\ answer \in [Req -> {"none", "created", "conflict", "failed"}]
        /\ shown \in [Req -> Secret]
    BY DEF TableTyped, RequestsTyped
  <1> USE DEF At, Goto, Leave
  <1>1. ASSUME NEW p \in Req, NEW payload \in Payload, Create(p, payload)
        PROVE  TableTyped'
    <2>1. /\ pc' = [pc EXCEPT ![p] = IF payload.isConfidential THEN "hash" ELSE "save"]
          /\ drawn' = drawn + 1 /\ clients' = clients /\ pc[p] = "idle"
      BY <1>1 DEF Create
    <2>2. Begun' = Begun \cup {p}
      BY <1>a, <2>1 DEF Begun
    <2>3. p \notin Begun /\ Begun \in SUBSET Req
      BY <2>1 DEF Begun
    <2> QED
      BY <1>a, <2>1, <2>2, <2>3, RegistrationSets DEF TableTyped
  <1>2. ASSUME NEW p \in Req, GenerateClientSecret(p) PROVE TableTyped'
    <2>1. pc'[p] # "idle" /\ pc[p] # "idle" /\ \A q \in Req \ {p} : pc'[q] = pc[q]
      BY <1>2, <1>a DEF GenerateClientSecret
    <2>2. Begun' = Begun
      BY <2>1 DEF Begun
    <2> QED
      BY <1>2, <1>a, <2>2 DEF GenerateClientSecret, TableTyped
  <1>3. ASSUME NEW p \in Req, Save(p) PROVE TableTyped'
    <2>1. pc'[p] # "idle" /\ \A q \in Req \ {p} : pc'[q] = pc[q]
      BY <1>3, <1>a DEF Save
    <2>2. pc[p] # "idle"
      BY <1>3 DEF Save
    <2>3. Begun' = Begun
      BY <2>1, <2>2 DEF Begun
    <2>4. clients' \subseteq Client /\ drawn' = drawn
      BY <1>3, <1>a DEF Save
    <2> QED
      BY <1>a, <2>3, <2>4 DEF TableTyped
  <1>4. ASSUME NEW p \in Req, Answer(p) PROVE TableTyped'
    <2>1. pc'[p] # "idle" /\ pc[p] # "idle" /\ \A q \in Req \ {p} : pc'[q] = pc[q]
      BY <1>4, <1>a DEF Answer
    <2>2. Begun' = Begun
      BY <2>1 DEF Begun
    <2> QED
      BY <1>4, <1>a, <2>2 DEF Answer, TableTyped
  <1>5. ASSUME NEW p \in Req, Abort(p) PROVE TableTyped'
    <2>1. pc'[p] # "idle" /\ pc[p] # "idle" /\ \A q \in Req \ {p} : pc'[q] = pc[q]
      BY <1>5, <1>a DEF Abort
    <2>2. Begun' = Begun
      BY <2>1 DEF Begun
    <2> QED
      BY <1>5, <1>a, <2>2 DEF Abort, TableTyped
  <1>6. ASSUME NEW c \in clients, FindByClientId(c) PROVE TableTyped'
    BY <1>6 DEF FindByClientId, vars, TableTyped, Begun
  <1>7. CASE UNCHANGED vars
    BY <1>7, <1>a DEF vars, TableTyped, Begun
  <1> QED
    BY <1>1, <1>2, <1>3, <1>4, <1>5, <1>6, <1>7 DEF Next

\* A client whose keys are taken is not inserted.
LEMMA KeysUniqueStep == KeysUnique /\ [Next]_vars => KeysUnique'
  <1> SUFFICES ASSUME KeysUnique, [Next]_vars PROVE KeysUnique'
    OBVIOUS
  <1> USE DEF At, Goto, Leave
  <1>1. ASSUME NEW p \in Req, NEW payload \in Payload, Create(p, payload)
        PROVE  KeysUnique'
    BY <1>1 DEF Create, KeysUnique
  <1>2. ASSUME NEW p \in Req, GenerateClientSecret(p) PROVE KeysUnique'
    BY <1>2 DEF GenerateClientSecret, KeysUnique
  <1>3. ASSUME NEW p \in Req, Save(p) PROVE KeysUnique'
    <2>1. CASE Conflicts(p)
      BY <1>3, <2>1 DEF Save, KeysUnique
    <2>2. CASE ~ Conflicts(p)
      <3>1. clients' = clients \cup {loc[p]}
        BY <1>3, <2>2 DEF Save
      <3>2. \A c \in clients : ~ SameKey(c, loc[p]) /\ ~ SameKey(loc[p], c)
        BY <2>2 DEF Conflicts, SameKey
      <3> QED
        BY <3>1, <3>2 DEF KeysUnique
    <2> QED
      BY <2>1, <2>2
  <1>4. ASSUME NEW p \in Req, Answer(p) PROVE KeysUnique'
    BY <1>4 DEF Answer, KeysUnique
  <1>5. ASSUME NEW p \in Req, Abort(p) PROVE KeysUnique'
    BY <1>5 DEF Abort, KeysUnique
  <1>6. ASSUME NEW c \in clients, FindByClientId(c) PROVE KeysUnique'
    BY <1>6 DEF FindByClientId, vars, KeysUnique
  <1>7. CASE UNCHANGED vars
    BY <1>7 DEF vars, KeysUnique
  <1> QED
    BY <1>1, <1>2, <1>3, <1>4, <1>5, <1>6, <1>7 DEF Next

\* A secret is drawn for a confidential client before it is stored.
LEMMA SecretsFitStep ==
    TableTyped /\ RequestsTyped /\ SecretsFit /\ [Next]_vars => SecretsFit'
  <1> SUFFICES ASSUME TableTyped /\ RequestsTyped /\ SecretsFit, [Next]_vars
               PROVE  SecretsFit'
    OBVIOUS
  <1>a. /\ clients \subseteq Client /\ drawn = Cardinality(Begun)
        /\ pc \in [Req -> Step] /\ loc \in [Req -> Client]
        /\ answer \in [Req -> {"none", "created", "conflict", "failed"}]
        /\ shown \in [Req -> Secret]
    BY DEF TableTyped, RequestsTyped
  <1>b. NoSecret \notin Nat
    BY UriAssumption
  <1>c. \A p \in Req : loc[p].clientId \in Nat /\ loc[p].props.isConfidential \in BOOLEAN
    <2>1. Number \subseteq Nat
      BY RegistrationSets DEF Number
    <2> QED
      BY <1>a, <2>1 DEF Client, Payload
  <1> USE DEF At, Goto, Leave
  <1>1. ASSUME NEW p \in Req, NEW payload \in Payload, Create(p, payload)
        PROVE  SecretsFit'
    <2>1. CASE payload.isConfidential
      <3>1. pc' = [pc EXCEPT ![p] = "hash"] /\ clients' = clients
        BY <1>1, <2>1 DEF Create
      <3>2. loc'[p].props.isConfidential = TRUE /\ \A q \in Req \ {p} : loc'[q] = loc[q]
        BY <1>1, <2>1, <1>a DEF Create, Payload
      <3> QED
        BY <1>a, <3>1, <3>2 DEF SecretsFit, HasItsSecret
    <2>2. CASE ~ payload.isConfidential
      <3>1. pc' = [pc EXCEPT ![p] = "save"] /\ clients' = clients
        BY <1>1, <2>2 DEF Create
      <3>2. /\ loc'[p].secret = NoSecret /\ loc'[p].props = payload
            /\ \A q \in Req \ {p} : loc'[q] = loc[q]
        BY <1>1, <1>a DEF Create
      <3>3. HasItsSecret(loc[p])'
        BY <2>2, <3>2 DEF HasItsSecret
      <3> QED
        BY <1>a, <3>1, <3>2, <3>3 DEF SecretsFit, HasItsSecret
    <2> QED
      BY <2>1, <2>2
  <1>2. ASSUME NEW p \in Req, GenerateClientSecret(p) PROVE SecretsFit'
    <2>1. /\ loc'[p].secret = loc[p].clientId /\ loc'[p].props = loc[p].props
          /\ \A q \in Req \ {p} : loc'[q] = loc[q]
      BY <1>2, <1>a DEF GenerateClientSecret, Client
    <2>2. pc' = [pc EXCEPT ![p] = "save"] /\ clients' = clients /\ pc[p] = "hash"
      BY <1>2 DEF GenerateClientSecret
    <2>3. loc[p].props.isConfidential = TRUE /\ loc'[p].secret # NoSecret
      BY <1>b, <1>c, <2>1, <2>2 DEF SecretsFit
    <2>4. HasItsSecret(loc[p])'
      BY <2>1, <2>3 DEF HasItsSecret
    <2> QED
      BY <1>a, <2>1, <2>2, <2>4 DEF SecretsFit, HasItsSecret
  <1>3. ASSUME NEW p \in Req, Save(p) PROVE SecretsFit'
    <2>1. CASE Conflicts(p)
      <3>1. pc' = [pc EXCEPT ![p] = "over"] /\ clients' = clients
        BY <1>3, <2>1 DEF Save
      <3>2. \A q \in Req \ {p} : loc'[q] = loc[q]
        BY <1>3, <2>1, <1>a DEF Save
      <3> QED
        BY <1>a, <3>1, <3>2 DEF SecretsFit, HasItsSecret
    <2>2. CASE ~ Conflicts(p)
      <3>1. /\ pc' = [pc EXCEPT ![p] = "answer"] /\ clients' = clients \cup {loc[p]}
            /\ loc' = loc /\ pc[p] = "save"
        BY <1>3, <2>2 DEF Save
      <3> QED
        BY <1>a, <3>1 DEF SecretsFit, HasItsSecret
    <2> QED
      BY <2>1, <2>2
  <1>4. ASSUME NEW p \in Req, Answer(p) PROVE SecretsFit'
    BY <1>4, <1>a, <1>b, <1>c DEF Answer, SecretsFit, HasItsSecret
  <1>5. ASSUME NEW p \in Req, Abort(p) PROVE SecretsFit'
    <2>1. /\ pc' = [pc EXCEPT ![p] = "over"] /\ clients' = clients
          /\ \A q \in Req \ {p} : loc'[q] = loc[q]
      BY <1>5, <1>a DEF Abort
    <2> QED
      BY <1>a, <2>1 DEF SecretsFit, HasItsSecret
  <1>6. ASSUME NEW c \in clients, FindByClientId(c) PROVE SecretsFit'
    BY <1>6, <1>a, <1>b, <1>c DEF FindByClientId, vars, SecretsFit, HasItsSecret
  <1>7. CASE UNCHANGED vars
    BY <1>7, <1>a, <1>b, <1>c DEF vars, SecretsFit, HasItsSecret
  <1> QED
    BY <1>1, <1>2, <1>3, <1>4, <1>5, <1>6, <1>7 DEF Next

\* A client that was answered stays as it was stored.
LEMMA AnsweredIsStoredStep ==
    TableTyped /\ RequestsTyped /\ AnsweredIsStored /\ [Next]_vars => AnsweredIsStored'
  <1> SUFFICES ASSUME TableTyped /\ RequestsTyped /\ AnsweredIsStored, [Next]_vars
               PROVE  AnsweredIsStored'
    OBVIOUS
  <1>a. /\ clients \subseteq Client /\ drawn = Cardinality(Begun)
        /\ pc \in [Req -> Step] /\ loc \in [Req -> Client]
        /\ answer \in [Req -> {"none", "created", "conflict", "failed"}]
        /\ shown \in [Req -> Secret]
    BY DEF TableTyped, RequestsTyped
  <1> USE DEF At, Goto, Leave
  <1>1. ASSUME NEW p \in Req, NEW payload \in Payload, Create(p, payload)
        PROVE  AnsweredIsStored'
    <2>1. /\ pc[p] = "idle" /\ pc'[p] \in {"hash", "save"}
          /\ \A q \in Req \ {p} : loc'[q] = loc[q] /\ pc'[q] = pc[q]
          /\ UNCHANGED <<clients, answer, shown>>
      BY <1>1, <1>a DEF Create
    <2> QED
      BY <1>a, <2>1 DEF AnsweredIsStored
  <1>2. ASSUME NEW p \in Req, GenerateClientSecret(p) PROVE AnsweredIsStored'
    BY <1>2, <1>a DEF GenerateClientSecret, AnsweredIsStored
  <1>3. ASSUME NEW p \in Req, Save(p) PROVE AnsweredIsStored'
    <2>1. CASE Conflicts(p)
      <3>1. /\ pc' = [pc EXCEPT ![p] = "over"] /\ clients' = clients /\ shown' = shown
            /\ answer' = [answer EXCEPT ![p] = "conflict"]
        BY <1>3, <2>1 DEF Save
      <3>2. \A q \in Req \ {p} : loc'[q] = loc[q]
        BY <1>3, <2>1, <1>a DEF Save
      <3> QED
        BY <1>a, <3>1, <3>2 DEF AnsweredIsStored
    <2>2. CASE ~ Conflicts(p)
      <3>1. /\ pc' = [pc EXCEPT ![p] = "answer"] /\ clients' = clients \cup {loc[p]}
            /\ UNCHANGED <<loc, answer, shown>> /\ pc[p] = "save"
        BY <1>3, <2>2 DEF Save
      <3> QED
        BY <1>a, <3>1 DEF AnsweredIsStored
    <2> QED
      BY <2>1, <2>2
  <1>4. ASSUME NEW p \in Req, Answer(p) PROVE AnsweredIsStored'
    BY <1>4, <1>a DEF Answer, AnsweredIsStored
  <1>5. ASSUME NEW p \in Req, Abort(p) PROVE AnsweredIsStored'
    <2>1. /\ pc[p] # "over" /\ pc'[p] = "over"
          /\ \A q \in Req \ {p} : loc'[q] = loc[q] /\ pc'[q] = pc[q]
          /\ UNCHANGED <<clients, shown>>
      BY <1>5, <1>a DEF Abort
    <2>2. answer[p] # "created"
      BY <2>1 DEF AnsweredIsStored
    <2>3. /\ answer'[p] # "created"
          /\ \A q \in Req \ {p} : answer'[q] = answer[q]
      BY <1>5, <1>a, <2>2 DEF Abort
    <2> QED
      BY <1>a, <2>1, <2>3 DEF AnsweredIsStored
  <1>6. ASSUME NEW c \in clients, FindByClientId(c) PROVE AnsweredIsStored'
    BY <1>6, <1>a DEF FindByClientId, vars, AnsweredIsStored
  <1>7. CASE UNCHANGED vars
    BY <1>7, <1>a DEF vars, AnsweredIsStored
  <1> QED
    BY <1>1, <1>2, <1>3, <1>4, <1>5, <1>6, <1>7 DEF Next

-----------------------------------------------------------------------------
(* What RedirectUriValueObject grants. *)

\* some() stops at the first index of those it would stop at: there is one.
LEMMA MinIsLeast ==
    ASSUME NEW S \in SUBSET Nat, S # {}
    PROVE  Min(S) \in S /\ \A n \in S : Min(S) <= n
  <1> DEFINE R == {ss \in Nat \X Nat : ss[1] < ss[2]}
  <1>1. IsWellFoundedOn(R, Nat)
    BY NatLessThanWellFounded, Zenon DEF OpToRel
  <1>2. PICK m \in S : \A n \in S : ~ (<<n, m>> \in R)
    <2> HIDE DEF R
    <2> QED
      BY <1>1, WFMin
  <1>3. ASSUME NEW n \in S PROVE m <= n
    <2>1. <<n, m>> \in Nat \X Nat /\ <<n, m>> \notin R
      BY <1>2
    <2>2. <<n, m>>[1] = n /\ <<n, m>>[2] = m
      OBVIOUS
    <2>3. ~ (n < m)
      BY <2>1, <2>2, Zenon DEF R
    <2> QED
      BY <2>3, SMT
  <1> QED
    BY <1>3 DEF Min

\* Two URIs are equal when they are the same, or both ways to write Plain.
LEMMA EqualsMeansSame ==
    ASSUME NEW u \in Uri, NEW v \in Uri
    PROVE  Equals(u, v) <=> v = u \/ {v, u} \subseteq Slashed \cup {Plain}
  BY UriAssumption DEF Equals, Normal

\* What a client is granted, of whatever list it registered.
LEMMA VerdictIsRegistered ==
    ASSUME NEW c \in Client, NEW u \in Uri
    PROVE  LET list == c.props.redirectUris
               same == {i \in DOMAIN list :
                           list[i] = u \/ {list[i], u} \subseteq Slashed \cup {Plain}}
           IN  /\ RedirectVerdict(c, u) = "allowed" => same # {}
               /\ /\ same # {} /\ u \notin Malformed
                  /\ \A i \in DOMAIN list : list[i] \in Malformed => \E j \in same : j < i
                  => RedirectVerdict(c, u) = "allowed"
  <1> DEFINE list == c.props.redirectUris
             same == {i \in DOMAIN list :
                         list[i] = u \/ {list[i], u} \subseteq Slashed \cup {Plain}}
             ends == {i \in DOMAIN list : list[i] \in Malformed \/ Equals(u, list[i])}
  <1>1. list \in Seq(Uri)
    BY UriAssumption DEF Client, Payload
  <1>2. DOMAIN list \subseteq Nat /\ \A i \in DOMAIN list : list[i] \in Uri
    BY <1>1
  <1>3. same = {i \in DOMAIN list : Equals(u, list[i])}
    BY <1>2, EqualsMeansSame
  <1>4. ends = {i \in DOMAIN list : list[i] \in Malformed} \cup same
    BY <1>3
  <1>5. RedirectVerdict(c, u) = IF u \in Malformed THEN "error"
                                ELSE IF ends = {} THEN "refused"
                                ELSE IF list[Min(ends)] \in Malformed THEN "error"
                                     ELSE "allowed"
    BY DEF RedirectVerdict
  <1>6. ends \in SUBSET Nat /\ same \subseteq ends /\ same \subseteq DOMAIN list
    BY <1>2, <1>4
  <1> HIDE DEF same, ends, list
  <1>7. ASSUME RedirectVerdict(c, u) = "allowed" PROVE same # {}
    <2>1. ends # {} /\ list[Min(ends)] \notin Malformed
      BY <1>5, <1>7
    <2>2. Min(ends) \in ends
      BY <1>6, <2>1, MinIsLeast
    <2> QED
      BY <1>4, <2>1, <2>2
  <1>8. ASSUME same # {}, u \notin Malformed,
               \A i \in DOMAIN list : list[i] \in Malformed => \E j \in same : j < i
        PROVE  RedirectVerdict(c, u) = "allowed"
    <2>1. ends # {}
      BY <1>6, <1>8
    <2>2. Min(ends) \in ends /\ \A n \in ends : Min(ends) <= n
      BY <1>6, <2>1, MinIsLeast
    <2>3. Min(ends) \in DOMAIN list
      BY <1>4, <1>6, <2>2
    <2>4. ASSUME list[Min(ends)] \in Malformed PROVE FALSE
      <3>1. PICK j \in same : j < Min(ends)
        BY <1>8, <2>3, <2>4
      <3>2. j \in ends /\ Min(ends) <= j /\ j \in Nat /\ Min(ends) \in Nat
        BY <1>6, <2>2, <3>1
      <3> QED
        BY <3>1, <3>2
    <2> QED
      BY <1>5, <1>8, <2>1, <2>4
  <1> QED
    BY <1>7, <1>8 DEF same, list

-----------------------------------------------------------------------------
(* The theorems. *)

\* No client is stored, and no registration has begun.
LEMMA InitIInv == Init => IInv
  <1> SUFFICES ASSUME Init PROVE IInv
    OBVIOUS
  <1>1. TableTyped
    <2>1. Begun = {}
      BY DEF Init, Begun
    <2> QED
      BY <2>1, FS_EmptySet DEF Init, TableTyped
  <1>2. RequestsTyped
    BY NoClientIsClient DEF Init, RequestsTyped, Step, Secret
  <1>3. KeysUnique /\ SecretsFit /\ AnsweredIsStored
    BY DEF Init, KeysUnique, SecretsFit, AnsweredIsStored
  <1> QED
    BY <1>1, <1>2, <1>3 DEF IInv

\* However the registrations interleave, the inductive invariant holds
\* throughout.
THEOREM Invariance == Spec => []IInv
  <1>1. IInv /\ [Next]_vars => IInv'
    BY TableTypedStep, RequestsTypedStep, KeysUniqueStep, SecretsFitStep,
       AnsweredIsStoredStep DEF IInv
  <1> QED
    BY InitIInv, <1>1, PTL DEF Spec

\* The table keeps its shape and its unique keys, and exactly the confidential
\* clients have a secret.
THEOREM TypeCorrect == Spec => []TypeOK
  <1>1. IInv => TypeOK
    <2> SUFFICES ASSUME IInv PROVE TypeOK
      OBVIOUS
    <2>1. drawn \in Number
      BY RegistrationSets DEF IInv, TableTyped, Begun
    <2>2. \A c, d \in clients : c # d =>
             /\ c.clientId # d.clientId /\ c.props.name # d.props.name
             /\ c.props.redirectUris # d.props.redirectUris
      BY DEF IInv, KeysUnique, SameKey
    <2>3. \A c \in clients : c.secret = NoSecret <=> ~ c.props.isConfidential
      BY DEF IInv, SecretsFit, HasItsSecret
    <2> QED
      BY <2>1, <2>2, <2>3 DEF IInv, TableTyped, RequestsTyped, TypeOK
  <1> QED
    BY <1>1, Invariance, PTL

\* The secret a registration was answered authenticates its client and no other,
\* for any number of registrations.
THEOREM ShownSecretsWork == Spec => []ShownSecretWorks
  <1>1. IInv => ShownSecretWorks
    <2> SUFFICES ASSUME IInv, NEW p \in Req, answer[p] = "created"
                 PROVE  /\ \A c \in clients : Authenticates(c, shown[p]) <=>
                              c.clientId = loc[p].clientId /\ c.props.isConfidential
                        /\ loc[p] \in clients
      BY DEF ShownSecretWorks
    <2>1. loc[p] \in clients /\ shown[p] = loc[p].secret
      BY DEF IInv, AnsweredIsStored
    <2>2. ASSUME NEW c \in clients
          PROVE  Authenticates(c, shown[p]) <=>
                    c.clientId = loc[p].clientId /\ c.props.isConfidential
      <3>1. CASE c = loc[p]
        <4>1. c.secret = NoSecret <=> ~ c.props.isConfidential
          BY DEF IInv, SecretsFit, HasItsSecret
        <4> QED
          BY <2>1, <3>1, <4>1, Zenon DEF Authenticates
      <3>2. CASE c # loc[p]
        <4>1. ~ SameKey(c, loc[p])
          BY <2>1, <3>2 DEF IInv, KeysUnique
        <4> QED
          BY <2>1, <4>1 DEF Authenticates, SameKey
      <3> QED
        BY <3>1, <3>2
    <2> QED
      BY <2>1, <2>2
  <1> QED
    BY <1>1, Invariance, PTL

\* An authorization is granted for a URI and scopes the client registered, and
\* always then, whatever the lists of URIs: but for one that cannot be parsed.
THEOREM GrantsAreRegistered == Spec => []GrantedIsRegistered
  <1>1. IInv => GrantedIsRegistered
    <2> SUFFICES ASSUME IInv, NEW c \in clients, NEW u \in Uri,
                        NEW asked \in SUBSET (Scope \cup {Blank})
                 PROVE  LET list == c.props.redirectUris
                            same == {i \in DOMAIN list :
                                        list[i] = u \/ {list[i], u} \subseteq Slashed \cup {Plain}}
                            fits == c.props.scopes = {} \/ \A s \in asked : s \in c.props.scopes
                        IN  /\ Authorized(c, u, asked) => same # {} /\ fits
                            /\ /\ same # {} /\ fits /\ u \notin Malformed
                               /\ \A i \in DOMAIN list :
                                     list[i] \in Malformed => \E j \in same : j < i
                               => Authorized(c, u, asked)
      BY DEF GrantedIsRegistered
    <2>1. c \in Client
      BY DEF IInv, TableTyped
    <2>2. ScopesAllowed(c, asked)
             <=> c.props.scopes = {} \/ \A s \in asked : s \in c.props.scopes
      BY DEF ScopesAllowed
    <2> QED
      BY <2>1, <2>2, VerdictIsRegistered DEF Authorized
  <1> QED
    BY <1>1, Invariance, PTL
===============================================================================
