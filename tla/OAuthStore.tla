------------------------------ MODULE OAuthStore ------------------------------
(***************************************************************************)
(* The OAuth provider and its state file (src/src/oauth.ts): client        *)
(* registration, authorization codes, token pairs, refresh rotation with   *)
(* replay detection, revocation and token verification. Every mutation and *)
(* every read of the store passes through one queue (mutationQueue); the   *)
(* handlers interleave between their awaits, a write may fail and the      *)
(* server may restart.                                                     *)
(*                                                                         *)
(* A call is one HTTP request. A code, a token pair and a grant are named  *)
(* by the call that created them (they are random and never repeat). There *)
(* is one scope and one resource, so the two checks of them are left out.  *)
(***************************************************************************)
EXTENDS Naturals, Sequences, FiniteSets, Functions

CONSTANTS
  Calls,        \* requests, each made once
  Earlier,      \* names the code that is out and the grant that the file holds at first
  Clients,      \* client ids
  NoClient,     \* no client, no grant
  Submitted,    \* the client metadata that registrations may supply
  MaxClients,   \* maxRegisteredClients
  CodeTtl, AccessTtl, RefreshTtl,
  MaxTime,      \* bound: the clock stops there
  MaxFaults     \* bound: failed writes of the state file and restarts of the server

ASSUME OAuthAssumption ==
  /\ Earlier \notin Calls /\ NoClient \notin Clients \cup Calls \cup {Earlier}
  /\ {MaxClients, CodeTtl, AccessTtl, RefreshTtl} \subseteq Nat \ {0}
  /\ {MaxTime, MaxFaults} \subseteq Nat

VARIABLES
  memory,    \* state: the clients and tokens in memory
  prior,     \* snapshot of the mutation at the head of the queue
  disk,      \* the state file
  loadable,  \* whether loadPromise has not failed in this process
  queue,     \* mutationQueue: calls that wait, in order; the head may be running
  codes,     \* authorizationCodes
  call,      \* the requests
  clock,     \* Date.now()
  revoked,   \* history: grants that a committed mutation has revoked
  faults     \* counts the failed writes and the restarts

oauthVars == <<memory, prior, disk, loadable, queue, codes, call, clock, revoked, faults>>

Issuers  == Calls \cup {Earlier}
Access(i)  == <<"access", i>>
Refresh(i) == <<"refresh", i>>
Tokens == {"access", "refresh"} \X Issuers

-----------------------------------------------------------------------------
(* Client metadata: an absent field is the empty set. *)

WithDefaults(m) ==
  [m EXCEPT !.method = IF @ = {} THEN {"client_secret_post"} ELSE @,
            !.grants = IF @ = {} THEN {"authorization_code"} ELSE @,
            !.responses = IF @ = {} THEN {"code"} ELSE @]

MetadataProblem(m) ==
  ~ /\ m.redirects # {} /\ m.redirects \subseteq {"https", "loopback"}
    /\ m.method \subseteq {"none", "client_secret_post"}
    /\ "authorization_code" \in m.grants
    /\ m.grants \subseteq {"authorization_code", "refresh_token"}
    /\ m.responses = {"code"}
    /\ m.scopes \subseteq {"mcp:tools"}

-----------------------------------------------------------------------------
(* The store's state, and what the mutations make of it. *)

Live(s)     == {t \in DOMAIN s.tokens : s.tokens[t].expires > clock}
Pruned(s)   == [s EXCEPT !.tokens = Restrict(@, Live(s))]
Active(s)   == {s.tokens[t].client : t \in DOMAIN s.tokens}
Inactive(s) == DOMAIN s.clients \ Active(s)

\* What makeRoomForClientRegistration() deletes: the oldest inactive clients, no
\* more than it takes. Clients of one second are ordered by their random ids.
Evictions(s) ==
  LET excess == IF Cardinality(DOMAIN s.clients) < MaxClients THEN 0
                ELSE Cardinality(DOMAIN s.clients) + 1 - MaxClients
  IN {E \in SUBSET Inactive(s) :
        /\ Cardinality(E) = excess
        /\ \A c \in E, d \in Inactive(s) \ E : s.clients[c].issued <= s.clients[d].issued}

WithClient(s, E, c, m) ==
  [s EXCEPT !.clients = [x \in (DOMAIN @ \ E) \cup {c} |->
                           IF x = c THEN [issued |-> clock, metadata |-> m] ELSE @[x]]]

Pair(h, c, g, refreshable) ==
  [t \in {Access(h)} \cup (IF refreshable THEN {Refresh(h)} ELSE {}) |->
     IF t = Access(h)
       THEN [type |-> "access", client |-> c, grant |-> g, expires |-> clock + AccessTtl]
       ELSE [type |-> "refresh", client |-> c, grant |-> g, expires |-> clock + RefreshTtl]]

WithPair(s, h, c, g, refreshable) ==
  LET pair == Pair(h, c, g, refreshable)
  IN [s EXCEPT !.tokens = [t \in DOMAIN @ \cup DOMAIN pair |->
                             IF t \in DOMAIN pair THEN pair[t] ELSE @[t]]]

\* revokeGrantWithoutPersist(grantId, preserveReplayEvidence)
WithoutGrant(s, g, evidence) ==
  [s EXCEPT !.tokens = Restrict(@, {t \in DOMAIN @ : \/ @[t].grant # g
                                                     \/ evidence /\ @[t].type = "used_refresh"})]

Owned(s, t, c) == t \in DOMAIN s.tokens /\ s.tokens[t].client = c

Rotated(s, t, h, c) ==
  LET g == IF s.tokens[t].grant = NoClient THEN h ELSE s.tokens[t].grant
  IN WithPair([s EXCEPT !.tokens[t] = [@ EXCEPT !.type = "used_refresh", !.grant = g]], h, c, g, TRUE)

Revoked(s, t, c) ==
  IF ~Owned(s, t, c) THEN s
  ELSE IF s.tokens[t].grant # NoClient THEN WithoutGrant(s, s.tokens[t].grant, FALSE)
  ELSE [s EXCEPT !.tokens = Restrict(@, DOMAIN @ \ {t})]

-----------------------------------------------------------------------------
NotMade == [op |-> "none", client |-> NoClient, arg |-> NoClient, metadata |-> NoClient,
            grant |-> NoClient, pc |-> "idle", answer |-> "none", ends |-> 0, until |-> 0]

\* The server runs, on a file that holds no client, or one with the tokens of an earlier
\* grant and a code just given out, or with tokens that an older version issued without a
\* grantId.
FirstClient(c) ==
  [issued |-> 0, metadata |-> WithDefaults(CHOOSE m \in Submitted : "refresh_token" \in m.grants)]

FirstStore(c, g) ==
  [clients |-> [x \in {c} |-> FirstClient(c)],
   tokens |-> [t \in {Access(Earlier), Refresh(Earlier)} |->
                 [type |-> t[1], client |-> c, grant |-> g,
                  expires |-> IF t[1] = "access" THEN AccessTtl ELSE RefreshTtl]]]

FirstStates ==
  {[clients |-> << >>, tokens |-> << >>]} \cup
  {FirstStore(c, g) : c \in Clients, g \in {Earlier, NoClient}}

Grants(s) == {s.tokens[t].grant : t \in DOMAIN s.tokens}

OAuthInit ==
  /\ disk \in FirstStates
  /\ memory = disk /\ prior = disk /\ loadable = TRUE
  /\ queue = << >> /\ clock = 0
  /\ codes = [k \in {x \in {Earlier} : Earlier \in Grants(disk)} |->
                [client |-> CHOOSE c \in DOMAIN disk.clients : TRUE, expires |-> CodeTtl]]
  /\ call = [h \in Calls |-> NotMade]
  /\ revoked = {} /\ faults = 0

Set(h, pc)      == call' = [call EXCEPT ![h].pc = pc]
Answer(h, a)    == call' = [call EXCEPT ![h].pc = "done", ![h].answer = a]
Refuse(h)       == call' = [call EXCEPT ![h] = [NotMade EXCEPT !.pc = "done", !.answer = "error"]]
AtHead(h, pc)   == queue # << >> /\ Head(queue) = h /\ call[h].pc = pc
Answered(h, op) == call[h].op = op /\ call[h].answer = "ok"

storeVars == <<memory, prior, disk, revoked>>
worldVars == <<loadable, clock, faults>>

\* Codes and tokens a caller can present: the ones some caller was given.
KnownCodes  == {Earlier} \cup {h \in Calls : Answered(h, "authorize")}
KnownTokens == {t \in Tokens : t[2] = Earlier \/ Answered(t[2], "exchange") \/ Answered(t[2], "refresh")}
-----------------------------------------------------------------------------
(* A request arrives. All but a registration and a verification look their client up
   first: both kinds of read wait for the queue, as the mutations do. *)

Arrive(h, request) ==
  /\ call[h].pc = "idle"
  /\ IF loadable THEN call' = [call EXCEPT ![h] = request] /\ queue' = Append(queue, h)
                 ELSE Refuse(h) /\ UNCHANGED queue
  /\ UNCHANGED <<storeVars, codes, worldVars>>

Register(h) ==
  \E c \in Clients, m \in Submitted :
    /\ c \notin DOMAIN memory.clients \cup {call[k].client : k \in Calls}
    /\ ~MetadataProblem(WithDefaults(m))
    /\ Arrive(h, [NotMade EXCEPT !.op = "register", !.client = c, !.pc = "queued",
                                 !.metadata = WithDefaults(m)])

LookUpThen(h, op, Args) ==
  \E c \in DOMAIN memory.clients, a \in Args :
    Arrive(h, [NotMade EXCEPT !.op = op, !.client = c, !.arg = a, !.pc = "lookup"])

Verify(h) ==
  \E t \in KnownTokens :
    Arrive(h, [NotMade EXCEPT !.op = "verify", !.arg = t, !.pc = "queued"])

\* getClient()
GetClient(h) ==
  /\ AtHead(h, "lookup")
  /\ IF call[h].client \in DOMAIN memory.clients
       THEN call' = [call EXCEPT ![h].pc = "found", ![h].metadata = memory.clients[call[h].client].metadata]
       ELSE Refuse(h)
  /\ queue' = Tail(queue)
  /\ UNCHANGED <<storeVars, codes, worldVars>>

Verifies(s, t) ==
  /\ t \in DOMAIN s.tokens /\ s.tokens[t].type = "access" /\ s.tokens[t].expires > clock
  /\ s.tokens[t].client \in DOMAIN s.clients

MutantReadsAtOnce(h) ==
  /\ call[h].pc = "queued" /\ call[h].op = "verify"
  /\ IF Verifies(memory, call[h].arg) THEN Answer(h, "ok") ELSE Refuse(h)
  /\ queue' = SelectSeq(queue, LAMBDA k : k # h)
  /\ UNCHANGED <<storeVars, codes, worldVars>>

\* getAccessToken()
GetAccessToken(h) ==
  /\ AtHead(h, "queued") /\ call[h].op = "verify"
  /\ IF Verifies(memory, call[h].arg) THEN Answer(h, "ok") ELSE Refuse(h)
  /\ queue' = Tail(queue)
  /\ UNCHANGED <<storeVars, codes, worldVars>>
-----------------------------------------------------------------------------
(* The provider's steps between the lookup and the mutation. *)

LiveCodes == Restrict(codes, {k \in DOMAIN codes : codes[k].expires > clock})
Bound(h)  == call[h].arg \in DOMAIN LiveCodes /\ LiveCodes[call[h].arg].client = call[h].client

\* authorize() with the approval key; without it the approval page is shown again.
Authorize(h) ==
  /\ call[h].pc = "found" /\ call[h].op = "authorize"
  /\ codes' = [k \in DOMAIN LiveCodes \cup {h} |->
                 IF k = h THEN [client |-> call[h].client, expires |-> clock + CodeTtl] ELSE codes[k]]
  /\ Answer(h, "ok")
  /\ UNCHANGED <<storeVars, queue, worldVars>>

\* challengeForAuthorizationCode(); the PKCE verifier is checked after it.
Challenge(h) ==
  /\ call[h].pc = "found" /\ call[h].op = "exchange"
  /\ codes' = LiveCodes
  /\ \/ Bound(h) /\ Set(h, "challenged")
     \/ Refuse(h)
  /\ UNCHANGED <<storeVars, queue, worldVars>>

MutantKeepsCode(k) == LiveCodes

Without(k) == Restrict(LiveCodes, DOMAIN LiveCodes \ {k})

\* exchangeAuthorizationCode() up to its await: the code is taken before the pair is issued.
TakeCode(h) ==
  /\ call[h].pc = "challenged"
  /\ IF Bound(h)
       THEN /\ codes' = Without(call[h].arg)
            /\ call' = [call EXCEPT ![h].pc = "queued", ![h].ends = codes[call[h].arg].expires]
            /\ queue' = Append(queue, h)
       ELSE /\ codes' = LiveCodes /\ Refuse(h) /\ UNCHANGED queue
  /\ UNCHANGED <<storeVars, worldVars>>

\* By the client record that the lookup returned, whatever became of it since.
MayRefresh(h) == "refresh_token" \in call[h].metadata.grants

\* exchangeRefreshToken() and revokeToken() up to their awaits.
Mutate(h) ==
  /\ call[h].pc = "found" /\ call[h].op \in {"refresh", "revoke"}
  /\ IF call[h].op = "refresh" /\ ~MayRefresh(h)
       THEN Refuse(h) /\ UNCHANGED queue
       ELSE Set(h, "queued") /\ queue' = Append(queue, h)
  /\ UNCHANGED <<storeVars, codes, worldVars>>
-----------------------------------------------------------------------------
(* mutate(): the head of the queue takes a snapshot, prunes, runs its operation and
   writes the file. *)

Run(h, op, s, result, g) ==
  /\ AtHead(h, "queued") /\ call[h].op = op
  /\ prior' = memory /\ memory' = s
  /\ call' = [call EXCEPT ![h].pc = result, ![h].grant = g, ![h].until = clock]
  /\ UNCHANGED <<disk, revoked, queue, codes, worldVars>>

Now == Pruned(memory)

RunRegister(h) ==
  \E E \in Evictions(Now) :
    Run(h, "register", WithClient(Now, E, call[h].client, call[h].metadata), "granting", NoClient)

\* makeRoomForClientRegistration() throws: the snapshot is restored.
RegistryFull(h) ==
  /\ AtHead(h, "queued") /\ call[h].op = "register" /\ Evictions(Now) = {}
  /\ Refuse(h) /\ queue' = Tail(queue)
  /\ UNCHANGED <<storeVars, codes, worldVars>>

RunIssue(h) ==
  Run(h, "exchange", WithPair(Now, h, call[h].client, h, MayRefresh(h)), "granting", h)

Presented(h) == Owned(Now, call[h].arg, call[h].client)
TypeOfArg(h) == Now.tokens[call[h].arg].type
GrantOf(h)   == IF Presented(h) THEN Now.tokens[call[h].arg].grant ELSE NoClient

RunRotate(h) ==
  /\ Presented(h) /\ TypeOfArg(h) = "refresh"
  /\ Run(h, "refresh", Rotated(Now, call[h].arg, h, call[h].client), "granting",
         IF GrantOf(h) = NoClient THEN h ELSE GrantOf(h))

\* A used refresh token: the grant ends, and the evidence stays.
RunReplay(h) ==
  /\ Presented(h) /\ TypeOfArg(h) = "used_refresh"
  /\ Run(h, "refresh", WithoutGrant(Now, GrantOf(h), TRUE), "refusing", GrantOf(h))

RunInvalid(h) ==
  /\ Presented(h) => TypeOfArg(h) = "access"
  /\ Run(h, "refresh", Now, "refusing", NoClient)

RunRevoke(h) == Run(h, "revoke", Revoked(Now, call[h].arg, call[h].client), "granting", GrantOf(h))

\* What the mutation of call h ends when it is committed.
Ends(h) == IF call[h].op = "revoke" \/ call[h].pc = "refusing" THEN {call[h].grant} \ {NoClient} ELSE {}

Running(h) == AtHead(h, call[h].pc) /\ call[h].pc \in {"granting", "refusing"}

Persist(h) ==
  /\ Running(h)
  /\ disk' = memory
  /\ revoked' = revoked \cup Ends(h)
  /\ IF call[h].pc = "granting" THEN Answer(h, "ok") ELSE Refuse(h)
  /\ queue' = Tail(queue) /\ prior' = memory
  /\ UNCHANGED <<memory, codes, worldVars>>

MutantNoRollback == memory

RolledBack == prior

PersistFails(h) ==
  /\ Running(h)
  /\ faults < MaxFaults /\ faults' = faults + 1
  /\ memory' = RolledBack
  /\ IF call[h].op = "exchange" THEN Set(h, "failed") ELSE Refuse(h)
  /\ queue' = Tail(queue)
  /\ UNCHANGED <<prior, disk, revoked, codes, loadable, clock>>

\* The catch of exchangeAuthorizationCode(): the code may be presented again.
GiveBackCode(h) ==
  /\ call[h].pc = "failed"
  /\ codes' = IF call[h].ends > clock /\ call[h].arg \notin DOMAIN codes
                THEN [k \in DOMAIN codes \cup {call[h].arg} |->
                        IF k = call[h].arg THEN [client |-> call[h].client, expires |-> call[h].ends]
                        ELSE codes[k]]
                ELSE codes
  /\ Refuse(h)
  /\ UNCHANGED <<storeVars, queue, worldVars>>
-----------------------------------------------------------------------------
Tick ==
  /\ clock < MaxTime /\ clock' = clock + 1
  /\ UNCHANGED <<storeVars, queue, codes, call, loadable, faults>>

\* The server stops at any point; a write that was under way is found done or not. The
\* next process loads the file on its first use, or fails to and refuses every call.
Restart ==
  /\ faults < MaxFaults /\ faults' = faults + 1
  /\ \/ disk' = disk /\ revoked' = revoked
     \/ \E h \in Calls : Running(h) /\ disk' = memory /\ revoked' = revoked \cup Ends(h)
  /\ memory' = disk' /\ prior' = disk'
  /\ loadable' \in BOOLEAN
  /\ queue' = << >> /\ codes' = << >>
  /\ call' = [h \in Calls |-> IF call[h].pc \in {"idle", "done"} THEN call[h]
                              ELSE [call[h] EXCEPT !.pc = "done", !.answer = "lost"]]
  /\ UNCHANGED clock

OAuthNext ==
  \/ \E h \in Calls :
       \/ Register(h) \/ Verify(h)
       \/ LookUpThen(h, "authorize", {NoClient}) \/ LookUpThen(h, "exchange", KnownCodes)
       \/ LookUpThen(h, "refresh", KnownTokens \ {Access(i) : i \in Issuers}) \/ LookUpThen(h, "revoke", KnownTokens)
       \/ GetClient(h) \/ GetAccessToken(h)
       \/ Authorize(h) \/ Challenge(h) \/ TakeCode(h) \/ Mutate(h)
       \/ RunRegister(h) \/ RegistryFull(h) \/ RunIssue(h) \/ RunRotate(h)
       \/ RunReplay(h) \/ RunInvalid(h) \/ RunRevoke(h)
       \/ Persist(h) \/ PersistFails(h) \/ GiveBackCode(h)
  \/ Tick
  \/ Restart

OAuthSpec == OAuthInit /\ [][OAuthNext]_oauthVars
-----------------------------------------------------------------------------
(* Properties. *)

\* The state of the provider and of its requests has its type, the registry never
\* outgrows maxRegisteredClients, and the queue holds each waiting request once.
OAuthTypeOK ==
  /\ \A s \in {memory, prior, disk} :
       /\ DOMAIN s.clients \subseteq Clients /\ Cardinality(DOMAIN s.clients) <= MaxClients
       /\ DOMAIN s.tokens \subseteq Tokens
       /\ \A t \in DOMAIN s.tokens :
            s.tokens[t] \in [type : {"access", "refresh", "used_refresh"}, client : Clients,
                             grant : Issuers \cup {NoClient}, expires : Nat]
  /\ DOMAIN codes \subseteq Issuers
  /\ {queue[i] : i \in 1..Len(queue)} =
       {h \in Calls : call[h].pc \in {"lookup", "queued", "granting", "refusing"}}
  /\ Len(queue) = Cardinality({queue[i] : i \in 1..Len(queue)})
  /\ clock \in 0..MaxTime

\* What a call has given out, or may still: its answer, or its tokens in the file.
Yields(h) == call[h].answer = "ok" \/ {Access(h), Refresh(h)} \cap DOMAIN disk.tokens # {}

\* An authorization code buys one token pair and a refresh token has one successor pair,
\* however the calls that present it interleave, and over failed writes (which give the
\* code back) and restarts: no two exchanges of a code, and no two refreshes of a token,
\* were answered with tokens or left tokens in the file.
SingleUse ==
  \A h, k \in Calls :
    /\ h # k /\ call[h].op = call[k].op /\ call[h].op \in {"exchange", "refresh"}
    /\ call[h].arg = call[k].arg
    => ~(Yields(h) /\ Yields(k))

\* Where a caller's tokens are to be found: in the file, and in memory while no mutation
\* is being written.
Stores == {disk} \cup (IF \E h \in Calls : Running(h) THEN {} ELSE {memory})

\* A token pair that a caller was given is in the state file, and in memory between two
\* mutations, for its client, until it expires or its grant is revoked by a committed
\* mutation: no failed write, no other call's mutation and no restart takes it away.
AnswersSurvive ==
  \A h \in Calls, s \in Stores :
    Answered(h, "exchange") \/ Answered(h, "refresh") =>
      \/ call[h].grant \in revoked
      \/ /\ clock >= call[h].until + AccessTtl \/ Owned(s, Access(h), call[h].client)
         /\ \/ clock >= call[h].until + RefreshTtl
            \/ call[h].op = "exchange" /\ ~MayRefresh(h)
            \/ Owned(s, Refresh(h), call[h].client)

\* Once the revocation of a grant, or the replay of one of its used refresh tokens, is
\* committed, no usable token of the grant exists again, in memory or in the file: a
\* rotation that raced it, a rollback or a restart does not bring one back.
RevokedStaysRevoked ==
  \A g \in revoked, s \in {memory, disk} :
    \A t \in DOMAIN s.tokens : s.tokens[t].grant = g => s.tokens[t].type = "used_refresh"

\* What was spent stays spent: single use and revocation, together.
SpentStaysSpent == OAuthTypeOK /\ SingleUse /\ RevokedStaysRevoked

\* A verification gives the verdict that the state file gives: it never accepts a pair nor
\* refuses a token because of a rotation, a revocation or an eviction that is still being
\* written and that a failed write would take back.
VerdictIsDurable ==
  [][\A h \in Calls :
       /\ call[h].op = "verify" /\ call[h].pc = "queued"
       /\ call'[h].pc = "done" /\ call'[h].answer # "lost"
       => (call'[h].answer = "ok") = Verifies(disk, call[h].arg)]_oauthVars
=============================================================================
