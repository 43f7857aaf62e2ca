--------------------------- MODULE OAuthStore_proofs ---------------------------
(***************************************************************************)
(* SpentStaysSpent, AnswersSurvive and VerdictIsDurable for every set of   *)
(* calls, clients and client metadata, every time to live and any number   *)
(* of failed writes and restarts.                                          *)
(***************************************************************************)
EXTENDS OAuthStore, FiniteSetTheorems, SequenceTheorems, TLAPS

-----------------------------------------------------------------------------
(* The inductive invariant: the shape of the state.                         *)

Metadata == {WithDefaults(m) : m \in Submitted \cup {CHOOSE m \in Submitted : "refresh_token" \in m.grants}}

TokenRecord  == [type : {"access", "refresh", "used_refresh"}, client : Clients,
                 grant : Issuers \cup {NoClient}, expires : Nat]
ClientRecord == [issued : Nat, metadata : Metadata]

StoreOK(s) ==
  /\ s = [clients |-> s.clients, tokens |-> s.tokens]
  /\ s.clients \in [DOMAIN s.clients -> ClientRecord] /\ DOMAIN s.clients \subseteq Clients
  /\ IsFiniteSet(DOMAIN s.clients) /\ Cardinality(DOMAIN s.clients) <= MaxClients
  /\ s.tokens \in [DOMAIN s.tokens -> TokenRecord] /\ DOMAIN s.tokens \subseteq Tokens

Waiting == {"lookup", "queued", "granting", "refusing"}
Writing == {"granting", "refusing"}

CallRecord ==
  [op : {"none", "register", "authorize", "exchange", "refresh", "revoke", "verify"},
   client : Clients \cup {NoClient}, arg : {NoClient} \cup Issuers \cup Tokens,
   metadata : Metadata \cup {NoClient}, grant : Issuers \cup {NoClient},
   pc : Waiting \cup {"idle", "found", "challenged", "failed", "done"},
   answer : {"none", "ok", "error", "lost"}, ends : Nat, until : Nat]

\* What the fields of a request mean where its handler stands.
CallOK(h) ==
  /\ call[h].answer # "none" => call[h].pc = "done"
  /\ call[h].pc = "idle" => call[h].op = "none"
  /\ call[h].pc \notin {"idle", "done"} => call[h].op # "none" /\ (call[h].op # "verify" => call[h].client \in Clients)
  /\ call[h].pc \in {"queued", "granting", "refusing"} => call[h].op # "authorize"
  /\ call[h].pc \in {"challenged", "failed"} => call[h].op = "exchange"
  /\ call[h].op = "register" => call[h].metadata \in Metadata
  /\ call[h].op = "exchange" => call[h].arg \in KnownCodes
  /\ call[h].op = "refresh" => call[h].arg \in KnownTokens /\ call[h].arg[1] = "refresh"
  /\ call[h].op = "exchange" /\ call[h].pc = "granting" => call[h].grant = h
  /\ call[h].pc = "refusing" => call[h].op # "exchange"

QueueOK ==
  /\ queue \in Seq(Calls)
  /\ \A i, j \in 1..Len(queue) : queue[i] = queue[j] => i = j
  /\ {queue[i] : i \in 1..Len(queue)} = {h \in Calls : call[h].pc \in Waiting}

ShapeInv ==
  /\ StoreOK(memory) /\ StoreOK(prior) /\ StoreOK(disk)
  /\ codes \in [DOMAIN codes -> [client : Clients, expires : Nat]] /\ DOMAIN codes \subseteq KnownCodes
  /\ call \in [Calls -> CallRecord] /\ \A h \in Calls : CallOK(h)
  /\ QueueOK
  /\ loadable \in BOOLEAN /\ clock \in 0..MaxTime /\ revoked \subseteq Issuers /\ faults \in Nat

-----------------------------------------------------------------------------
(* The inductive invariant: what memory, the file and the answers agree on. *)

\* Only the head of the queue writes, and what a failed write restores is the file.
WriterInv ==
  /\ prior = disk
  /\ (\A h \in Calls : call[h].pc \notin Writing) => memory = disk
  /\ \A h \in Calls : call[h].pc \in Writing => queue # << >> /\ Head(queue) = h

\* A token in s is of the call that issued it, which has come as far as one of pcs.
TokensOK(s, pcs) ==
  \A t \in DOMAIN s.tokens :
    LET r == s.tokens[t] IN
      /\ t[1] = "access" <=> r.type = "access"
      /\ r.type = "used_refresh" => r.grant # NoClient
      /\ r.grant \in Calls => call[r.grant].pc \in pcs
      /\ t[2] # Earlier =>
           /\ call[t[2]].op \in {"exchange", "refresh"} /\ call[t[2]].pc \in pcs
           /\ call[t[2]].answer # "error"
           /\ r.grant # NoClient /\ r.grant = call[t[2]].grant /\ r.client = call[t[2]].client

TokenInv ==
  /\ TokensOK(disk, {"done"}) /\ TokensOK(memory, {"done", "granting"})
  /\ \A t \in DOMAIN memory.tokens \ DOMAIN disk.tokens : t[2] \in Calls /\ call[t[2]].pc = "granting"

\* A call that holds a code, or that spends what it presented or has spent it.
Claims(h) ==
  \/ call[h].op = "exchange" /\ call[h].pc \in {"queued", "granting", "failed"}
  \/ call[h].op = "refresh" /\ call[h].pc = "granting"
  \/ call[h].op \in {"exchange", "refresh"} /\ Yields(h)

Spent(s, t) == t \in DOMAIN s.tokens => s.tokens[t].type # "refresh"

ClaimInv ==
  /\ \A h \in Calls : Claims(h) /\ call[h].op = "exchange" => call[h].arg \notin DOMAIN codes
  /\ \A h \in Calls : Claims(h) /\ call[h].op = "refresh" =>
       Spent(memory, call[h].arg) /\ (Yields(h) => Spent(disk, call[h].arg))
  /\ \A h, k \in Calls :
       h # k /\ call[h].op = call[k].op /\ call[h].arg = call[k].arg => ~(Claims(h) /\ Claims(k))

\* No token of the grant g in s can be used.
Dead(s, g) == \A t \in DOMAIN s.tokens : s.tokens[t].grant = g => s.tokens[t].type = "used_refresh"

RevokedInv ==
  /\ \A g \in revoked : Dead(memory, g) /\ Dead(disk, g) /\ (g \in Calls => call[g].pc = "done")
  /\ \A h \in Calls : call[h].pc \in Writing => \A g \in Ends(h) : Dead(memory, g) /\ (g \in Calls => call[g].pc = "done")

Ttl(t) == IF t[1] = "access" THEN AccessTtl ELSE RefreshTtl

\* The pair that call h, of record r, was given is in s, unless its grant is among those in R.
KeptAs(r, h, now, s, R) ==
  \/ r.grant \in R
  \/ /\ now >= r.until + AccessTtl \/ Owned(s, Access(h), r.client)
     /\ \/ now >= r.until + RefreshTtl
        \/ r.op = "exchange" /\ "refresh_token" \notin r.metadata.grants
        \/ Owned(s, Refresh(h), r.client)

Kept(h, s, R) == KeptAs(call[h], h, clock, s, R)

\* When the tokens of a call expire.
ExpiryOK(s) ==
  \A t \in DOMAIN s.tokens :
    t[2] # Earlier => s.tokens[t].expires = call[t[2]].until + Ttl(t)

KeptInv ==
  /\ ExpiryOK(memory) /\ ExpiryOK(disk)
  /\ \A h \in Calls :
       Answered(h, "exchange") \/ Answered(h, "refresh") =>
         /\ Kept(h, disk, revoked)
         /\ \A k \in Calls : call[k].pc \in Writing => Kept(h, memory, revoked \cup Ends(k))
  /\ \A k \in Calls :
       call[k].pc = "granting" /\ call[k].op \in {"exchange", "refresh"} => Kept(k, memory, {})

OAuthInv == ShapeInv /\ WriterInv /\ TokenInv /\ ClaimInv /\ RevokedInv /\ KeptInv

-----------------------------------------------------------------------------
(* The operators of the store.                                              *)

LEMMA Names ==
  /\ \A i \in Issuers : Access(i) \in Tokens /\ Refresh(i) \in Tokens
  /\ \A i \in Issuers : /\ Access(i)[1] = "access" /\ Access(i)[2] = i
                        /\ Refresh(i)[1] = "refresh" /\ Refresh(i)[2] = i
  /\ \A t \in Tokens : t[2] \in Issuers /\ ((t = Access(t[2]) /\ t[1] = "access") \/ (t = Refresh(t[2]) /\ t[1] = "refresh"))
  /\ Calls \subseteq Issuers /\ Earlier \in Issuers /\ Earlier \notin Calls
  /\ NoClient \notin Issuers /\ NoClient \notin Clients
BY OAuthAssumption DEF Access, Refresh, Tokens, Issuers

LEMMA PrunedOK ==
  ASSUME NEW s, StoreOK(s)
  PROVE  /\ StoreOK(Pruned(s)) /\ Pruned(s).clients = s.clients
         /\ DOMAIN Pruned(s).tokens = Live(s) /\ Live(s) \subseteq DOMAIN s.tokens
         /\ \A t \in Live(s) : Pruned(s).tokens[t] = s.tokens[t]
<1> DEFINE p == [t \in Live(s) |-> s.tokens[t]]
<1>1. Live(s) \subseteq DOMAIN s.tokens
  BY DEF Live
<1>2. Pruned(s) = [clients |-> s.clients, tokens |-> p]
  BY DEF Pruned, Restrict, StoreOK
<1>3. p \in [DOMAIN p -> TokenRecord] /\ DOMAIN p = Live(s)
  BY <1>1 DEF StoreOK
<1> QED
  BY <1>1, <1>2, <1>3 DEF StoreOK

\* The tokens of the pair that WithPair() adds.
Names2(h, refreshable) == {Access(h)} \cup (IF refreshable THEN {Refresh(h)} ELSE {})
Both(h) == {Access(h), Refresh(h)}

PairRecord(t, c, g) ==
  [type |-> t[1], client |-> c, grant |-> g,
   expires |-> clock + Ttl(t)]

LEMMA WithPairOK ==
  ASSUME NEW s, StoreOK(s), NEW h \in Calls, NEW c \in Clients, NEW g \in Issuers, NEW refreshable,
         clock \in Nat, NEW w, w = WithPair(s, h, c, g, refreshable)
  PROVE  /\ StoreOK(w) /\ w.clients = s.clients
         /\ DOMAIN w.tokens = DOMAIN s.tokens \cup Names2(h, refreshable)
         /\ \A t \in Names2(h, refreshable) : w.tokens[t] = PairRecord(t, c, g)
         /\ \A t \in DOMAIN s.tokens \ Names2(h, refreshable) : w.tokens[t] = s.tokens[t]
<1> DEFINE pair == Pair(h, c, g, refreshable)
           all  == DOMAIN s.tokens \cup Names2(h, refreshable)
<1>1. Names2(h, refreshable) \subseteq Tokens
  BY Names DEF Names2
<1>2. DOMAIN pair = Names2(h, refreshable)
  BY DEF Pair, Names2
<1>3. ASSUME NEW t \in Names2(h, refreshable)
      PROVE  pair[t] = PairRecord(t, c, g)
  <2>1. CASE t = Access(h)
    BY <2>1, <1>3 DEF Pair, PairRecord, Ttl, Names2, Access
  <2>2. CASE t = Refresh(h) /\ t # Access(h)
    BY <2>2, <1>3 DEF Pair, PairRecord, Ttl, Names2, Refresh
  <2> QED BY <2>1, <2>2, <1>3 DEF Names2
<1>4. ASSUME NEW t \in Names2(h, refreshable)
      PROVE  PairRecord(t, c, g) \in TokenRecord
  <2>1. t[1] \in {"access", "refresh"}
    BY Names, <1>1, <1>4
  <2>2. AccessTtl \in Nat /\ RefreshTtl \in Nat
    BY OAuthAssumption
  <2> QED BY <2>1, <2>2 DEF PairRecord, Ttl, TokenRecord
<1>5. w = [clients |-> s.clients,
           tokens |-> [t \in all |-> IF t \in Names2(h, refreshable) THEN pair[t] ELSE s.tokens[t]]]
  BY <1>2 DEF WithPair, StoreOK
<1>6. /\ w.clients = s.clients /\ DOMAIN w.tokens = all
      /\ \A t \in Names2(h, refreshable) : w.tokens[t] = PairRecord(t, c, g)
      /\ \A t \in DOMAIN s.tokens \ Names2(h, refreshable) : w.tokens[t] = s.tokens[t]
  BY <1>3, <1>5
<1>7. w.tokens \in [all -> TokenRecord]
  BY <1>3, <1>4, <1>5 DEF StoreOK
<1>8. StoreOK(w)
  BY <1>1, <1>5, <1>6, <1>7 DEF StoreOK
<1> QED BY <1>6, <1>8

LEMMA WithoutGrantOK ==
  ASSUME NEW s, StoreOK(s), NEW g, NEW evidence, NEW w, w = WithoutGrant(s, g, evidence)
  PROVE  /\ StoreOK(w) /\ w.clients = s.clients /\ DOMAIN w.tokens \subseteq DOMAIN s.tokens
         /\ \A t \in DOMAIN w.tokens : w.tokens[t] = s.tokens[t]
         /\ \A t \in DOMAIN s.tokens \ DOMAIN w.tokens : s.tokens[t].grant = g
         /\ Dead(w, g)
<1> DEFINE left == {t \in DOMAIN s.tokens : s.tokens[t].grant # g \/ (evidence /\ s.tokens[t].type = "used_refresh")}
<1>1. w = [clients |-> s.clients, tokens |-> [t \in left |-> s.tokens[t]]]
  BY DEF WithoutGrant, Restrict, StoreOK
<1>2. [t \in left |-> s.tokens[t]] \in [left -> TokenRecord]
  BY DEF StoreOK
<1>3. StoreOK(w)
  BY <1>1, <1>2 DEF StoreOK
<1> QED BY <1>1, <1>3 DEF Dead

\* A rotation spends t and adds a pair of the same grant, or of a new one.
LEMMA RotatedOK ==
  ASSUME NEW s, StoreOK(s), NEW h \in Calls, NEW c \in Clients, NEW t \in DOMAIN s.tokens, clock \in Nat,
         t \notin Both(h), NEW w, w = Rotated(s, t, h, c),
         NEW g, g = IF s.tokens[t].grant = NoClient THEN h ELSE s.tokens[t].grant
  PROVE  /\ StoreOK(w) /\ w.clients = s.clients
         /\ DOMAIN w.tokens = DOMAIN s.tokens \cup Both(h)
         /\ \A u \in Both(h) : w.tokens[u] = PairRecord(u, c, g)
         /\ \A u \in DOMAIN s.tokens \ (Both(h) \cup {t}) : w.tokens[u] = s.tokens[u]
         /\ w.tokens[t].type = "used_refresh" /\ w.tokens[t].grant = g
         /\ w.tokens[t].client = s.tokens[t].client /\ w.tokens[t].expires = s.tokens[t].expires
<1> DEFINE r == [s.tokens[t] EXCEPT !.type = "used_refresh", !.grant = g]
           v == [s EXCEPT !.tokens[t] = [@ EXCEPT !.type = "used_refresh", !.grant = g]]
<1>1. s.tokens[t] \in TokenRecord /\ g \in Issuers
  BY Names DEF StoreOK, TokenRecord
<1>2. r \in TokenRecord
  BY <1>1 DEF TokenRecord
<1>3. v = [clients |-> s.clients, tokens |-> [s.tokens EXCEPT ![t] = r]]
  BY DEF StoreOK
<1>4. [s.tokens EXCEPT ![t] = r] \in [DOMAIN s.tokens -> TokenRecord]
  BY <1>2 DEF StoreOK
<1>5. StoreOK(v) /\ v.clients = s.clients /\ DOMAIN v.tokens = DOMAIN s.tokens
  BY <1>3, <1>4 DEF StoreOK
<1>6. v.tokens[t] = r /\ \A u \in DOMAIN s.tokens \ {t} : v.tokens[u] = s.tokens[u]
  BY <1>3, <1>4 DEF StoreOK
<1> DEFINE yes == TRUE
<1>7. w = WithPair(v, h, c, g, yes) /\ Names2(h, yes) = Both(h)
  BY DEF Rotated, Names2, Both
<1> HIDE DEF v, r, yes
<1>8. /\ StoreOK(w) /\ w.clients = v.clients
      /\ DOMAIN w.tokens = DOMAIN v.tokens \cup Both(h)
      /\ \A u \in Both(h) : w.tokens[u] = PairRecord(u, c, g)
      /\ \A u \in DOMAIN v.tokens \ Both(h) : w.tokens[u] = v.tokens[u]
  BY <1>1, <1>5, <1>7, WithPairOK
<1>9. /\ r.type = "used_refresh" /\ r.grant = g
      /\ r.client = s.tokens[t].client /\ r.expires = s.tokens[t].expires
  BY <1>1 DEF r, TokenRecord
<1> QED BY <1>5, <1>6, <1>8, <1>9

LEMMA RevokedOK ==
  ASSUME NEW s, StoreOK(s), NEW t, NEW c, NEW w, w = Revoked(s, t, c),
         NEW g, g = IF Owned(s, t, c) THEN s.tokens[t].grant ELSE NoClient
  PROVE  /\ StoreOK(w) /\ w.clients = s.clients /\ DOMAIN w.tokens \subseteq DOMAIN s.tokens
         /\ \A u \in DOMAIN w.tokens : w.tokens[u] = s.tokens[u]
         /\ \A u \in DOMAIN s.tokens \ DOMAIN w.tokens : s.tokens[u].grant = g
         /\ g # NoClient => Dead(w, g)
<1>1. CASE ~Owned(s, t, c)
  BY <1>1 DEF Revoked
<1>2. CASE Owned(s, t, c) /\ s.tokens[t].grant # NoClient
  <2> DEFINE no == FALSE
  <2>1. w = WithoutGrant(s, g, no)
    BY <1>2 DEF Revoked
  <2> HIDE DEF no
  <2> QED BY <2>1, WithoutGrantOK
<1>3. CASE Owned(s, t, c) /\ s.tokens[t].grant = NoClient
  <2> DEFINE left == DOMAIN s.tokens \ {t}
  <2>1. w = [clients |-> s.clients, tokens |-> [u \in left |-> s.tokens[u]]]
    BY <1>3 DEF Revoked, Restrict, StoreOK
  <2>2. [u \in left |-> s.tokens[u]] \in [left -> TokenRecord]
    BY DEF StoreOK
  <2>3. StoreOK(w)
    BY <2>1, <2>2 DEF StoreOK
  <2> QED BY <1>3, <2>1, <2>3
<1> QED BY <1>1, <1>2, <1>3

\* A registration makes room for itself: the registry stays within its limit.
LEMMA WithClientOK ==
  ASSUME NEW s, StoreOK(s), NEW E \in Evictions(s), NEW c \in Clients, NEW m \in Metadata, clock \in Nat,
         NEW w, w = WithClient(s, E, c, m)
  PROVE  StoreOK(w) /\ w.tokens = s.tokens
<1> DEFINE D   == DOMAIN s.clients
           all == (D \ E) \cup {c}
           n   == IF Cardinality(D) < MaxClients THEN 0 ELSE Cardinality(D) + 1 - MaxClients
<1>1. E \subseteq D /\ Cardinality(E) = n
  BY DEF Evictions, Inactive
<1>2. IsFiniteSet(D) /\ Cardinality(D) \in Nat /\ Cardinality(D) <= MaxClients /\ MaxClients \in Nat
  BY FS_CardinalityType, OAuthAssumption DEF StoreOK
<1>3. IsFiniteSet(D \ E) /\ Cardinality(D \ E) = Cardinality(D) - n
  <2>1. IsFiniteSet(E) /\ D \cap E = E
    BY <1>1, <1>2, FS_Subset
  <2>2. Cardinality(D \ E) = Cardinality(D) - Cardinality(D \cap E) /\ IsFiniteSet(D \ E)
    BY <1>2, FS_Difference
  <2> QED BY <1>1, <2>1, <2>2
<1>4. Cardinality(D \ E) \in Nat
  BY <1>3, FS_CardinalityType
<1>5. IsFiniteSet(all) /\ Cardinality(all) <= Cardinality(D \ E) + 1
  <2>1. /\ IsFiniteSet((D \ E) \cup {c})
        /\ Cardinality((D \ E) \cup {c}) = IF c \in D \ E THEN Cardinality(D \ E) ELSE Cardinality(D \ E) + 1
    BY <1>3, FS_AddElement
  <2> QED BY <1>4, <2>1
<1>6. Cardinality(all) <= MaxClients
  BY <1>2, <1>3, <1>4, <1>5, FS_CardinalityType
<1>7. w = [clients |-> [x \in all |-> IF x = c THEN [issued |-> clock, metadata |-> m] ELSE s.clients[x]],
           tokens |-> s.tokens]
  BY DEF WithClient, StoreOK
<1>8. w.clients \in [all -> ClientRecord] /\ all \subseteq Clients
  BY <1>7 DEF StoreOK, ClientRecord
<1> QED BY <1>5, <1>6, <1>7, <1>8 DEF StoreOK

-----------------------------------------------------------------------------
(* What every mutation makes of the store that it starts from.              *)

\* Token t of memory' was in memory, as it is or as the one that a rotation spends.
Inherited(h, t) ==
  /\ t \in DOMAIN memory.tokens
  /\ \/ memory'.tokens[t] = memory.tokens[t]
     \/ /\ call[h].op = "refresh" /\ call'[h].pc = "granting" /\ t = call[h].arg
        /\ memory.tokens[t].type = "refresh" /\ memory'.tokens[t].type = "used_refresh"
        /\ memory'.tokens[t].client = memory.tokens[t].client
        /\ memory'.tokens[t].expires = memory.tokens[t].expires
        /\ memory'.tokens[t].grant = call'[h].grant
        /\ memory.tokens[t].grant \in {NoClient, call'[h].grant}

\* Token t of memory' is of the pair that call h is given.
Given(h, t) ==
  /\ t \in Both(h) /\ call[h].op \in {"exchange", "refresh"} /\ call'[h].pc = "granting"
  /\ memory'.tokens[t] = PairRecord(t, call[h].client, call'[h].grant)

RunsTo(h, pc, g) == call' = [call EXCEPT ![h].pc = pc, ![h].grant = g, ![h].until = clock]

\* Where the grant of a mutation comes from.
GrantFrom(h) ==
  IF call[h].op \in {"exchange", "refresh"} /\ call'[h].pc = "granting"
    THEN \/ call'[h].grant = h
         \/ /\ call'[h].grant # NoClient
            /\ \E t \in DOMAIN memory.tokens :
                 memory.tokens[t].grant = call'[h].grant /\ memory.tokens[t].type = "refresh"
    ELSE \/ call'[h].grant = NoClient
         \/ \E t \in DOMAIN memory.tokens : memory.tokens[t].grant = call'[h].grant

Mutates(h) ==
  /\ AtHead(h, "queued") /\ call[h].op \in {"register", "exchange", "refresh", "revoke"}
  /\ prior' = memory /\ StoreOK(memory')
  /\ \E pc \in Writing, g \in Issuers \cup {NoClient} : RunsTo(h, pc, g)
  /\ UNCHANGED <<disk, revoked, queue, codes, worldVars>>
  /\ \A t \in DOMAIN memory'.tokens : Inherited(h, t) \/ Given(h, t)
  /\ \A t \in DOMAIN memory.tokens \ DOMAIN memory'.tokens :
       memory.tokens[t].expires <= clock \/ memory.tokens[t].grant \in Ends(h)' \cup {NoClient}
  /\ \A g \in Ends(h)' : Dead(memory', g)
  /\ GrantFrom(h)
  /\ call[h].op = "exchange" => call'[h].pc = "granting" /\ call'[h].grant = h
  /\ call[h].op = "refresh" /\ call'[h].pc = "granting" =>
       /\ call[h].arg \in DOMAIN memory.tokens /\ memory.tokens[call[h].arg].type = "refresh"
       /\ Spent(memory', call[h].arg)
  /\ call[h].op \in {"exchange", "refresh"} /\ call'[h].pc = "granting" =>
       /\ Access(h) \in DOMAIN memory'.tokens
       /\ (call[h].op = "refresh" \/ MayRefresh(h)) => Refresh(h) \in DOMAIN memory'.tokens

\* The call under a Run step.
LEMMA RunCall ==
  ASSUME ShapeInv, NEW h \in Calls, NEW pc \in Writing, NEW g \in Issuers \cup {NoClient}, RunsTo(h, pc, g)
  PROVE  /\ call'[h].pc = pc /\ call'[h].grant = g /\ call'[h].until = clock
         /\ call'[h].op = call[h].op /\ call'[h].client = call[h].client /\ call'[h].arg = call[h].arg
         /\ call'[h].metadata = call[h].metadata /\ call'[h].answer = call[h].answer
         /\ call'[h].ends = call[h].ends
         /\ \A k \in Calls \ {h} : call'[k] = call[k]
         /\ call' \in [Calls -> CallRecord]
<1> DEFINE r == [call[h] EXCEPT !.pc = pc, !.grant = g, !.until = clock]
<1>1. call \in [Calls -> CallRecord] /\ clock \in Nat /\ pc \in Waiting /\ call[h] \in CallRecord
  BY DEF ShapeInv, Writing, Waiting
<1>2. call' = [call EXCEPT ![h] = r]
  BY <1>1 DEF RunsTo
<1>3. /\ r.pc = pc /\ r.grant = g /\ r.until = clock /\ r.op = call[h].op /\ r.client = call[h].client
      /\ r.arg = call[h].arg /\ r.metadata = call[h].metadata /\ r.answer = call[h].answer
      /\ r.ends = call[h].ends
  BY <1>1 DEF CallRecord
<1>4. r \in CallRecord
  BY <1>1 DEF CallRecord
<1> HIDE DEF r
<1>5. call' \in [Calls -> CallRecord] /\ call'[h] = r /\ \A k \in Calls \ {h} : call'[k] = call[k]
  BY <1>1, <1>2, <1>4
<1> QED
  BY <1>3, <1>5

\* A queued mutation, and what it starts from.
LEMMA Queued ==
  ASSUME ShapeInv, NEW h \in Calls, AtHead(h, "queued"),
         call[h].op \in {"register", "exchange", "refresh", "revoke"}
  PROVE  /\ call[h].client \in Clients /\ clock \in Nat /\ call[h] \in CallRecord
         /\ StoreOK(Now) /\ Now.clients = memory.clients /\ DOMAIN Now.tokens \subseteq DOMAIN memory.tokens
         /\ \A t \in DOMAIN Now.tokens : Now.tokens[t] = memory.tokens[t]
         /\ \A t \in DOMAIN memory.tokens \ DOMAIN Now.tokens : memory.tokens[t].expires <= clock
<1>1. CallOK(h) /\ call[h].pc = "queued" /\ clock \in Nat /\ StoreOK(memory) /\ call[h] \in CallRecord
  BY DEF ShapeInv, AtHead
<1>2. call[h].client \in Clients
  BY <1>1 DEF CallOK
<1>3. \A t \in DOMAIN memory.tokens : memory.tokens[t].expires \in Nat
  BY <1>1 DEF StoreOK, TokenRecord
<1>4. \A t \in DOMAIN memory.tokens \ Live(memory) : memory.tokens[t].expires <= clock
  BY <1>1, <1>3 DEF Live
<1> QED BY <1>1, <1>2, <1>4, PrunedOK DEF Now

LEMMA RunRegisterMutates ==
  ASSUME ShapeInv, NEW h \in Calls, RunRegister(h)
  PROVE  Mutates(h)
<1>1. PICK E \in Evictions(Now) :
        Run(h, "register", WithClient(Now, E, call[h].client, call[h].metadata), "granting", NoClient)
  BY DEF RunRegister
<1>2. AtHead(h, "queued") /\ call[h].op = "register"
  BY <1>1 DEF Run
<1>3. call[h].metadata \in Metadata
  BY <1>2 DEF ShapeInv, CallOK
<1>4. StoreOK(memory') /\ memory'.tokens = Now.tokens
  BY <1>1, <1>2, <1>3, Queued, WithClientOK DEF Run
<1>5. RunsTo(h, "granting", NoClient)
  BY <1>1 DEF Run, RunsTo
<1>6. call'[h].pc = "granting" /\ call'[h].grant = NoClient /\ call'[h].op = "register"
  BY <1>2, <1>5, RunCall DEF Writing
<1>7. Ends(h)' = {}
  BY <1>6 DEF Ends
<1> QED
  BY <1>1, <1>2, <1>4, <1>5, <1>6, <1>7, Queued DEF Mutates, Run, Inherited, GrantFrom, Writing

LEMMA RunIssueMutates ==
  ASSUME ShapeInv, NEW h \in Calls, RunIssue(h)
  PROVE  Mutates(h)
<1> DEFINE may == MayRefresh(h)
<1>1. /\ AtHead(h, "queued") /\ call[h].op = "exchange" /\ prior' = memory
      /\ UNCHANGED <<disk, revoked, queue, codes, worldVars>>
      /\ RunsTo(h, "granting", h)
  BY DEF RunIssue, Run, RunsTo
<1>0. memory' = WithPair(Now, h, call[h].client, h, may)
  BY DEF RunIssue, Run
<1>2. /\ call'[h].pc = "granting" /\ call'[h].grant = h /\ call'[h].op = "exchange"
  <2>1. "granting" \in Writing /\ h \in Issuers \cup {NoClient}
    BY Names DEF Writing
  <2> QED BY <1>1, <2>1, RunCall
<1>3. Names2(h, may) = {Access(h)} \cup (IF MayRefresh(h) THEN {Refresh(h)} ELSE {})
  BY DEF Names2
<1> HIDE DEF may
<1>4. /\ StoreOK(memory') /\ DOMAIN memory'.tokens = DOMAIN Now.tokens \cup Names2(h, may)
      /\ \A t \in Names2(h, may) : memory'.tokens[t] = PairRecord(t, call[h].client, h)
      /\ \A t \in DOMAIN Now.tokens \ Names2(h, may) : memory'.tokens[t] = Now.tokens[t]
  BY <1>0, <1>1, Queued, Names, WithPairOK
<1>5. \A t \in DOMAIN memory'.tokens : Inherited(h, t) \/ Given(h, t)
  BY <1>1, <1>2, <1>3, <1>4, Queued DEF Inherited, Given, Both
<1>6. Ends(h)' = {}
  BY <1>2 DEF Ends
<1>7. \A t \in DOMAIN memory.tokens \ DOMAIN memory'.tokens : memory.tokens[t].expires <= clock
  BY <1>1, <1>4, Queued
<1>8. /\ Access(h) \in DOMAIN memory'.tokens
      /\ MayRefresh(h) => Refresh(h) \in DOMAIN memory'.tokens
  BY <1>3, <1>4
<1> QED
  BY <1>1, <1>2, <1>4, <1>5, <1>6, <1>7, <1>8, Names DEF Mutates, GrantFrom, Writing

\* The token that a refresh presents was issued by a call that has returned.
LEMMA KnownArg ==
  ASSUME ShapeInv, NEW h \in Calls, call[h].op = "refresh"
  PROVE  /\ call[h].arg \in Tokens /\ call[h].arg[1] = "refresh"
         /\ call[h].arg[2] \in Calls => call[call[h].arg[2]].pc = "done" /\ call[call[h].arg[2]].answer = "ok"
<1>1. CallOK(h) /\ call[h].arg \in KnownTokens /\ call[h].arg[1] = "refresh"
  BY DEF ShapeInv, CallOK
<1>2. call[h].arg \in Tokens /\ (call[h].arg[2] \in Calls => call[call[h].arg[2]].answer = "ok")
  BY <1>1, Names DEF KnownTokens, Answered
<1> QED BY <1>1, <1>2 DEF ShapeInv, CallOK

LEMMA RunRotateMutates ==
  ASSUME ShapeInv, NEW h \in Calls, RunRotate(h)
  PROVE  Mutates(h)
<1> DEFINE t == call[h].arg
           g == IF GrantOf(h) = NoClient THEN h ELSE GrantOf(h)
<1>1. /\ AtHead(h, "queued") /\ call[h].op = "refresh" /\ prior' = memory
      /\ UNCHANGED <<disk, revoked, queue, codes, worldVars>>
      /\ RunsTo(h, "granting", g)
      /\ memory' = Rotated(Now, t, h, call[h].client)
  BY DEF RunRotate, Run, RunsTo
<1>2. t \in DOMAIN Now.tokens /\ Now.tokens[t].type = "refresh" /\ GrantOf(h) = Now.tokens[t].grant
  BY DEF RunRotate, Presented, Owned, TypeOfArg, GrantOf
<1>3. t \notin Both(h)
  BY <1>1, KnownArg, Names DEF Both, AtHead
<1>4. Now.tokens[t] \in TokenRecord /\ memory.tokens[t] = Now.tokens[t] /\ t \in DOMAIN memory.tokens
  BY <1>1, <1>2, Queued DEF StoreOK
<1>5. g \in Issuers
  BY <1>2, <1>4, Names DEF TokenRecord
<1>6. g = IF Now.tokens[t].grant = NoClient THEN h ELSE Now.tokens[t].grant
  BY <1>2
<1> HIDE DEF g
<1>7. /\ StoreOK(memory') /\ DOMAIN memory'.tokens = DOMAIN Now.tokens \cup Both(h)
      /\ \A u \in Both(h) : memory'.tokens[u] = PairRecord(u, call[h].client, g)
      /\ \A u \in DOMAIN Now.tokens \ (Both(h) \cup {t}) : memory'.tokens[u] = Now.tokens[u]
      /\ memory'.tokens[t].type = "used_refresh" /\ memory'.tokens[t].grant = g
      /\ memory'.tokens[t].client = Now.tokens[t].client
      /\ memory'.tokens[t].expires = Now.tokens[t].expires
  <2>1. StoreOK(Now) /\ call[h].client \in Clients /\ clock \in Nat
    BY <1>1, Queued
  <2>2. t \in DOMAIN Now.tokens /\ memory' = Rotated(Now, t, h, call[h].client)
    BY <1>1, <1>2
  <2> HIDE DEF t
  <2> QED BY <1>3, <1>6, <2>1, <2>2, RotatedOK
<1>8. call'[h].pc = "granting" /\ call'[h].grant = g /\ call'[h].op = "refresh"
  <2>1. "granting" \in Writing /\ g \in Issuers \cup {NoClient}
    BY <1>5 DEF Writing
  <2> QED BY <1>1, <2>1, RunCall
<1>9. /\ memory'.tokens[t].type = "used_refresh" /\ memory'.tokens[t].grant = g
      /\ memory'.tokens[t].client = memory.tokens[t].client
      /\ memory'.tokens[t].expires = memory.tokens[t].expires
  BY <1>4, <1>7
<1>10. Inherited(h, t)
  BY <1>1, <1>2, <1>4, <1>6, <1>8, <1>9 DEF Inherited
<1>11. ASSUME NEW u \in DOMAIN memory'.tokens
       PROVE  Inherited(h, u) \/ Given(h, u)
  <2>1. CASE u \in Both(h)
    BY <1>1, <1>7, <1>8, <2>1 DEF Given
  <2>2. CASE u \notin Both(h) /\ u # t
    BY <1>1, <1>7, <2>2, Queued DEF Inherited
  <2> QED BY <1>10, <2>1, <2>2
<1>12. Ends(h)' = {}
  BY <1>8 DEF Ends
<1>13. \A u \in DOMAIN memory.tokens \ DOMAIN memory'.tokens : memory.tokens[u].expires <= clock
  BY <1>1, <1>7, Queued
<1>14. GrantFrom(h)
  BY <1>1, <1>2, <1>4, <1>5, <1>6, <1>8, Names DEF GrantFrom
<1>15. /\ Access(h) \in DOMAIN memory'.tokens /\ Refresh(h) \in DOMAIN memory'.tokens
       /\ Spent(memory', t)
  BY <1>7, <1>9 DEF Both, Spent
<1>16. \E pc \in Writing, x \in Issuers \cup {NoClient} : RunsTo(h, pc, x)
  BY <1>1, <1>5 DEF Writing
<1> QED
  BY <1>1, <1>2, <1>4, <1>7, <1>8, <1>11, <1>12, <1>13, <1>14, <1>15, <1>16 DEF Mutates

\* The mutations that only take tokens away, and end a grant or none.
LEMMA Removes ==
  ASSUME ShapeInv, NEW h \in Calls, AtHead(h, "queued"), call[h].op \in {"refresh", "revoke"},
         NEW pc \in Writing, call[h].op = "refresh" => pc = "refusing",
         NEW g \in Issuers \cup {NoClient}, RunsTo(h, pc, g), prior' = memory,
         UNCHANGED <<disk, revoked, queue, codes, worldVars>>,
         StoreOK(memory'), DOMAIN memory'.tokens \subseteq DOMAIN Now.tokens,
         \A t \in DOMAIN memory'.tokens : memory'.tokens[t] = Now.tokens[t],
         \A t \in DOMAIN Now.tokens \ DOMAIN memory'.tokens : Now.tokens[t].grant = g,
         g # NoClient => Dead(memory', g) /\ \E t \in DOMAIN Now.tokens : Now.tokens[t].grant = g
  PROVE  Mutates(h)
<1>1. call'[h].pc = pc /\ call'[h].grant = g /\ call'[h].op = call[h].op
  BY RunCall
<1>2. Ends(h)' = {g} \ {NoClient}
  BY <1>1 DEF Ends
<1>3. \A t \in DOMAIN memory'.tokens : Inherited(h, t)
  BY Queued DEF Inherited
<1>4. \A t \in DOMAIN memory.tokens \ DOMAIN memory'.tokens :
        memory.tokens[t].expires <= clock \/ memory.tokens[t].grant \in Ends(h)' \cup {NoClient}
  BY <1>2, Queued
<1>5. GrantFrom(h)
  BY <1>1, Queued DEF GrantFrom
<1> QED
  BY <1>1, <1>2, <1>3, <1>4, <1>5 DEF Mutates

\* The grant of a token that is presented.
LEMMA GrantOfArg ==
  ASSUME ShapeInv, NEW h \in Calls, AtHead(h, "queued"),
         call[h].op \in {"refresh", "revoke"}
  PROVE  /\ GrantOf(h) \in Issuers \cup {NoClient}
         /\ GrantOf(h) # NoClient => \E t \in DOMAIN Now.tokens : Now.tokens[t].grant = GrantOf(h)
<1>1. Presented(h) => call[h].arg \in DOMAIN Now.tokens /\ Now.tokens[call[h].arg] \in TokenRecord
  BY Queued DEF Presented, Owned, StoreOK
<1> QED BY <1>1 DEF GrantOf, TokenRecord

LEMMA RunReplayMutates ==
  ASSUME ShapeInv, NEW h \in Calls, RunReplay(h)
  PROVE  Mutates(h)
<1> DEFINE yes == TRUE
<1>1. memory' = WithoutGrant(Now, GrantOf(h), yes)
  BY DEF RunReplay, Run
<1> HIDE DEF yes
<1>2. /\ AtHead(h, "queued") /\ call[h].op = "refresh" /\ prior' = memory
      /\ UNCHANGED <<disk, revoked, queue, codes, worldVars>>
      /\ RunsTo(h, "refusing", GrantOf(h))
  BY DEF RunReplay, Run, RunsTo
<1>3. /\ StoreOK(memory') /\ DOMAIN memory'.tokens \subseteq DOMAIN Now.tokens
      /\ \A t \in DOMAIN memory'.tokens : memory'.tokens[t] = Now.tokens[t]
      /\ \A t \in DOMAIN Now.tokens \ DOMAIN memory'.tokens : Now.tokens[t].grant = GrantOf(h)
      /\ Dead(memory', GrantOf(h))
  BY <1>1, <1>2, Queued, WithoutGrantOK
<1>4. "refusing" \in Writing
  BY DEF Writing
<1> QED BY <1>2, <1>3, <1>4, GrantOfArg, Removes

LEMMA RunInvalidMutates ==
  ASSUME ShapeInv, NEW h \in Calls, RunInvalid(h)
  PROVE  Mutates(h)
<1>1. /\ AtHead(h, "queued") /\ call[h].op = "refresh" /\ prior' = memory
      /\ UNCHANGED <<disk, revoked, queue, codes, worldVars>>
      /\ RunsTo(h, "refusing", NoClient) /\ memory' = Now
  BY DEF RunInvalid, Run, RunsTo
<1>2. "refusing" \in Writing
  BY DEF Writing
<1> QED BY <1>1, <1>2, Queued, Removes

LEMMA RunRevokeMutates ==
  ASSUME ShapeInv, NEW h \in Calls, RunRevoke(h)
  PROVE  Mutates(h)
<1>1. /\ AtHead(h, "queued") /\ call[h].op = "revoke" /\ prior' = memory
      /\ UNCHANGED <<disk, revoked, queue, codes, worldVars>>
      /\ RunsTo(h, "granting", GrantOf(h)) /\ memory' = Revoked(Now, call[h].arg, call[h].client)
  BY DEF RunRevoke, Run, RunsTo
<1>2. /\ StoreOK(memory') /\ DOMAIN memory'.tokens \subseteq DOMAIN Now.tokens
      /\ \A t \in DOMAIN memory'.tokens : memory'.tokens[t] = Now.tokens[t]
      /\ \A t \in DOMAIN Now.tokens \ DOMAIN memory'.tokens : Now.tokens[t].grant = GrantOf(h)
      /\ GrantOf(h) # NoClient => Dead(memory', GrantOf(h))
  BY <1>1, Queued, RevokedOK DEF GrantOf, Presented
<1>3. "granting" \in Writing
  BY DEF Writing
<1> QED BY <1>1, <1>2, <1>3, GrantOfArg, Removes

-----------------------------------------------------------------------------
(* The shape of the state is kept.                                          *)

\* One request changes: what callers know grows, and the other requests are as they were.
LEMMA OneCall ==
  ASSUME ShapeInv, NEW h \in Calls, NEW r \in CallRecord, call' = [call EXCEPT ![h] = r],
         call[h].answer # "ok"
  PROVE  /\ call' \in [Calls -> CallRecord] /\ call'[h] = r
         /\ \A k \in Calls \ {h} : call'[k] = call[k] /\ CallOK(k)'
         /\ KnownCodes \subseteq KnownCodes' /\ KnownTokens \subseteq KnownTokens'
<1>1. call \in [Calls -> CallRecord]
  BY DEF ShapeInv
<1>2. call' \in [Calls -> CallRecord] /\ call'[h] = r /\ \A k \in Calls \ {h} : call'[k] = call[k]
  BY <1>1
<1>3. \A k \in Calls : \A op : Answered(k, op) => Answered(k, op)'
  BY <1>2 DEF Answered
<1>4. KnownCodes \subseteq KnownCodes'
  BY <1>3 DEF KnownCodes
<1>5. ASSUME NEW t \in KnownTokens
      PROVE  t \in KnownTokens'
  <2>1. t \in Tokens /\ (t[2] \in Calls \/ t[2] = Earlier)
    BY Names DEF KnownTokens, Issuers
  <2>2. t[2] = Earlier \/ Answered(t[2], "exchange") \/ Answered(t[2], "refresh")
    BY DEF KnownTokens
  <2>3. t[2] = Earlier \/ Answered(t[2], "exchange")' \/ Answered(t[2], "refresh")'
    BY <1>3, <2>1, <2>2
  <2> QED BY <2>1, <2>3 DEF KnownTokens
<1>6. ASSUME NEW k \in Calls \ {h}
      PROVE  CallOK(k)'
  BY <1>2, <1>4, <1>5 DEF ShapeInv, CallOK
<1> QED BY <1>2, <1>4, <1>5, <1>6

LEMMA QueueAppend ==
  ASSUME QueueOK, NEW h \in Calls, call[h].pc \notin Waiting, call'[h].pc \in Waiting,
         \A k \in Calls \ {h} : call'[k] = call[k], queue' = Append(queue, h)
  PROVE  QueueOK' /\ queue' # << >> /\ (queue # << >> => Head(queue') = Head(queue))
<1> DEFINE n == Len(queue)
<1>1. queue \in Seq(Calls) /\ n \in Nat
  BY DEF QueueOK
<1>2. /\ queue' \in Seq(Calls) /\ Len(queue') = n + 1
      /\ \A i \in 1..n : queue'[i] = queue[i]
      /\ queue'[n+1] = h
  BY <1>1
<1>3. \A i \in 1..n : queue[i] # h
  BY DEF QueueOK
<1>4. \A i, j \in 1..Len(queue') : queue'[i] = queue'[j] => i = j
  BY <1>1, <1>2, <1>3 DEF QueueOK
<1>5. \A x : (\E i \in 1..Len(queue') : queue'[i] = x) <=> (x = h \/ \E i \in 1..n : queue[i] = x)
  BY <1>1, <1>2
<1>6. \A k \in Calls : call'[k].pc \in Waiting <=> (k = h \/ call[k].pc \in Waiting)
  OBVIOUS
<1>7. {queue'[i] : i \in 1..Len(queue')} = {k \in Calls : call'[k].pc \in Waiting}
  BY <1>5, <1>6 DEF QueueOK
<1>8. queue' # << >> /\ (queue # << >> => Head(queue') = Head(queue))
  BY <1>1, <1>2
<1> QED BY <1>2, <1>4, <1>7, <1>8 DEF QueueOK

LEMMA QueueTail ==
  ASSUME QueueOK, NEW h \in Calls, queue # << >>, Head(queue) = h, call'[h].pc \notin Waiting,
         \A k \in Calls \ {h} : call'[k] = call[k], queue' = Tail(queue)
  PROVE  QueueOK'
<1> DEFINE n == Len(queue)
<1>1. queue \in Seq(Calls) /\ n \in Nat /\ n >= 1 /\ queue[1] = h
  BY DEF QueueOK
<1>2. /\ queue' \in Seq(Calls) /\ Len(queue') = n - 1
      /\ \A i \in 1..(n-1) : queue'[i] = queue[i+1]
  BY <1>1
<1>3. \A i \in 2..n : queue[i] # h
  BY <1>1 DEF QueueOK
<1>4. \A i, j \in 1..Len(queue') : queue'[i] = queue'[j] => i = j
  BY <1>1, <1>2 DEF QueueOK
<1>5. \A x : (\E i \in 1..Len(queue') : queue'[i] = x) <=> (x # h /\ \E i \in 1..n : queue[i] = x)
  <2>1. ASSUME NEW i \in 1..Len(queue')
        PROVE  queue'[i] # h /\ \E j \in 1..n : queue[j] = queue'[i]
    BY <1>1, <1>2, <1>3
  <2>2. ASSUME NEW i \in 1..n, queue[i] # h
        PROVE  \E j \in 1..Len(queue') : queue'[j] = queue[i]
    <3>1. i # 1 /\ i - 1 \in 1..(n-1) /\ queue'[i-1] = queue[i]
      BY <1>1, <1>2, <2>2
    <3> QED BY <1>2, <3>1
  <2>3. ASSUME NEW x, NEW i \in 1..Len(queue'), queue'[i] = x
        PROVE  x # h /\ \E j \in 1..n : queue[j] = x
    BY <2>1, <2>3
  <2>4. ASSUME NEW x, x # h, NEW i \in 1..n, queue[i] = x
        PROVE  \E j \in 1..Len(queue') : queue'[j] = x
    BY <2>2, <2>4
  <2> QED BY <2>3, <2>4
<1>6. \A k \in Calls : call'[k].pc \in Waiting <=> (k # h /\ call[k].pc \in Waiting)
  OBVIOUS
<1>7. {queue'[i] : i \in 1..Len(queue')} = {k \in Calls : call'[k].pc \in Waiting}
  BY <1>5, <1>6 DEF QueueOK
<1> QED BY <1>2, <1>4, <1>7 DEF QueueOK

LEMMA QueueSame ==
  ASSUME QueueOK, UNCHANGED queue, \A k \in Calls : call'[k].pc \in Waiting <=> call[k].pc \in Waiting
  PROVE  QueueOK'
BY DEF QueueOK

Refusal == [NotMade EXCEPT !.pc = "done", !.answer = "error"]

LEMMA RefusalOK ==
  /\ NotMade \in CallRecord /\ NotMade.pc = "idle" /\ NotMade.op = "none" /\ NotMade.answer = "none"
  /\ Refusal \in CallRecord /\ Refusal.pc = "done" /\ Refusal.op = "none" /\ Refusal.answer = "error"
BY DEF Refusal, NotMade, CallRecord, Waiting

\* A step that leaves the store alone and takes no request into or out of a mutation.
Quiet ==
  /\ UNCHANGED storeVars /\ clock' \in Nat /\ clock' >= clock
  /\ queue # << >> /\ call[Head(queue)].pc \in Writing => queue' # << >> /\ Head(queue') = Head(queue)
  /\ \A k \in Calls : call'[k] # call[k] =>
       /\ call[k].pc \notin Writing \cup {"done"} /\ call'[k].pc \notin Writing
       /\ call'[k].op \in {"exchange", "refresh"} => call'[k].answer # "ok"

\* The same, and no request comes to hold a code.
Modest ==
  /\ ShapeInv' /\ Quiet
  /\ \A k \in Calls : call'[k] # call[k] => ~(call'[k].op = "exchange" /\ call'[k].pc \in {"queued", "failed"})

LEMMA QuietStep ==
  ASSUME ShapeInv, NEW h \in Calls, NEW r \in CallRecord, call' = [call EXCEPT ![h] = r],
         call[h].pc \notin Writing \cup {"done"}, r.pc \notin Writing,
         r.op \in {"exchange", "refresh"} => r.answer # "ok",
         CallOK(h)', QueueOK',
         queue # << >> /\ call[Head(queue)].pc \in Writing => queue' # << >> /\ Head(queue') = Head(queue),
         codes' \in [DOMAIN codes' -> [client : Clients, expires : Nat]], DOMAIN codes' \subseteq KnownCodes',
         UNCHANGED <<storeVars, worldVars>>
  PROVE  /\ ShapeInv' /\ Quiet
         /\ ~(r.op = "exchange" /\ r.pc \in {"queued", "failed"}) => Modest
<1>1. call[h].answer # "ok" /\ clock \in Nat
  BY DEF ShapeInv, CallOK
<1>2. call' \in [Calls -> CallRecord] /\ call'[h] = r /\ \A k \in Calls \ {h} : call'[k] = call[k] /\ CallOK(k)'
  BY <1>1, OneCall
<1>3. /\ memory' = memory /\ prior' = prior /\ disk' = disk /\ revoked' = revoked
      /\ clock' = clock /\ loadable' = loadable /\ faults' = faults
  BY DEF storeVars, worldVars
<1>4. ShapeInv'
  <2>1. \A k \in Calls : CallOK(k)'
    BY <1>2
  <2> QED BY <1>2, <1>3, <2>1 DEF ShapeInv, StoreOK
<1>5. Quiet
  BY <1>1, <1>2, <1>3 DEF Quiet, storeVars
<1> QED BY <1>2, <1>4, <1>5 DEF Modest

LEMMA RefusalStep ==
  ASSUME ShapeInv, NEW h \in Calls, Refuse(h), call[h].pc \notin Writing \cup {"done"},
         QueueOK',
         queue # << >> /\ call[Head(queue)].pc \in Writing => queue' # << >> /\ Head(queue') = Head(queue),
         codes' \in [DOMAIN codes' -> [client : Clients, expires : Nat]], DOMAIN codes' \subseteq KnownCodes,
         UNCHANGED <<storeVars, worldVars>>
  PROVE  Modest
<1>1. call' = [call EXCEPT ![h] = Refusal]
  BY DEF Refuse, Refusal
<1>2. call[h].answer # "ok"
  BY DEF ShapeInv, CallOK
<1>3. call'[h] = Refusal /\ KnownCodes \subseteq KnownCodes'
  BY <1>1, <1>2, RefusalOK, OneCall
<1>4. CallOK(h)'
  BY <1>3, RefusalOK DEF CallOK
<1>5. "done" \notin Writing
  BY DEF Writing
<1> QED BY <1>1, <1>3, <1>4, <1>5, RefusalOK, QuietStep

\* The queue after a refusal, and after a request leaves its head.
LEMMA RefuseQueue ==
  ASSUME ShapeInv, NEW h \in Calls, call' \in [Calls -> CallRecord], call'[h].pc \notin Waiting,
         \A k \in Calls \ {h} : call'[k] = call[k],
         \/ call[h].pc \notin Waiting /\ UNCHANGED queue
         \/ queue # << >> /\ Head(queue) = h /\ queue' = Tail(queue)
  PROVE  QueueOK'
<1>1. QueueOK
  BY DEF ShapeInv
<1>2. CASE call[h].pc \notin Waiting /\ UNCHANGED queue
  <2>1. \A k \in Calls : call'[k].pc \in Waiting <=> call[k].pc \in Waiting
    BY <1>2
  <2> QED BY <1>1, <1>2, <2>1, QueueSame
<1> QED BY <1>1, <1>2, QueueTail

LEMMA ArriveStep ==
  ASSUME ShapeInv, NEW h \in Calls, NEW r \in CallRecord, Arrive(h, r),
         r.pc \in {"lookup", "queued"}, r.answer = "none", r.op # "none", r.op # "verify" => r.client \in Clients,
         r.pc = "queued" => r.op \in {"register", "verify"}, r.op = "register" => r.metadata \in Metadata,
         r.op = "exchange" => r.arg \in KnownCodes,
         r.op = "refresh" => r.arg \in KnownTokens /\ r.arg[1] = "refresh"
  PROVE  Modest
<1>1. /\ call[h].pc = "idle" /\ UNCHANGED <<storeVars, codes, worldVars>>
      /\ call[h].pc \notin Writing \cup {"done"} /\ call[h].pc \notin Waiting /\ r.pc \in Waiting /\ r.pc \notin Writing
  BY DEF Arrive, Writing, Waiting
<1>2. call[h].answer # "ok" /\ QueueOK /\ call \in [Calls -> CallRecord]
  BY <1>1 DEF ShapeInv, CallOK
<1>3. codes \in [DOMAIN codes -> [client : Clients, expires : Nat]] /\ DOMAIN codes \subseteq KnownCodes /\ codes' = codes
  BY <1>1 DEF ShapeInv
<1>4. CASE loadable
  <2>1. call' = [call EXCEPT ![h] = r] /\ queue' = Append(queue, h)
    BY <1>4 DEF Arrive
  <2>2. /\ call'[h] = r /\ \A k \in Calls \ {h} : call'[k] = call[k]
        /\ KnownCodes \subseteq KnownCodes' /\ KnownTokens \subseteq KnownTokens'
    BY <1>2, <2>1, OneCall
  <2>3. QueueOK' /\ queue' # << >> /\ (queue # << >> => Head(queue') = Head(queue))
    BY <1>1, <1>2, <2>1, <2>2, QueueAppend
  <2>4. CallOK(h)'
    BY <2>2 DEF CallOK
  <2> QED BY <1>1, <1>3, <2>1, <2>2, <2>3, <2>4, QuietStep
<1>5. CASE ~loadable
  <2>1. Refuse(h) /\ UNCHANGED queue
    BY <1>5 DEF Arrive
  <2>2. call' = [call EXCEPT ![h] = Refusal]
    BY <2>1 DEF Refuse, Refusal
  <2>3. call'[h].pc \notin Waiting /\ call' \in [Calls -> CallRecord] /\ \A k \in Calls \ {h} : call'[k] = call[k]
    BY <1>2, <2>2, RefusalOK DEF Waiting
  <2>4. QueueOK'
    BY <1>1, <2>1, <2>3, RefuseQueue
  <2> QED BY <1>1, <1>3, <2>1, <2>4, RefusalStep
<1> QED BY <1>4, <1>5

-----------------------------------------------------------------------------
(* The steps of the handlers, one by one.                                   *)

LEMMA RegisterModest ==
  ASSUME ShapeInv, NEW h \in Calls, Register(h)
  PROVE  Modest
<1>1. PICK c \in Clients, m \in Submitted :
        Arrive(h, [NotMade EXCEPT !.op = "register", !.client = c, !.pc = "queued", !.metadata = WithDefaults(m)])
  BY DEF Register
<1> DEFINE d == WithDefaults(m)
           r == [NotMade EXCEPT !.op = "register", !.client = c, !.pc = "queued", !.metadata = d]
<1>2. d \in Metadata
  BY DEF Metadata
<1> HIDE DEF d
<1>3. /\ r \in CallRecord /\ r.pc = "queued" /\ r.answer = "none" /\ r.op = "register" /\ r.client = c
      /\ r.metadata = d
  BY <1>2 DEF NotMade, CallRecord, Waiting
<1>4. Arrive(h, r)
  BY <1>1 DEF d
<1> HIDE DEF r
<1> QED BY <1>2, <1>3, <1>4, ArriveStep

LEMMA LookUpModest ==
  ASSUME ShapeInv, NEW h \in Calls, NEW op \in {"authorize", "exchange", "refresh", "revoke"},
         NEW Args, Args \subseteq {NoClient} \cup Issuers \cup Tokens, LookUpThen(h, op, Args),
         op = "exchange" => Args \subseteq KnownCodes,
         op = "refresh" => Args \subseteq KnownTokens /\ \A a \in Args : a[1] = "refresh"
  PROVE  Modest
<1>1. PICK c \in DOMAIN memory.clients, a \in Args :
        Arrive(h, [NotMade EXCEPT !.op = op, !.client = c, !.arg = a, !.pc = "lookup"])
  BY DEF LookUpThen
<1> DEFINE r == [NotMade EXCEPT !.op = op, !.client = c, !.arg = a, !.pc = "lookup"]
<1>2. c \in Clients
  BY DEF ShapeInv, StoreOK
<1>3. /\ r \in CallRecord /\ r.pc = "lookup" /\ r.answer = "none" /\ r.op = op /\ r.client = c
      /\ r.arg = a
  BY <1>2 DEF NotMade, CallRecord, Waiting
<1>4. Arrive(h, r)
  BY <1>1
<1> HIDE DEF r
<1> QED BY <1>2, <1>3, <1>4, ArriveStep

LEMMA Known ==
  ASSUME ShapeInv
  PROVE  KnownCodes \subseteq Issuers /\ KnownTokens \subseteq Tokens
BY Names DEF KnownCodes, KnownTokens

LEMMA VerifyModest ==
  ASSUME ShapeInv, NEW h \in Calls, Verify(h)
  PROVE  Modest
<1>1. PICK t \in KnownTokens : Arrive(h, [NotMade EXCEPT !.op = "verify", !.arg = t, !.pc = "queued"])
  BY DEF Verify
<1> DEFINE r == [NotMade EXCEPT !.op = "verify", !.arg = t, !.pc = "queued"]
<1>2. t \in Tokens
  BY Known
<1>3. /\ r \in CallRecord /\ r.pc = "queued" /\ r.answer = "none" /\ r.op = "verify"
  BY <1>2 DEF NotMade, CallRecord, Waiting
<1>4. Arrive(h, r)
  BY <1>1
<1> HIDE DEF r
<1> QED BY <1>3, <1>4, ArriveStep

\* A request is refused, and leaves the queue if it was its head.
LEMMA RefusedModest ==
  ASSUME ShapeInv, NEW h \in Calls, Refuse(h), UNCHANGED <<storeVars, worldVars>>,
         call[h].pc \notin Writing \cup {"done"},
         \/ call[h].pc \notin Waiting /\ UNCHANGED queue
         \/ queue # << >> /\ Head(queue) = h /\ queue' = Tail(queue),
         codes' \in [DOMAIN codes' -> [client : Clients, expires : Nat]], DOMAIN codes' \subseteq KnownCodes
  PROVE  Modest
<1>1. call' = [call EXCEPT ![h] = Refusal] /\ call \in [Calls -> CallRecord]
  BY DEF Refuse, Refusal, ShapeInv
<1>2. call'[h] = Refusal /\ call' \in [Calls -> CallRecord] /\ \A k \in Calls \ {h} : call'[k] = call[k]
  BY <1>1, RefusalOK
<1>3. call'[h].pc \notin Waiting
  BY <1>2, RefusalOK DEF Waiting
<1>4. QueueOK'
  BY <1>2, <1>3, RefuseQueue
<1>5. queue # << >> /\ call[Head(queue)].pc \in Writing => queue' # << >> /\ Head(queue') = Head(queue)
  OBVIOUS
<1> QED BY <1>4, <1>5, RefusalStep

LEMMA GetClientModest ==
  ASSUME ShapeInv, NEW h \in Calls, GetClient(h)
  PROVE  Modest
<1>1. /\ queue # << >> /\ Head(queue) = h /\ call[h].pc = "lookup" /\ queue' = Tail(queue)
      /\ UNCHANGED <<storeVars, codes, worldVars>>
  BY DEF GetClient, AtHead
<1>2. /\ call \in [Calls -> CallRecord] /\ CallOK(h) /\ call[h] \in CallRecord /\ QueueOK
      /\ codes \in [DOMAIN codes -> [client : Clients, expires : Nat]] /\ DOMAIN codes \subseteq KnownCodes /\ codes' = codes
      /\ StoreOK(memory)
  BY <1>1 DEF ShapeInv
<1>3. "lookup" \notin Writing \cup {"done"} /\ "found" \notin Writing /\ "found" \notin Waiting
  BY DEF Writing, Waiting
<1>4. CASE call[h].client \in DOMAIN memory.clients
  <2> DEFINE m == memory.clients[call[h].client].metadata
             r == [call[h] EXCEPT !.pc = "found", !.metadata = m]
  <2>1. m \in Metadata
    BY <1>2, <1>4 DEF StoreOK, ClientRecord
  <2>2. call' = [call EXCEPT ![h] = r]
    BY <1>2, <1>4 DEF GetClient
  <2> HIDE DEF m
  <2>3. /\ r \in CallRecord /\ r.pc = "found" /\ r.metadata = m /\ r.op = call[h].op /\ r.client = call[h].client
        /\ r.arg = call[h].arg /\ r.answer = call[h].answer
    BY <1>2, <2>1 DEF CallRecord, Waiting
  <2> HIDE DEF r
  <2>4. call[h].answer = "none"
    BY <1>1, <1>2 DEF CallOK
  <2>5. /\ call' \in [Calls -> CallRecord] /\ call'[h] = r /\ \A k \in Calls \ {h} : call'[k] = call[k]
        /\ KnownCodes \subseteq KnownCodes' /\ KnownTokens \subseteq KnownTokens'
    BY <2>2, <2>3, <2>4, OneCall
  <2>6. QueueOK'
    BY <1>1, <1>3, <2>3, <2>5, RefuseQueue
  <2>7. CallOK(h)'
    BY <1>1, <1>2, <2>1, <2>3, <2>4, <2>5 DEF CallOK
  <2>8. queue # << >> /\ call[Head(queue)].pc \in Writing => queue' # << >> /\ Head(queue') = Head(queue)
    BY <1>1, <1>3
  <2>9. DOMAIN codes' \subseteq KnownCodes'
    BY <1>2, <2>5
  <2> QED
    BY <1>1, <1>2, <1>3, <2>2, <2>3, <2>4, <2>6, <2>7, <2>8, <2>9, QuietStep
<1>5. CASE call[h].client \notin DOMAIN memory.clients
  <2>1. Refuse(h)
    BY <1>5 DEF GetClient
  <2> QED BY <1>1, <1>2, <1>3, <2>1, RefusedModest
<1> QED BY <1>4, <1>5

\* A request that waits for no mutation is answered.
LEMMA AnswerStep ==
  ASSUME ShapeInv, NEW h \in Calls, Answer(h, "ok"), UNCHANGED <<storeVars, worldVars>>,
         call[h].pc \in {"queued", "found"}, call[h].op \in {"verify", "authorize"},
         \/ call[h].pc = "found" /\ UNCHANGED queue
         \/ queue # << >> /\ Head(queue) = h /\ queue' = Tail(queue),
         codes' \in [DOMAIN codes' -> [client : Clients, expires : Nat]],
         DOMAIN codes' \subseteq KnownCodes \cup (IF call[h].op = "authorize" THEN {h} ELSE {})
  PROVE  Modest
<1> DEFINE r == [call[h] EXCEPT !.pc = "done", !.answer = "ok"]
<1>1. call \in [Calls -> CallRecord] /\ CallOK(h) /\ call[h] \in CallRecord
  BY DEF ShapeInv
<1>2. call' = [call EXCEPT ![h] = r]
  BY <1>1 DEF Answer
<1>3. /\ r \in CallRecord /\ r.pc = "done" /\ r.metadata = call[h].metadata /\ r.op = call[h].op
      /\ r.client = call[h].client /\ r.arg = call[h].arg /\ r.answer = "ok"
  BY <1>1 DEF CallRecord, Waiting
<1> HIDE DEF r
<1>4. call[h].answer = "none"
  BY <1>1 DEF CallOK, CallRecord
<1>5. /\ call' \in [Calls -> CallRecord] /\ call'[h] = r /\ \A k \in Calls \ {h} : call'[k] = call[k]
      /\ KnownCodes \subseteq KnownCodes'
  BY <1>2, <1>3, <1>4, OneCall
<1>6. "found" \notin Waiting /\ "done" \notin Waiting /\ "done" \notin Writing /\ call[h].pc \notin Writing \cup {"done"}
  BY DEF Waiting, Writing
<1>7. QueueOK'
  BY <1>3, <1>5, <1>6, RefuseQueue
<1>8. CallOK(h)'
  BY <1>3, <1>5 DEF CallOK
<1>9. DOMAIN codes' \subseteq KnownCodes'
  BY <1>3, <1>5 DEF KnownCodes, Answered
<1>10. queue # << >> /\ call[Head(queue)].pc \in Writing => queue' # << >> /\ Head(queue') = Head(queue)
  BY <1>6
<1>11. ~(r.op = "exchange" /\ r.pc \in {"queued", "failed"}) /\ r.op \notin {"exchange", "refresh"} /\ r.pc \notin Writing
  BY <1>3, <1>6
<1> QED
  BY <1>2, <1>3, <1>6, <1>7, <1>8, <1>9, <1>10, <1>11, QuietStep

LEMMA GetAccessTokenModest ==
  ASSUME ShapeInv, NEW h \in Calls, GetAccessToken(h)
  PROVE  Modest
<1>1. /\ queue # << >> /\ Head(queue) = h /\ call[h].pc = "queued" /\ queue' = Tail(queue) /\ call[h].op = "verify"
      /\ UNCHANGED <<storeVars, codes, worldVars>> /\ (Answer(h, "ok") \/ Refuse(h))
  BY DEF GetAccessToken, AtHead
<1>2. /\ codes \in [DOMAIN codes -> [client : Clients, expires : Nat]] /\ DOMAIN codes \subseteq KnownCodes /\ codes' = codes
      /\ "queued" \notin Writing \cup {"done"}
  BY <1>1 DEF ShapeInv, Writing
<1> QED BY <1>1, <1>2, AnswerStep, RefusedModest

LEMMA RegistryFullModest ==
  ASSUME ShapeInv, NEW h \in Calls, RegistryFull(h)
  PROVE  Modest
<1>1. /\ queue # << >> /\ Head(queue) = h /\ call[h].pc = "queued" /\ queue' = Tail(queue)
      /\ UNCHANGED <<storeVars, codes, worldVars>> /\ Refuse(h)
  BY DEF RegistryFull, AtHead
<1>2. /\ codes \in [DOMAIN codes -> [client : Clients, expires : Nat]] /\ DOMAIN codes \subseteq KnownCodes /\ codes' = codes
      /\ "queued" \notin Writing \cup {"done"}
  BY <1>1 DEF ShapeInv, Writing
<1> QED BY <1>1, <1>2, RefusedModest

\* Expired codes are dropped.
LEMMA LiveCodesOK ==
  ASSUME ShapeInv
  PROVE  /\ LiveCodes \in [DOMAIN LiveCodes -> [client : Clients, expires : Nat]]
         /\ DOMAIN LiveCodes \subseteq DOMAIN codes /\ DOMAIN codes \subseteq KnownCodes /\ clock \in Nat
         /\ \A k \in DOMAIN LiveCodes : LiveCodes[k] = codes[k] /\ codes[k].expires > clock
<1> DEFINE D == {k \in DOMAIN codes : codes[k].expires > clock}
<1>1. LiveCodes = [k \in D |-> codes[k]]
  BY DEF LiveCodes, Restrict
<1>2. codes \in [DOMAIN codes -> [client : Clients, expires : Nat]] /\ DOMAIN codes \subseteq KnownCodes /\ clock \in Nat
  BY DEF ShapeInv
<1> QED BY <1>1, <1>2

LEMMA AuthorizeModest ==
  ASSUME ShapeInv, NEW h \in Calls, Authorize(h)
  PROVE  Modest /\ DOMAIN codes' \subseteq DOMAIN codes \cup {h} /\ call[h].op = "authorize"
<1>1. /\ call[h].pc = "found" /\ call[h].op = "authorize" /\ Answer(h, "ok")
      /\ UNCHANGED <<storeVars, worldVars>> /\ UNCHANGED queue
      /\ codes' = [k \in DOMAIN LiveCodes \cup {h} |->
                     IF k = h THEN [client |-> call[h].client, expires |-> clock + CodeTtl] ELSE codes[k]]
  BY DEF Authorize
<1>2. call[h].client \in Clients /\ CodeTtl \in Nat
  BY <1>1, OAuthAssumption DEF ShapeInv, CallOK
<1>3. codes' \in [DOMAIN codes' -> [client : Clients, expires : Nat]] /\ DOMAIN codes' = DOMAIN LiveCodes \cup {h}
  BY <1>1, <1>2, LiveCodesOK
<1>4. DOMAIN codes' \subseteq KnownCodes \cup {h}
  BY <1>3, LiveCodesOK
<1> QED BY <1>1, <1>3, <1>4, LiveCodesOK, AnswerStep

\* Only the position of a request changes.
LEMMA SetCall ==
  ASSUME ShapeInv, NEW h \in Calls, NEW pc \in Waiting \cup {"challenged", "failed"}, NEW n \in Nat,
         call[h].pc # "done", call' = [call EXCEPT ![h].pc = pc, ![h].ends = n]
  PROVE  /\ call'[h] \in CallRecord /\ call' = [call EXCEPT ![h] = call'[h]]
         /\ call'[h].pc = pc /\ call'[h].op = call[h].op /\ call'[h].client = call[h].client /\ call'[h].arg = call[h].arg
         /\ call'[h].metadata = call[h].metadata /\ call'[h].answer = "none" /\ call[h].answer = "none"
         /\ call'[h].grant = call[h].grant /\ call'[h].until = call[h].until /\ call'[h].ends = n
         /\ call' \in [Calls -> CallRecord] /\ \A k \in Calls \ {h} : call'[k] = call[k]
         /\ KnownCodes \subseteq KnownCodes' /\ KnownTokens \subseteq KnownTokens'
<1> DEFINE r == [call[h] EXCEPT !.pc = pc, !.ends = n]
<1>1. call \in [Calls -> CallRecord] /\ CallOK(h) /\ call[h] \in CallRecord
  BY DEF ShapeInv
<1>2. call' = [call EXCEPT ![h] = r]
  BY <1>1
<1>3. /\ r \in CallRecord /\ r.pc = pc /\ r.metadata = call[h].metadata /\ r.op = call[h].op
      /\ r.client = call[h].client /\ r.arg = call[h].arg /\ r.answer = call[h].answer
      /\ r.grant = call[h].grant /\ r.until = call[h].until /\ r.ends = n
  BY <1>1 DEF CallRecord
<1>4. call[h].answer = "none"
  BY <1>1 DEF CallOK, CallRecord
<1> HIDE DEF r
<1> QED BY <1>1, <1>2, <1>3, <1>4, OneCall

LEMMA ChallengeModest ==
  ASSUME ShapeInv, NEW h \in Calls, Challenge(h)
  PROVE  Modest /\ DOMAIN codes' \subseteq DOMAIN codes
<1>1. /\ call[h].pc = "found" /\ call[h].op = "exchange" /\ codes' = LiveCodes
      /\ UNCHANGED <<storeVars, worldVars>> /\ UNCHANGED queue
      /\ (Set(h, "challenged") \/ Refuse(h))
  BY DEF Challenge
<1>2. /\ codes' \in [DOMAIN codes' -> [client : Clients, expires : Nat]] /\ DOMAIN codes' \subseteq KnownCodes
      /\ DOMAIN codes' \subseteq DOMAIN codes
  BY <1>1, LiveCodesOK
<1>3. "found" \notin Waiting /\ "challenged" \notin Waiting /\ "challenged" \notin Writing /\ "found" \notin Writing \cup {"done"}
  BY DEF Waiting, Writing
<1>4. CASE Set(h, "challenged")
  <2>0. call[h] \in CallRecord /\ CallOK(h) /\ call[h].ends \in Nat /\ call \in [Calls -> CallRecord]
    BY DEF ShapeInv, CallRecord
  <2>1. call' = [call EXCEPT ![h].pc = "challenged", ![h].ends = call[h].ends]
    BY <1>4, <2>0 DEF Set, CallRecord
  <2> DEFINE n == call[h].ends
  <2>2. n \in Nat /\ call' = [call EXCEPT ![h].pc = "challenged", ![h].ends = n]
    BY <2>0, <2>1
  <2> HIDE DEF n
  <2> DEFINE r == call'[h]
  <2>3. /\ r \in CallRecord /\ call' = [call EXCEPT ![h] = r] /\ r.pc = "challenged" /\ r.answer = "none"
        /\ \A k \in Calls \ {h} : call'[k] = call[k]
        /\ call' \in [Calls -> CallRecord] /\ KnownCodes \subseteq KnownCodes'
    BY <1>1, <2>2, SetCall
  <2>4. /\ call'[h].pc = "challenged" /\ call'[h].op = "exchange" /\ call'[h].client = call[h].client
        /\ call'[h].arg = call[h].arg /\ call'[h].answer = "none" /\ KnownCodes \subseteq KnownCodes'
    BY <1>1, <2>2, SetCall
  <2>5. CallOK(h)'
    BY <1>1, <2>0, <2>4 DEF CallOK
  <2> HIDE DEF r
  <2>6. DOMAIN codes' \subseteq KnownCodes'
    BY <1>2, <2>4
  <2>7. QueueOK'
    <3>1. call'[h].pc \notin Waiting
      BY <1>3, <2>4
    <3> QED BY <1>1, <1>3, <2>3, <3>1, RefuseQueue
  <2>8. queue # << >> /\ call[Head(queue)].pc \in Writing => queue' # << >> /\ Head(queue') = Head(queue)
    BY <1>1
  <2>9. Modest
    BY <1>1, <1>2, <1>3, <2>3, <2>5, <2>6, <2>7, <2>8, QuietStep
  <2> QED BY <1>2, <2>9
<1>5. CASE Refuse(h)
  BY <1>1, <1>2, <1>3, <1>5, RefusedModest
<1> QED BY <1>1, <1>4, <1>5

\* A mutation of a request takes its place in the queue.
LEMMA QueuedStep ==
  ASSUME ShapeInv, NEW h \in Calls, NEW n \in Nat, call[h].pc \in {"found", "challenged"},
         call[h].pc = "found" => call[h].op \in {"refresh", "revoke"},
         call' = [call EXCEPT ![h].pc = "queued", ![h].ends = n], queue' = Append(queue, h),
         codes' \in [DOMAIN codes' -> [client : Clients, expires : Nat]], DOMAIN codes' \subseteq DOMAIN codes,
         UNCHANGED <<storeVars, worldVars>>
  PROVE  /\ ShapeInv' /\ Quiet
         /\ call[h].op \in {"refresh", "revoke"} => Modest
<1>1. call[h] \in CallRecord /\ CallOK(h) /\ call \in [Calls -> CallRecord] /\ QueueOK /\ DOMAIN codes \subseteq KnownCodes
  BY DEF ShapeInv
<1>2. "queued" \in Waiting /\ "queued" \notin Writing /\ {"found", "challenged"} \cap (Waiting \cup Writing \cup {"done"}) = {}
  BY DEF Waiting, Writing
<1> DEFINE r == call'[h]
<1>3. /\ r \in CallRecord /\ call' = [call EXCEPT ![h] = r] /\ r.answer = "none"
      /\ r.pc = "queued" /\ r.op = call[h].op /\ r.client = call[h].client /\ r.arg = call[h].arg
      /\ r.metadata = call[h].metadata
      /\ \A k \in Calls \ {h} : call'[k] = call[k]
      /\ KnownCodes \subseteq KnownCodes' /\ KnownTokens \subseteq KnownTokens'
  BY <1>2, SetCall
<1>4. QueueOK' /\ queue' # << >> /\ (queue # << >> => Head(queue') = Head(queue))
  BY <1>1, <1>2, <1>3, QueueAppend
<1>5. CallOK(h)'
  BY <1>1, <1>3 DEF CallOK
<1>6. DOMAIN codes' \subseteq KnownCodes' /\ call[h].pc \notin Writing \cup {"done"}
  BY <1>1, <1>2, <1>3
<1> HIDE DEF r
<1> QED BY <1>2, <1>3, <1>4, <1>5, <1>6, QuietStep

LEMMA MutateModest ==
  ASSUME ShapeInv, NEW h \in Calls, Mutate(h)
  PROVE  Modest
<1>1. /\ call[h].pc = "found" /\ call[h].op \in {"refresh", "revoke"}
      /\ UNCHANGED <<storeVars, codes, worldVars>>
  BY DEF Mutate
<1>2. /\ codes' \in [DOMAIN codes' -> [client : Clients, expires : Nat]] /\ DOMAIN codes' \subseteq KnownCodes
      /\ DOMAIN codes' \subseteq DOMAIN codes /\ call[h] \in CallRecord /\ call \in [Calls -> CallRecord]
  BY <1>1 DEF ShapeInv
<1>3. "found" \notin Waiting /\ "found" \notin Writing \cup {"done"}
  BY DEF Waiting, Writing
<1>4. CASE Refuse(h) /\ UNCHANGED queue
  BY <1>1, <1>2, <1>3, <1>4, RefusedModest
<1>5. CASE Set(h, "queued") /\ queue' = Append(queue, h)
  <2> DEFINE n == call[h].ends
  <2>1. n \in Nat /\ call' = [call EXCEPT ![h].pc = "queued", ![h].ends = n]
    BY <1>2, <1>5 DEF Set, CallRecord
  <2> HIDE DEF n
  <2> QED BY <1>1, <1>2, <1>5, <2>1, QueuedStep
<1> QED BY <1>4, <1>5 DEF Mutate

LEMMA TakeCodeQuiet ==
  ASSUME ShapeInv, NEW h \in Calls, TakeCode(h)
  PROVE  /\ ShapeInv' /\ Quiet /\ DOMAIN codes' \subseteq DOMAIN codes
         /\ Modest
            \/ /\ call[h].pc = "challenged" /\ call[h].op = "exchange" /\ call[h].arg \in DOMAIN codes \ DOMAIN codes'
               /\ call'[h].op = "exchange" /\ call'[h].arg = call[h].arg /\ call'[h].answer = "none"
               /\ \A k \in Calls \ {h} : call'[k] = call[k]
<1>1. call[h].pc = "challenged" /\ UNCHANGED <<storeVars, worldVars>> /\ call[h].op = "exchange" /\ call[h] \in CallRecord
      /\ call \in [Calls -> CallRecord]
  BY DEF TakeCode, ShapeInv, CallOK
<1>2. "challenged" \notin Waiting /\ "challenged" \notin Writing \cup {"done"}
  BY DEF Waiting, Writing
<1>3. CASE Bound(h)
  <2> DEFINE D == DOMAIN LiveCodes \ {call[h].arg}
             n == codes[call[h].arg].expires
  <2>1. /\ codes' = [k \in D |-> LiveCodes[k]] /\ queue' = Append(queue, h)
        /\ call' = [call EXCEPT ![h].pc = "queued", ![h].ends = n]
    BY <1>3 DEF TakeCode, Without, Restrict
  <2>2. call[h].arg \in DOMAIN LiveCodes
    BY <1>3 DEF Bound
  <2>3. /\ codes' \in [DOMAIN codes' -> [client : Clients, expires : Nat]] /\ DOMAIN codes' \subseteq DOMAIN codes
        /\ call[h].arg \in DOMAIN codes \ DOMAIN codes'
    BY <2>1, <2>2, LiveCodesOK
  <2>4. n \in Nat
    BY <2>2, LiveCodesOK DEF ShapeInv
  <2> HIDE DEF n
  <2>5. ShapeInv' /\ Quiet
    BY <1>1, <2>1, <2>3, <2>4, QueuedStep
  <2>6. "queued" \in Waiting
    BY DEF Waiting
  <2>7. /\ call'[h].op = call[h].op /\ call'[h].arg = call[h].arg /\ call'[h].answer = "none"
        /\ \A k \in Calls \ {h} : call'[k] = call[k]
    BY <1>1, <2>1, <2>4, <2>6, SetCall
  <2> QED BY <1>1, <2>3, <2>5, <2>7
<1>4. CASE ~Bound(h)
  <2>1. codes' = LiveCodes /\ Refuse(h) /\ UNCHANGED queue
    BY <1>4 DEF TakeCode
  <2>2. /\ codes' \in [DOMAIN codes' -> [client : Clients, expires : Nat]] /\ DOMAIN codes' \subseteq KnownCodes
        /\ DOMAIN codes' \subseteq DOMAIN codes
    BY <2>1, LiveCodesOK
  <2>3. Modest
    BY <1>1, <1>2, <2>1, <2>2, RefusedModest
  <2> QED BY <2>2, <2>3 DEF Modest
<1> QED BY <1>3, <1>4

LEMMA GiveBackModest ==
  ASSUME ShapeInv, NEW h \in Calls, GiveBackCode(h)
  PROVE  /\ Modest /\ DOMAIN codes' \subseteq DOMAIN codes \cup {call[h].arg}
         /\ call[h].op = "exchange" /\ call[h].pc = "failed" /\ call'[h].op = "none" /\ call'[h].answer = "error"
<1>1. /\ call[h].pc = "failed" /\ UNCHANGED <<storeVars, worldVars>> /\ UNCHANGED queue /\ Refuse(h)
  BY DEF GiveBackCode
<1>2. /\ call[h].op = "exchange" /\ call[h].arg \in KnownCodes /\ call[h] \in CallRecord /\ call[h].client \in Clients
      /\ call \in [Calls -> CallRecord]
      /\ codes \in [DOMAIN codes -> [client : Clients, expires : Nat]] /\ DOMAIN codes \subseteq KnownCodes
  BY <1>1 DEF ShapeInv, CallOK
<1>3. "failed" \notin Waiting /\ "failed" \notin Writing \cup {"done"}
  BY DEF Waiting, Writing
<1>4. call[h].ends \in Nat
  BY <1>2 DEF CallRecord
<1>5. codes' \in [DOMAIN codes' -> [client : Clients, expires : Nat]] /\ DOMAIN codes' \subseteq DOMAIN codes \cup {call[h].arg}
  BY <1>2, <1>4 DEF GiveBackCode
<1>6. DOMAIN codes' \subseteq KnownCodes
  BY <1>2, <1>5
<1>7. Modest
  BY <1>1, <1>3, <1>5, <1>6, RefusedModest
<1>8. call'[h] = Refusal
  BY <1>1, <1>2 DEF Refuse, Refusal
<1> QED BY <1>1, <1>2, <1>5, <1>7, <1>8, RefusalOK

LEMMA TickQuiet ==
  ASSUME ShapeInv, Tick
  PROVE  ShapeInv' /\ Quiet /\ Modest /\ UNCHANGED <<codes, call>>
<1>1. /\ clock < MaxTime /\ clock' = clock + 1 /\ clock \in 0..MaxTime /\ MaxTime \in Nat
      /\ memory' = memory /\ prior' = prior /\ disk' = disk /\ revoked' = revoked
      /\ queue' = queue /\ codes' = codes /\ call' = call /\ loadable' = loadable /\ faults' = faults
  BY OAuthAssumption DEF Tick, ShapeInv, storeVars
<1>2. clock' \in 0..MaxTime /\ clock' \in Nat /\ clock' >= clock
  BY <1>1
<1>3. ShapeInv'
  BY <1>1, <1>2 DEF ShapeInv, StoreOK, CallOK, QueueOK, KnownCodes, KnownTokens, Answered
<1>4. Quiet
  BY <1>1, <1>2 DEF Quiet, storeVars
<1> QED BY <1>1, <1>3, <1>4 DEF Modest

-----------------------------------------------------------------------------
(* Steps that leave the store alone.                                        *)

LEMMA KeptStill ==
  ASSUME NEW r \in CallRecord, NEW h \in Calls, NEW now \in Nat, NEW later \in Nat, later >= now,
         NEW s, NEW w, NEW R, NEW Q, R \subseteq Q, KeptAs(r, h, now, s, R),
         \A t \in Both(h) : Owned(s, t, r.client) => \/ Owned(w, t, r.client)
                                                     \/ later >= r.until + Ttl(t)
                                                     \/ r.grant \in Q
  PROVE  KeptAs(r, h, later, w, Q)
<1>1. r.until \in Nat /\ AccessTtl \in Nat /\ RefreshTtl \in Nat
  BY OAuthAssumption DEF CallRecord
<1>2. /\ now >= r.until + AccessTtl => later >= r.until + AccessTtl
      /\ now >= r.until + RefreshTtl => later >= r.until + RefreshTtl
  BY <1>1
<1>3. Ttl(Access(h)) = AccessTtl /\ Ttl(Refresh(h)) = RefreshTtl
  BY Names DEF Ttl, Access, Refresh
<1> QED BY <1>2, <1>3 DEF KeptAs, Both

\* The calls that the store or a mutation knows are as they were.
LEMMA QuietCalls ==
  ASSUME ShapeInv, ShapeInv', TokenInv, Quiet
  PROVE  /\ memory' = memory /\ prior' = prior /\ disk' = disk /\ revoked' = revoked
         /\ clock \in Nat /\ clock' \in Nat /\ clock' >= clock
         /\ \A k \in Calls : call[k].pc \in Writing \cup {"done"} => call'[k] = call[k]
         /\ \A k \in Calls : call'[k].pc \in Writing => call'[k] = call[k]
         /\ \A k \in Calls : Yields(k)' /\ call'[k].op \in {"exchange", "refresh"} => call'[k] = call[k] /\ Yields(k)
<1>1. /\ memory' = memory /\ prior' = prior /\ disk' = disk /\ revoked' = revoked
      /\ clock \in Nat /\ clock' \in Nat /\ clock' >= clock
  BY DEF Quiet, storeVars, ShapeInv
<1>2. /\ \A k \in Calls : call[k].pc \in Writing \cup {"done"} => call'[k] = call[k]
      /\ \A k \in Calls : call'[k].pc \in Writing => call'[k] = call[k]
  BY DEF Quiet
<1>3. ASSUME NEW k \in Calls, Yields(k)', call'[k].op \in {"exchange", "refresh"}
      PROVE  call'[k] = call[k] /\ Yields(k)
  <2>1. CASE call'[k].answer = "ok"
    BY <1>3, <2>1 DEF Quiet, Yields
  <2>2. CASE {Access(k), Refresh(k)} \cap DOMAIN disk'.tokens # {}
    <3>1. PICK t \in {Access(k), Refresh(k)} : t \in DOMAIN disk.tokens
      BY <1>1, <2>2
    <3>2. t[2] = k /\ k # Earlier
      BY <3>1, Names
    <3>3. call[k].pc = "done"
      BY <3>1, <3>2 DEF TokenInv, TokensOK
    <3> QED BY <1>2, <3>1, <3>3 DEF Yields
  <2> QED BY <1>3, <2>1, <2>2 DEF Yields
<1> QED BY <1>1, <1>2, <1>3

LEMMA QuietKeeps ==
  ASSUME OAuthInv, ShapeInv', Quiet
  PROVE  WriterInv' /\ TokenInv' /\ RevokedInv' /\ KeptInv'
<1> USE DEF OAuthInv
<1>1. /\ memory' = memory /\ prior' = prior /\ disk' = disk /\ revoked' = revoked
      /\ clock \in Nat /\ clock' \in Nat /\ clock' >= clock
      /\ \A k \in Calls : call[k].pc \in Writing \cup {"done"} => call'[k] = call[k]
      /\ \A k \in Calls : call'[k].pc \in Writing => call'[k] = call[k]
      /\ \A k \in Calls : Yields(k)' /\ call'[k].op \in {"exchange", "refresh"} => call'[k] = call[k] /\ Yields(k)
  BY QuietCalls
<1>2. \A k \in Calls : call'[k].pc \in Writing <=> call[k].pc \in Writing
  BY <1>1
<1>3. \A k \in Calls : call'[k].pc \in Writing => Ends(k)' = Ends(k)
  BY <1>1 DEF Ends
<1>4. WriterInv'
  <2>1. ASSUME NEW k \in Calls, call'[k].pc \in Writing
        PROVE  queue' # << >> /\ Head(queue') = k
    BY <1>2, <2>1 DEF WriterInv, Quiet
  <2> QED BY <1>1, <1>2, <2>1 DEF WriterInv
<1>5. ASSUME NEW s \in {memory, disk}, NEW t \in DOMAIN s.tokens
      PROVE  /\ t[2] # Earlier => t[2] \in Calls
             /\ t[2] # Earlier => call[t[2]].pc \in Writing \cup {"done"}
             /\ s.tokens[t].grant \in Calls => call[s.tokens[t].grant].pc \in Writing \cup {"done"}
  <2>1. t \in Tokens
    BY DEF ShapeInv, StoreOK
  <2>2. t[2] # Earlier => t[2] \in Calls
    BY <2>1, Names DEF Issuers
  <2>3. TokensOK(s, {"done", "granting"}) \/ TokensOK(s, {"done"})
    BY DEF TokenInv
  <2> QED BY <2>2, <2>3 DEF TokensOK, Writing
<1>6. TokenInv'
  <2>1. TokensOK(disk, {"done"})'
    <3>1. TokensOK(disk, {"done"})
      BY DEF TokenInv
    <3> QED BY <1>1, <1>5, <3>1 DEF TokensOK, Writing
  <2>2. TokensOK(memory, {"done", "granting"})'
    <3>1. TokensOK(memory, {"done", "granting"})
      BY DEF TokenInv
    <3> QED BY <1>1, <1>5, <3>1 DEF TokensOK, Writing
  <2>3. \A t \in DOMAIN memory'.tokens \ DOMAIN disk'.tokens : t[2] \in Calls /\ call'[t[2]].pc = "granting"
    BY <1>1 DEF TokenInv, Writing
  <2> QED BY <2>1, <2>2, <2>3 DEF TokenInv
<1>7. RevokedInv'
  BY <1>1, <1>3 DEF RevokedInv, Dead
<1>8. ExpiryOK(memory)' /\ ExpiryOK(disk)'
  <2>1. ExpiryOK(memory) /\ ExpiryOK(disk)
    BY DEF KeptInv
  <2>2. ExpiryOK(memory)'
    BY <1>1, <1>5, <2>1 DEF ExpiryOK
  <2>3. ExpiryOK(disk)'
    BY <1>1, <1>5, <2>1 DEF ExpiryOK
  <2> QED BY <2>2, <2>3
<1>9. ASSUME NEW k \in Calls, call'[k] = call[k], NEW s, NEW R, KeptAs(call[k], k, clock, s, R)
      PROVE  KeptAs(call'[k], k, clock', s, R)
  <2> DEFINE r == call[k]
             now == clock
             later == clock'
  <2>1. r \in CallRecord /\ now \in Nat /\ later \in Nat /\ later >= now /\ KeptAs(r, k, now, s, R)
    BY <1>1, <1>9 DEF ShapeInv
  <2>2. r = call'[k]
    BY <1>9
  <2> HIDE DEF r, now
  <2>3. KeptAs(r, k, later, s, R)
    BY <2>1, KeptStill
  <2> QED BY <2>2, <2>3
<1>10. ASSUME NEW k \in Calls, Answered(k, "exchange")' \/ Answered(k, "refresh")'
       PROVE  call'[k] = call[k]
  BY <1>1, <1>10 DEF Answered, Yields
<1>11. ASSUME NEW h \in Calls, Answered(h, "exchange")' \/ Answered(h, "refresh")'
       PROVE  /\ Kept(h, disk, revoked)'
              /\ \A k \in Calls : call'[k].pc \in Writing => Kept(h, memory, revoked \cup Ends(k))'
  <2>1. call'[h] = call[h] /\ (Answered(h, "exchange") \/ Answered(h, "refresh"))
    BY <1>10, <1>11 DEF Answered
  <2>2. KeptAs(call[h], h, clock, disk, revoked)
    BY <2>1 DEF KeptInv, Kept
  <2>3. KeptAs(call'[h], h, clock', disk, revoked)
    BY <1>9, <2>1, <2>2
  <2>4. ASSUME NEW k \in Calls, call'[k].pc \in Writing
        PROVE  Kept(h, memory, revoked \cup Ends(k))'
    <3> DEFINE R == revoked \cup Ends(k)
    <3>1. KeptAs(call[h], h, clock, memory, R)
      BY <1>2, <2>1, <2>4 DEF KeptInv, Kept
    <3>2. R' = R
      BY <1>1, <1>3, <2>4
    <3>3. KeptAs(call'[h], h, clock', memory, R)
      BY <1>9, <2>1, <3>1
    <3>4. KeptAs(call'[h], h, clock', memory', R')
      BY <1>1, <3>2, <3>3
    <3> QED BY <3>4 DEF Kept
  <2>5. KeptAs(call'[h], h, clock', disk', revoked')
    BY <1>1, <2>3
  <2> QED BY <2>4, <2>5 DEF Kept
<1>12. ASSUME NEW k \in Calls, call'[k].pc = "granting", call'[k].op \in {"exchange", "refresh"}
       PROVE  Kept(k, memory, {})'
  <2>1. call'[k] = call[k]
    BY <1>1, <1>12 DEF Writing
  <2>2. KeptAs(call[k], k, clock, memory, {})
    BY <1>12, <2>1 DEF KeptInv, Kept
  <2>3. KeptAs(call'[k], k, clock', memory', {})
    BY <1>1, <1>9, <2>1, <2>2
  <2> QED BY <2>3 DEF Kept
<1>13. KeptInv'
  BY <1>8, <1>11, <1>12 DEF KeptInv
<1> QED BY <1>4, <1>6, <1>7, <1>13

\* A request that claims after a modest step claimed before it.
LEMMA ModestClaims ==
  ASSUME OAuthInv, Modest
  PROVE  /\ \A k \in Calls : Claims(k)' => call'[k] = call[k] /\ Claims(k) /\ (Yields(k)' <=> Yields(k))
         /\ memory' = memory /\ disk' = disk
<1> USE DEF OAuthInv
<1>1. /\ ShapeInv' /\ Quiet
      /\ \A k \in Calls : call'[k] # call[k] => ~(call'[k].op = "exchange" /\ call'[k].pc \in {"queued", "failed"})
  BY DEF Modest
<1>2. /\ memory' = memory /\ disk' = disk
      /\ \A k \in Calls : call'[k].pc \in Writing => call'[k] = call[k]
      /\ \A k \in Calls : Yields(k)' /\ call'[k].op \in {"exchange", "refresh"} => call'[k] = call[k] /\ Yields(k)
  BY <1>1, QuietCalls
<1>3. ASSUME NEW k \in Calls, Claims(k)'
      PROVE  call'[k] = call[k]
  BY <1>1, <1>2, <1>3 DEF Claims, Writing
<1>4. ASSUME NEW k \in Calls, call'[k] = call[k]
      PROVE  Yields(k)' <=> Yields(k)
  BY <1>2, <1>4 DEF Yields
<1>5. ASSUME NEW k \in Calls, Claims(k)'
      PROVE  Claims(k)
  BY <1>3, <1>4, <1>5 DEF Claims
<1> QED BY <1>2, <1>3, <1>4, <1>5

LEMMA ModestKeeps ==
  ASSUME OAuthInv, Modest,
         \A k \in Calls : Claims(k) /\ call'[k] = call[k] /\ call[k].op = "exchange" /\ call[k].arg \in DOMAIN codes' =>
           call[k].arg \in DOMAIN codes
  PROVE  OAuthInv'
<1>1. /\ \A k \in Calls : Claims(k)' => call'[k] = call[k] /\ Claims(k) /\ (Yields(k)' <=> Yields(k))
      /\ memory' = memory /\ disk' = disk
  BY ModestClaims
<1>2. ASSUME NEW k \in Calls, Claims(k)', call'[k].op = "exchange"
      PROVE  call'[k].arg \notin DOMAIN codes'
  <2>1. Claims(k) /\ call'[k] = call[k]
    BY <1>1, <1>2
  <2> QED BY <1>2, <2>1 DEF OAuthInv, ClaimInv
<1>3. ASSUME NEW k \in Calls, Claims(k)', call'[k].op = "refresh"
      PROVE  Spent(memory', call'[k].arg) /\ (Yields(k)' => Spent(disk', call'[k].arg))
  <2>1. Claims(k) /\ call'[k] = call[k] /\ (Yields(k)' <=> Yields(k))
    BY <1>1, <1>3
  <2>2. Spent(memory, call[k].arg) /\ (Yields(k) => Spent(disk, call[k].arg))
    BY <1>3, <2>1 DEF OAuthInv, ClaimInv
  <2> QED BY <1>1, <2>1, <2>2
<1>4. ASSUME NEW h \in Calls, NEW k \in Calls, h # k, call'[h].op = call'[k].op, call'[h].arg = call'[k].arg,
             Claims(h)', Claims(k)'
      PROVE  FALSE
  <2>1. Claims(h) /\ Claims(k) /\ call'[h] = call[h] /\ call'[k] = call[k]
    BY <1>1, <1>4
  <2> QED BY <1>4, <2>1 DEF OAuthInv, ClaimInv
<1>5. ClaimInv'
  BY <1>2, <1>3, <1>4 DEF ClaimInv, Spent
<1>6. ShapeInv' /\ Quiet
  BY DEF Modest
<1> QED BY <1>5, <1>6, QuietKeeps DEF OAuthInv

LEMMA AuthorizeKeeps ==
  ASSUME OAuthInv, NEW h \in Calls, Authorize(h)
  PROVE  OAuthInv'
<1>1. Modest /\ DOMAIN codes' \subseteq DOMAIN codes \cup {h} /\ call[h].op = "authorize"
  BY AuthorizeModest DEF OAuthInv
<1>2. call[h].answer # "ok"
  BY DEF Authorize, OAuthInv, ShapeInv, CallOK
<1>3. ASSUME NEW k \in Calls, call[k].op = "exchange"
      PROVE  call[k].arg # h
  <2>1. call[k].arg \in KnownCodes
    BY <1>3 DEF OAuthInv, ShapeInv, CallOK
  <2> QED BY <1>2, <2>1, Names DEF KnownCodes, Answered
<1> QED BY <1>1, <1>3, ModestKeeps

LEMMA GiveBackKeeps ==
  ASSUME OAuthInv, NEW h \in Calls, GiveBackCode(h)
  PROVE  OAuthInv'
<1>1. /\ Modest /\ DOMAIN codes' \subseteq DOMAIN codes \cup {call[h].arg}
      /\ call[h].op = "exchange" /\ call[h].pc = "failed" /\ call'[h].op = "none" /\ call'[h].answer = "error"
  BY GiveBackModest DEF OAuthInv
<1>2. Claims(h)
  BY <1>1 DEF Claims
<1>3. ASSUME NEW k \in Calls, Claims(k), call'[k] = call[k], call[k].op = "exchange"
      PROVE  call[k].arg # call[h].arg
  <2>1. k # h
    BY <1>1, <1>3
  <2> QED BY <1>1, <1>2, <1>3, <2>1 DEF OAuthInv, ClaimInv
<1> QED BY <1>1, <1>3, ModestKeeps

LEMMA TakeCodeKeeps ==
  ASSUME OAuthInv, NEW h \in Calls, TakeCode(h)
  PROVE  OAuthInv'
<1> USE DEF OAuthInv
<1>1. /\ ShapeInv' /\ Quiet /\ DOMAIN codes' \subseteq DOMAIN codes
  BY TakeCodeQuiet
<1>2. CASE Modest
  BY <1>1, <1>2, ModestKeeps
<1>3. CASE /\ call[h].pc = "challenged" /\ call[h].op = "exchange" /\ call[h].arg \in DOMAIN codes \ DOMAIN codes'
           /\ call'[h].op = "exchange" /\ call'[h].arg = call[h].arg /\ call'[h].answer = "none"
           /\ \A k \in Calls \ {h} : call'[k] = call[k]
  <2>1. /\ memory' = memory /\ disk' = disk
        /\ \A k \in Calls : Yields(k)' /\ call'[k].op \in {"exchange", "refresh"} => call'[k] = call[k] /\ Yields(k)
    BY <1>1, QuietCalls
  <2>2. ASSUME NEW k \in Calls, k # h
        PROVE  call'[k] = call[k] /\ (Yields(k)' <=> Yields(k)) /\ (Claims(k)' <=> Claims(k))
    BY <1>3, <2>1, <2>2 DEF Yields, Claims
  <2>3. ASSUME NEW k \in Calls, Claims(k)', call'[k].op = "exchange"
        PROVE  call'[k].arg \notin DOMAIN codes'
    <3>1. CASE k = h
      BY <1>3, <3>1
    <3>2. CASE k # h
      BY <1>1, <2>2, <2>3, <3>2 DEF ClaimInv
    <3> QED BY <3>1, <3>2
  <2>4. ASSUME NEW k \in Calls, Claims(k)', call'[k].op = "refresh"
        PROVE  Spent(memory', call'[k].arg) /\ (Yields(k)' => Spent(disk', call'[k].arg))
    <3>1. k # h
      BY <1>3, <2>4
    <3> QED BY <2>1, <2>2, <2>4, <3>1 DEF ClaimInv
  <2>5. ASSUME NEW k \in Calls, k # h, call'[k].op = "exchange", call'[k].arg = call'[h].arg, Claims(k)'
        PROVE  FALSE
    <3>1. Claims(k) /\ call[k].op = "exchange" /\ call[k].arg = call[h].arg
      BY <1>3, <2>2, <2>5
    <3> QED BY <1>3, <3>1 DEF ClaimInv
  <2>6. ASSUME NEW i \in Calls, NEW k \in Calls, i # k, call'[i].op = call'[k].op, call'[i].arg = call'[k].arg,
               Claims(i)', Claims(k)'
        PROVE  FALSE
    <3>1. CASE i = h \/ k = h
      BY <1>3, <2>5, <2>6, <3>1
    <3>2. CASE i # h /\ k # h
      <4>1. /\ Claims(i) /\ call'[i] = call[i] /\ Claims(k) /\ call'[k] = call[k]
        BY <2>2, <2>6, <3>2
      <4> QED BY <2>6, <4>1 DEF ClaimInv
    <3> QED BY <3>1, <3>2
  <2>7. ClaimInv'
    BY <2>3, <2>4, <2>6 DEF ClaimInv, Spent
  <2> QED BY <1>1, <2>7, QuietKeeps
<1> QED BY <1>2, <1>3, TakeCodeQuiet

-----------------------------------------------------------------------------
(* A mutation runs at the head of the queue.                                *)

LEMMA MutatesCalls ==
  ASSUME OAuthInv, NEW h \in Calls, Mutates(h)
  PROVE  /\ queue # << >> /\ Head(queue) = h /\ call[h].pc = "queued" /\ call[h].answer = "none"
         /\ call'[h].pc \in Writing /\ call'[h].grant \in Issuers \cup {NoClient} /\ call'[h].until = clock
         /\ call'[h].op = call[h].op /\ call'[h].client = call[h].client /\ call'[h].arg = call[h].arg
         /\ call'[h].metadata = call[h].metadata /\ call'[h].answer = "none"
         /\ \A k \in Calls \ {h} : call'[k] = call[k]
         /\ call' \in [Calls -> CallRecord]
         /\ memory = disk /\ disk' = disk /\ prior' = disk /\ revoked' = revoked /\ clock' = clock
         /\ queue' = queue /\ codes' = codes /\ clock \in Nat
         /\ \A k \in Calls : call[k].pc \notin Writing
<1> USE DEF OAuthInv
<1>1. /\ queue # << >> /\ Head(queue) = h /\ call[h].pc = "queued" /\ prior' = memory /\ disk' = disk /\ revoked' = revoked
      /\ queue' = queue /\ codes' = codes /\ clock' = clock
  BY DEF Mutates, AtHead, worldVars
<1>2. PICK pc \in Writing, g \in Issuers \cup {NoClient} : RunsTo(h, pc, g)
  BY DEF Mutates
<1>3. call[h].answer = "none" /\ clock \in Nat
  BY <1>1 DEF ShapeInv, CallOK, CallRecord
<1>4. /\ call'[h].pc = pc /\ call'[h].grant = g /\ call'[h].until = clock
      /\ call'[h].op = call[h].op /\ call'[h].client = call[h].client /\ call'[h].arg = call[h].arg
      /\ call'[h].metadata = call[h].metadata /\ call'[h].answer = call[h].answer
      /\ \A k \in Calls \ {h} : call'[k] = call[k]
      /\ call' \in [Calls -> CallRecord]
  BY <1>2, RunCall
<1>5. \A k \in Calls : call[k].pc \notin Writing
  BY <1>1 DEF WriterInv, Writing
<1>6. memory = disk
  BY <1>5 DEF WriterInv
<1> QED BY <1>1, <1>3, <1>4, <1>5, <1>6

LEMMA MutatesShape ==
  ASSUME OAuthInv, NEW h \in Calls, Mutates(h)
  PROVE  ShapeInv' /\ WriterInv'
<1> USE DEF OAuthInv
<1> DEFINE r == call'[h]
<1>1. /\ call' \in [Calls -> CallRecord] /\ r \in CallRecord /\ \A k \in Calls \ {h} : call'[k] = call[k]
  BY MutatesCalls
<1>2. call \in [Calls -> CallRecord] /\ CallOK(h) /\ QueueOK
  BY DEF ShapeInv
<1> HIDE DEF r
<1>3. call' = [call EXCEPT ![h] = r]
  BY <1>1, <1>2 DEF r
<1>4. \A k \in Calls \ {h} : CallOK(k)'
  BY <1>1, <1>3, MutatesCalls, OneCall
<1>5. KnownCodes \subseteq KnownCodes' /\ KnownTokens \subseteq KnownTokens'
  BY <1>1, <1>3, MutatesCalls, OneCall
<1>6. call[h].op = "exchange" => call'[h].grant = h /\ call'[h].pc = "granting"
  BY DEF Mutates
<1>7. CallOK(h)'
  BY <1>2, <1>5, <1>6, MutatesCalls DEF CallOK, Writing
<1>8. \A k \in Calls : call'[k].pc \in Waiting <=> call[k].pc \in Waiting
  BY MutatesCalls DEF Waiting, Writing
<1>9. QueueOK'
  BY <1>2, <1>8, QueueSame, MutatesCalls
<1>10. StoreOK(memory') /\ loadable' = loadable /\ faults' = faults
  BY DEF Mutates, worldVars
<1>11. StoreOK(disk) /\ loadable \in BOOLEAN /\ faults \in Nat /\ revoked \subseteq Issuers /\ clock \in 0..MaxTime
       /\ codes \in [DOMAIN codes -> [client : Clients, expires : Nat]] /\ DOMAIN codes \subseteq KnownCodes
  BY DEF ShapeInv
<1>12. ShapeInv'
  <2>1. \A k \in Calls : CallOK(k)'
    BY <1>4, <1>7
  <2>2. StoreOK(memory') /\ StoreOK(prior') /\ StoreOK(disk')
    BY <1>10, <1>11, MutatesCalls
  <2>3. DOMAIN codes' \subseteq KnownCodes' /\ codes' \in [DOMAIN codes' -> [client : Clients, expires : Nat]]
    BY <1>5, <1>11, MutatesCalls
  <2>4. loadable' \in BOOLEAN /\ faults' \in Nat /\ revoked' \subseteq Issuers /\ clock' \in 0..MaxTime
    BY <1>10, <1>11, MutatesCalls
  <2> QED BY <1>1, <1>9, <2>1, <2>2, <2>3, <2>4 DEF ShapeInv, StoreOK
<1>13. WriterInv'
  BY MutatesCalls DEF WriterInv
<1> QED BY <1>12, <1>13

\* No token of the file, and no grant in it, is of the call that runs.
LEMMA MutatesFresh ==
  ASSUME OAuthInv, NEW h \in Calls, Mutates(h)
  PROVE  /\ \A t \in DOMAIN disk.tokens : t \in Tokens /\ t[2] # h /\ disk.tokens[t].grant # h
         /\ TokensOK(disk, {"done"})
         /\ \A t \in DOMAIN disk.tokens : t[2] # Earlier => t[2] \in Calls \ {h} /\ call'[t[2]] = call[t[2]]
         /\ \A t \in DOMAIN disk.tokens : disk.tokens[t].grant \in Calls => call'[disk.tokens[t].grant].pc = "done"
         /\ \A t \in Both(h) : t[2] = h
<1>1. TokensOK(disk, {"done"})
  BY DEF OAuthInv, TokenInv
<1>2. call[h].pc = "queued" /\ \A k \in Calls \ {h} : call'[k] = call[k]
  BY MutatesCalls
<1>3. ASSUME NEW t \in DOMAIN disk.tokens
      PROVE  t \in Tokens /\ t[2] # h /\ disk.tokens[t].grant # h
  <2>1. t \in Tokens
    BY DEF OAuthInv, ShapeInv, StoreOK
  <2> QED BY <1>1, <1>2, <2>1, Names DEF TokensOK
<1>4. ASSUME NEW t \in DOMAIN disk.tokens, t[2] # Earlier
      PROVE  t[2] \in Calls \ {h} /\ call'[t[2]] = call[t[2]]
  BY <1>2, <1>3, <1>4, Names DEF Issuers
<1>5. ASSUME NEW t \in DOMAIN disk.tokens, disk.tokens[t].grant \in Calls
      PROVE  call'[disk.tokens[t].grant].pc = "done"
  BY <1>1, <1>2, <1>3, <1>5 DEF TokensOK
<1>6. \A t \in Both(h) : t[2] = h
  BY Names DEF Both
<1> QED BY <1>1, <1>3, <1>4, <1>5, <1>6

\* The grant of the pair that is given.
LEMMA GivenGrant ==
  ASSUME OAuthInv, NEW h \in Calls, Mutates(h), call[h].op \in {"exchange", "refresh"}, call'[h].pc = "granting"
  PROVE  /\ call'[h].grant # NoClient
         /\ call'[h].grant \in Calls => call'[call'[h].grant].pc \in {"done", "granting"}
         /\ call'[h].grant \notin revoked
<1>1. GrantFrom(h) /\ memory = disk
  BY MutatesCalls DEF Mutates
<1>2. \/ call'[h].grant = h
      \/ /\ call'[h].grant # NoClient
         /\ \E t \in DOMAIN disk.tokens : disk.tokens[t].grant = call'[h].grant /\ disk.tokens[t].type = "refresh"
  BY <1>1 DEF GrantFrom
<1>3. h \notin revoked
  BY MutatesCalls DEF OAuthInv, RevokedInv
<1>4. ASSUME NEW t \in DOMAIN disk.tokens, disk.tokens[t].type = "refresh"
      PROVE  disk.tokens[t].grant \notin revoked
  BY <1>4 DEF OAuthInv, RevokedInv, Dead
<1> QED BY <1>2, <1>3, <1>4, MutatesFresh, Names

LEMMA MutatesTokens ==
  ASSUME OAuthInv, NEW h \in Calls, Mutates(h)
  PROVE  TokenInv'
<1>1. disk' = disk /\ memory = disk
  BY MutatesCalls
<1>2. TokensOK(disk, {"done"})'
  <2>1. TokensOK(disk, {"done"})
    BY MutatesFresh
  <2> QED BY <1>1, <2>1, MutatesFresh DEF TokensOK
<1>3. ASSUME NEW t \in DOMAIN memory'.tokens
      PROVE  LET r == memory'.tokens[t] IN
             /\ t[1] = "access" <=> r.type = "access"
             /\ r.type = "used_refresh" => r.grant # NoClient
             /\ r.grant \in Calls => call'[r.grant].pc \in {"done", "granting"}
             /\ t[2] # Earlier =>
                  /\ call'[t[2]].op \in {"exchange", "refresh"} /\ call'[t[2]].pc \in {"done", "granting"}
                  /\ call'[t[2]].answer # "error"
                  /\ r.grant # NoClient /\ r.grant = call'[t[2]].grant /\ r.client = call'[t[2]].client
  <2> DEFINE r == memory'.tokens[t]
  <2>1. CASE Inherited(h, t) /\ memory'.tokens[t] = memory.tokens[t]
    <3>1. t \in DOMAIN disk.tokens /\ r = disk.tokens[t]
      BY <1>1, <2>1 DEF Inherited
    <3> QED BY <3>1, MutatesFresh DEF TokensOK
  <2>2. CASE Inherited(h, t) /\ memory'.tokens[t] # memory.tokens[t]
    <3>1. /\ t \in DOMAIN disk.tokens /\ call[h].op = "refresh" /\ call'[h].pc = "granting"
          /\ disk.tokens[t].type = "refresh" /\ r.type = "used_refresh" /\ r.client = disk.tokens[t].client
          /\ r.grant = call'[h].grant /\ disk.tokens[t].grant \in {NoClient, call'[h].grant}
      BY <1>1, <2>2 DEF Inherited
    <3>2. r.grant # NoClient /\ (r.grant \in Calls => call'[r.grant].pc \in {"done", "granting"})
      BY <3>1, GivenGrant
    <3>3. t[2] # Earlier => disk.tokens[t].grant = r.grant
      BY <3>1, MutatesFresh DEF TokensOK
    <3> QED BY <3>1, <3>2, <3>3, MutatesFresh DEF TokensOK
  <2>3. CASE Given(h, t)
    <3>1. /\ t \in Both(h) /\ call[h].op \in {"exchange", "refresh"} /\ call'[h].pc = "granting"
          /\ r.type = t[1] /\ r.grant = call'[h].grant /\ r.client = call[h].client /\ t[2] = h
      BY <2>3, MutatesFresh DEF Given, PairRecord
    <3>2. t[1] # "used_refresh"
      BY <3>1, Names DEF Both
    <3> QED BY <3>1, <3>2, GivenGrant, MutatesCalls
  <2> QED BY <2>1, <2>2, <2>3 DEF Mutates
<1>4. TokensOK(memory, {"done", "granting"})'
  BY <1>3 DEF TokensOK
<1>5. \A t \in DOMAIN memory'.tokens \ DOMAIN disk'.tokens : t[2] \in Calls /\ call'[t[2]].pc = "granting"
  BY <1>1, MutatesFresh DEF Mutates, Inherited, Given
<1> QED BY <1>2, <1>4, <1>5 DEF TokenInv

LEMMA MutatesClaims ==
  ASSUME OAuthInv, NEW h \in Calls, Mutates(h)
  PROVE  ClaimInv'
<1>1. /\ disk' = disk /\ memory = disk /\ codes' = codes /\ call[h].pc = "queued" /\ call'[h].answer = "none"
      /\ call'[h].op = call[h].op /\ call'[h].arg = call[h].arg /\ call'[h].pc \in Writing
      /\ \A k \in Calls \ {h} : call'[k] = call[k]
  BY MutatesCalls
<1>2. ~Yields(h)'
  <2>1. {Access(h), Refresh(h)} \cap DOMAIN disk.tokens = {}
    BY MutatesFresh DEF Both
  <2> QED BY <1>1, <2>1 DEF Yields
<1>3. ASSUME NEW k \in Calls, k # h
      PROVE  call'[k] = call[k] /\ (Yields(k)' <=> Yields(k)) /\ (Claims(k)' <=> Claims(k))
  BY <1>1, <1>3 DEF Yields, Claims
<1>4. call[h].op = "exchange" => call'[h].pc = "granting" /\ Claims(h)
  BY <1>1 DEF Mutates, Claims
<1>5. Claims(h)' => call[h].op \in {"exchange", "refresh"} /\ (call[h].op = "refresh" => call'[h].pc = "granting")
  BY <1>1, <1>2 DEF Claims
<1>6. ASSUME NEW k \in Calls, Claims(k)', call'[k].op = "exchange"
      PROVE  call'[k].arg \notin DOMAIN codes'
  <2>1. Claims(k) /\ call[k].op = "exchange" /\ call'[k].arg = call[k].arg
    BY <1>1, <1>3, <1>4, <1>6
  <2> QED BY <1>1, <2>1 DEF OAuthInv, ClaimInv
<1>7. ASSUME NEW k \in Calls, Claims(k)', call'[k].op = "refresh"
      PROVE  Spent(memory', call'[k].arg) /\ (Yields(k)' => Spent(disk', call'[k].arg))
  <2>1. CASE k = h
    BY <1>1, <1>2, <1>5, <1>7, <2>1 DEF Mutates
  <2>2. CASE k # h
    <3>1. Claims(k) /\ call'[k] = call[k] /\ (Yields(k)' <=> Yields(k))
      BY <1>3, <1>7, <2>2
    <3>2. Spent(memory, call[k].arg) /\ (Yields(k) => Spent(disk, call[k].arg))
      BY <1>7, <3>1 DEF OAuthInv, ClaimInv
    <3>3. call[k].arg \in Tokens /\ call[k].arg[2] # h
      BY <1>1, <1>7, <3>1, KnownArg DEF OAuthInv
    <3>4. ~Given(h, call[k].arg)
      BY <3>3, MutatesFresh DEF Given
    <3>5. Spent(memory', call[k].arg)
      BY <3>2, <3>4 DEF Mutates, Spent, Inherited
    <3> QED BY <1>1, <3>1, <3>2, <3>5
  <2> QED BY <2>1, <2>2
<1>8. ASSUME NEW k \in Calls, k # h, call'[k].op = call'[h].op, call'[k].arg = call'[h].arg, Claims(k)', Claims(h)'
      PROVE  FALSE
  <2>1. /\ Claims(k) /\ call[k].op = call[h].op /\ call[k].arg = call[h].arg
        /\ call[h].op \in {"exchange", "refresh"} /\ (call[h].op = "refresh" => call'[h].pc = "granting")
    BY <1>1, <1>3, <1>5, <1>8
  <2>2. CASE call[h].op = "exchange"
    BY <1>4, <1>8, <2>1, <2>2 DEF OAuthInv, ClaimInv
  <2>3. CASE call[h].op = "refresh"
    <3>1. call[h].arg \in DOMAIN memory.tokens /\ memory.tokens[call[h].arg].type = "refresh"
      BY <2>1, <2>3 DEF Mutates
    <3>2. Spent(memory, call[k].arg)
      BY <2>1, <2>3 DEF OAuthInv, ClaimInv
    <3> QED BY <2>1, <3>1, <3>2 DEF Spent
  <2> QED BY <2>1, <2>2, <2>3
<1>9. ASSUME NEW i \in Calls, NEW k \in Calls, i # k, call'[i].op = call'[k].op, call'[i].arg = call'[k].arg,
             Claims(i)', Claims(k)'
      PROVE  FALSE
  <2>1. CASE i = h \/ k = h
    BY <1>8, <1>9, <2>1
  <2>2. CASE i # h /\ k # h
    <3>1. /\ Claims(i) /\ call'[i] = call[i] /\ Claims(k) /\ call'[k] = call[k]
      BY <1>3, <1>9, <2>2
    <3> QED BY <1>9, <3>1 DEF OAuthInv, ClaimInv
  <2> QED BY <2>1, <2>2
<1> QED BY <1>6, <1>7, <1>9 DEF ClaimInv, Spent

LEMMA MutatesRevoked ==
  ASSUME OAuthInv, NEW h \in Calls, Mutates(h)
  PROVE  RevokedInv'
<1>1. /\ disk' = disk /\ memory = disk /\ revoked' = revoked /\ call[h].pc = "queued"
      /\ call'[h].op = call[h].op /\ call'[h].pc \in Writing
      /\ \A k \in Calls \ {h} : call'[k] = call[k]
      /\ \A k \in Calls : call[k].pc \notin Writing
  BY MutatesCalls
<1>2. ASSUME NEW g \in revoked
      PROVE  Dead(memory', g) /\ Dead(disk', g) /\ (g \in Calls => call'[g].pc = "done")
  <2>1. Dead(memory, g) /\ Dead(disk, g) /\ (g \in Calls => call[g].pc = "done")
    BY DEF OAuthInv, RevokedInv
  <2>2. ASSUME NEW t \in DOMAIN memory'.tokens, memory'.tokens[t].grant = g
        PROVE  memory'.tokens[t].type = "used_refresh"
    <3>1. CASE Inherited(h, t)
      BY <2>1, <2>2, <3>1 DEF Inherited, Dead
    <3>2. CASE Given(h, t)
      <4>1. memory'.tokens[t].grant = call'[h].grant /\ call[h].op \in {"exchange", "refresh"} /\ call'[h].pc = "granting"
        BY <3>2 DEF Given, PairRecord
      <4> QED BY <2>2, <4>1, GivenGrant
    <3> QED BY <3>1, <3>2 DEF Mutates
  <2>3. Dead(memory', g)
    BY <2>2 DEF Dead
  <2> QED BY <1>1, <2>1, <2>3
<1>3. ASSUME NEW k \in Calls, call'[k].pc \in Writing, NEW g \in Ends(k)'
      PROVE  Dead(memory', g) /\ (g \in Calls => call'[g].pc = "done")
  <2>1. k = h
    BY <1>1, <1>3
  <2>2. g = call'[h].grant /\ g # NoClient /\ ~(call[h].op \in {"exchange", "refresh"} /\ call'[h].pc = "granting")
    BY <1>1, <1>3, <2>1 DEF Ends
  <2>3. \E t \in DOMAIN memory.tokens : memory.tokens[t].grant = g
    BY <2>2 DEF Mutates, GrantFrom
  <2>4. g \in Calls => call'[g].pc = "done"
    BY <1>1, <2>3, MutatesFresh
  <2> QED BY <1>3, <2>1, <2>4 DEF Mutates
<1>4. \A g \in revoked' : Dead(memory, g)' /\ Dead(disk, g)' /\ (g \in Calls => call'[g].pc = "done")
  BY <1>1, <1>2 DEF Dead
<1>5. \A k \in Calls : call'[k].pc \in Writing => \A g \in Ends(k)' : Dead(memory, g)' /\ (g \in Calls => call'[g].pc = "done")
  BY <1>3 DEF Dead
<1> QED BY <1>4, <1>5 DEF RevokedInv

\* A mutation takes away what has expired and the grant that it ends.
LEMMA MutatesLeaves ==
  ASSUME OAuthInv, NEW h \in Calls, Mutates(h), NEW k \in Calls, Answered(k, "exchange") \/ Answered(k, "refresh"),
         NEW t \in Both(k), Owned(memory, t, call[k].client)
  PROVE  \/ Owned(memory', t, call[k].client)
         \/ clock >= call[k].until + Ttl(t)
         \/ call[k].grant \in Ends(h)'
<1>1. k # h /\ k # Earlier /\ t[2] = k /\ t \in DOMAIN memory.tokens /\ memory.tokens[t].client = call[k].client
  BY Names, MutatesCalls DEF Both, Answered, Owned
<1>2. memory.tokens[t].grant = call[k].grant /\ call[k].grant # NoClient
  BY <1>1 DEF OAuthInv, TokenInv, TokensOK
<1>3. memory.tokens[t].expires = call[k].until + Ttl(t)
  BY <1>1 DEF OAuthInv, KeptInv, ExpiryOK
<1>4. CASE t \in DOMAIN memory'.tokens
  <2>1. ~Given(h, t)
    BY <1>1, MutatesFresh DEF Given
  <2>2. Inherited(h, t)
    BY <1>4, <2>1 DEF Mutates
  <2> QED BY <1>1, <1>4, <2>2 DEF Inherited, Owned
<1>5. CASE t \notin DOMAIN memory'.tokens
  <2>1. memory.tokens[t].expires <= clock \/ memory.tokens[t].grant \in Ends(h)' \cup {NoClient}
    BY <1>1, <1>5 DEF Mutates
  <2>2. clock \in Nat /\ memory.tokens[t].expires \in Nat
    BY <1>1 DEF OAuthInv, ShapeInv, StoreOK, TokenRecord
  <2> QED BY <1>2, <1>3, <2>1, <2>2
<1> QED BY <1>4, <1>5

LEMMA MutatesKept ==
  ASSUME OAuthInv, NEW h \in Calls, Mutates(h)
  PROVE  KeptInv'
<1>1. /\ disk' = disk /\ memory = disk /\ revoked' = revoked /\ call[h].pc = "queued" /\ clock' = clock
      /\ call'[h].op = call[h].op /\ call'[h].pc \in Writing /\ clock \in Nat /\ call'[h].until = clock
      /\ call'[h].client = call[h].client /\ call'[h].answer = "none"
      /\ \A k \in Calls \ {h} : call'[k] = call[k]
      /\ \A k \in Calls : call[k].pc \notin Writing
  BY MutatesCalls
<1>2. ExpiryOK(disk)'
  <2>1. ExpiryOK(disk)
    BY DEF OAuthInv, KeptInv
  <2> QED BY <1>1, <2>1, MutatesFresh DEF ExpiryOK
<1>3. ExpiryOK(memory)'
  <2>1. ASSUME NEW t \in DOMAIN memory'.tokens, t[2] # Earlier
        PROVE  memory'.tokens[t].expires = call'[t[2]].until + Ttl(t)
    <3>1. CASE Inherited(h, t)
      <4>1. memory'.tokens[t].expires = memory.tokens[t].expires /\ t \in DOMAIN memory.tokens
        BY <3>1 DEF Inherited
      <4>2. memory.tokens[t].expires = call[t[2]].until + Ttl(t)
        BY <2>1, <4>1 DEF OAuthInv, KeptInv, ExpiryOK
      <4> QED BY <1>1, <2>1, <4>1, <4>2, MutatesFresh
    <3>2. CASE Given(h, t)
      BY <1>1, <3>2, MutatesFresh DEF Given, PairRecord
    <3> QED BY <3>1, <3>2 DEF Mutates
  <2> QED BY <2>1 DEF ExpiryOK, Ttl
<1>4. ASSUME NEW k \in Calls, Answered(k, "exchange")' \/ Answered(k, "refresh")'
      PROVE  /\ KeptAs(call'[k], k, clock', disk', revoked')
             /\ KeptAs(call'[k], k, clock', memory', revoked' \cup Ends(h)')
  <2>1. k # h /\ call'[k] = call[k] /\ (Answered(k, "exchange") \/ Answered(k, "refresh"))
    BY <1>1, <1>4 DEF Answered
  <2>2. KeptAs(call[k], k, clock, disk, revoked)
    BY <2>1 DEF OAuthInv, KeptInv, Kept
  <2> DEFINE r == call[k]
             Q == revoked \cup Ends(h)'
             w == memory'
  <2>3. r \in CallRecord
    BY DEF OAuthInv, ShapeInv
  <2>4. \A t \in Both(k) : Owned(memory, t, r.client) => \/ Owned(w, t, r.client)
                                                         \/ clock >= r.until + Ttl(t)
                                                         \/ r.grant \in Q
    BY <2>1, MutatesLeaves
  <2>5. KeptAs(r, k, clock, memory, revoked) /\ revoked \subseteq Q /\ clock >= clock
    BY <1>1, <2>2
  <2> HIDE DEF r, Q, w
  <2>6. KeptAs(r, k, clock, w, Q)
    BY <1>1, <2>3, <2>4, <2>5, KeptStill
  <2> QED BY <1>1, <2>1, <2>2, <2>6 DEF r, Q, w
<1>5. ASSUME call'[h].pc = "granting", call'[h].op \in {"exchange", "refresh"}
      PROVE  KeptAs(call'[h], h, clock', memory', {})
  <2>1. \A t \in Both(h) \cap DOMAIN memory'.tokens : memory'.tokens[t].client = call'[h].client
    <3>1. \A t \in Both(h) : ~Inherited(h, t)
      BY <1>1, MutatesFresh DEF Inherited
    <3>2. \A t \in Both(h) \cap DOMAIN memory'.tokens : Given(h, t)
      BY <3>1 DEF Mutates
    <3>3. \A t \in Both(h) \cap DOMAIN memory'.tokens : memory'.tokens[t] = PairRecord(t, call[h].client, call'[h].grant)
      BY <3>2 DEF Given
    <3>4. \A t : PairRecord(t, call[h].client, call'[h].grant).client = call[h].client
      BY DEF PairRecord
    <3>5. call'[h].client = call[h].client
      BY <1>1
    <3> QED BY <3>3, <3>4, <3>5
  <2>2. /\ Access(h) \in DOMAIN memory'.tokens
        /\ (call[h].op = "refresh" \/ MayRefresh(h)) => Refresh(h) \in DOMAIN memory'.tokens
    BY <1>1, <1>5 DEF Mutates
  <2>3. call'[h].metadata = call[h].metadata
    BY MutatesCalls
  <2> QED BY <1>1, <1>5, <2>1, <2>2, <2>3 DEF KeptAs, Owned, Both, MayRefresh
<1>6. ASSUME NEW i \in Calls, Answered(i, "exchange")' \/ Answered(i, "refresh")'
      PROVE  /\ Kept(i, disk, revoked)'
             /\ \A k \in Calls : call'[k].pc \in Writing => Kept(i, memory, revoked \cup Ends(k))'
  <2>1. \A k \in Calls : call'[k].pc \in Writing => k = h
    BY <1>1
  <2>2. Kept(i, memory, revoked \cup Ends(h))'
    BY <1>4, <1>6 DEF Kept
  <2> QED BY <1>4, <1>6, <2>1, <2>2 DEF Kept
<1>7. ASSUME NEW k \in Calls, call'[k].pc = "granting", call'[k].op \in {"exchange", "refresh"}
      PROVE  Kept(k, memory, {})'
  <2>1. k = h
    BY <1>1, <1>7 DEF Writing
  <2> QED BY <1>5, <1>7, <2>1 DEF Kept
<1> QED BY <1>2, <1>3, <1>6, <1>7 DEF KeptInv

LEMMA MutatesKeeps ==
  ASSUME OAuthInv, NEW h \in Calls, Mutates(h)
  PROVE  OAuthInv'
BY MutatesShape, MutatesTokens, MutatesClaims, MutatesRevoked, MutatesKept DEF OAuthInv

-----------------------------------------------------------------------------
(* A mutation ends, or the server restarts: memory and the file agree.      *)

SameRequest(k) ==
  /\ call'[k].op = call[k].op /\ call'[k].client = call[k].client /\ call'[k].arg = call[k].arg
  /\ call'[k].metadata = call[k].metadata /\ call'[k].grant = call[k].grant /\ call'[k].until = call[k].until

\* What becomes of a call: nothing, it is lost, answered, or fails, or it is refused.
Settled(k) ==
  \/ call'[k] = call[k] /\ call[k].pc \notin Writing
  \/ SameRequest(k) /\ call[k].pc \notin {"idle", "done"} /\ call'[k].pc = "done" /\ call'[k].answer = "lost"
  \/ SameRequest(k) /\ call[k].pc = "granting" /\ call'[k].pc = "done" /\ call'[k].answer = "ok" /\ disk' = memory
  \/ /\ SameRequest(k) /\ call[k].pc = "granting" /\ call[k].op = "exchange"
     /\ call'[k].pc = "failed" /\ call'[k].answer = "none" /\ disk' = disk
  \/ call[k].pc \in Writing /\ (call[k].pc = "refusing" \/ disk' = disk) /\ call'[k] = Refusal

FileKept       == disk' = disk /\ revoked' = revoked
FileWritten(h) == Running(h) /\ disk' = memory /\ revoked' = revoked \cup Ends(h)

Settles ==
  /\ ShapeInv' /\ prior' = disk' /\ memory' = disk' /\ clock' = clock /\ DOMAIN codes' \subseteq DOMAIN codes
  /\ FileKept \/ \E h \in Calls : FileWritten(h)
  /\ \A k \in Calls : Settled(k)

\* Only the head of the queue writes: a call that is written is the one that writes.
LEMMA SettlesWriter ==
  ASSUME OAuthInv, Settles
  PROVE  /\ \A k \in Calls : call'[k].pc \notin Writing
         /\ \A k \in Calls : call[k].pc = "done" => call'[k] = call[k]
         /\ \A h, k \in Calls : call[h].pc \in Writing /\ call[k].pc \in Writing => h = k
<1>1. "done" \notin Writing /\ "failed" \notin Writing
  BY DEF Writing
<1>2. \A k \in Calls : call'[k].pc \notin Writing
  BY <1>1, RefusalOK DEF Settles, Settled
<1>3. \A k \in Calls : call[k].pc = "done" => call'[k] = call[k]
  BY <1>1 DEF Settles, Settled
<1>4. \A h, k \in Calls : call[h].pc \in Writing /\ call[k].pc \in Writing => h = k
  BY DEF OAuthInv, WriterInv
<1> QED BY <1>2, <1>3, <1>4

\* A call that the store knows, which is done or has its tokens in what is written.
LEMMA SettlesKnown ==
  ASSUME OAuthInv, Settles, NEW t \in DOMAIN disk'.tokens, NEW k \in Calls, t[2] = k \/ disk'.tokens[t].grant = k
  PROVE  SameRequest(k) /\ call'[k].pc = "done" /\ (call'[k].answer = "error" => call'[k] = call[k])
<1>1. CASE call[k].pc = "done"
  BY <1>1, SettlesWriter DEF SameRequest
<1>2. CASE call[k].pc # "done"
  <2>1. k # Earlier
    BY Names
  <2>2. ~(disk' = disk)
    <3>1. TokensOK(disk, {"done"})
      BY DEF OAuthInv, TokenInv
    <3> QED BY <1>2, <2>1, <3>1 DEF TokensOK
  <2>3. disk' = memory
    BY <2>2 DEF Settles, FileKept, FileWritten
  <2>4. call[k].pc = "granting"
    <3>1. TokensOK(memory, {"done", "granting"})
      BY DEF OAuthInv, TokenInv
    <3> QED BY <1>2, <2>1, <2>3, <3>1 DEF TokensOK
  <2>5. Settled(k) /\ call[k].pc \in Writing
    BY <2>4 DEF Settles, Writing
  <2> QED BY <2>2, <2>4, <2>5 DEF Settled
<1> QED BY <1>1, <1>2

LEMMA SettlesTokens ==
  ASSUME OAuthInv, Settles
  PROVE  TokenInv'
<1>1. memory' = disk'
  BY DEF Settles
<1>2. ASSUME NEW t \in DOMAIN disk'.tokens
      PROVE  LET r == disk'.tokens[t] IN
             /\ t[1] = "access" <=> r.type = "access"
             /\ r.type = "used_refresh" => r.grant # NoClient
             /\ r.grant \in Calls => call'[r.grant].pc = "done"
             /\ t[2] # Earlier =>
                  /\ call'[t[2]].op \in {"exchange", "refresh"} /\ call'[t[2]].pc = "done"
                  /\ call'[t[2]].answer # "error"
                  /\ r.grant # NoClient /\ r.grant = call'[t[2]].grant /\ r.client = call'[t[2]].client
  <2> DEFINE r == disk'.tokens[t]
  <2>1. /\ t[1] = "access" <=> r.type = "access"
        /\ r.type = "used_refresh" => r.grant # NoClient
        /\ t[2] # Earlier =>
             /\ call[t[2]].op \in {"exchange", "refresh"}
             /\ call[t[2]].answer # "error"
             /\ r.grant # NoClient /\ r.grant = call[t[2]].grant /\ r.client = call[t[2]].client
    <3>1. TokensOK(disk, {"done"}) /\ TokensOK(memory, {"done", "granting"})
      BY DEF OAuthInv, TokenInv
    <3>2. CASE disk' = disk
      BY <3>1, <3>2 DEF TokensOK
    <3>3. CASE disk' = memory
      BY <3>1, <3>3 DEF TokensOK
    <3> QED BY <3>2, <3>3 DEF Settles, FileKept, FileWritten
  <2>2. r.grant \in Calls => call'[r.grant].pc = "done"
    BY SettlesKnown
  <2>3. ASSUME t[2] # Earlier
        PROVE  /\ call'[t[2]].op \in {"exchange", "refresh"} /\ call'[t[2]].pc = "done"
               /\ call'[t[2]].answer # "error"
               /\ r.grant # NoClient /\ r.grant = call'[t[2]].grant /\ r.client = call'[t[2]].client
    <3>1. t \in Tokens
      BY DEF Settles, ShapeInv, StoreOK
    <3>2. t[2] \in Calls
      BY <2>3, <3>1, Names DEF Issuers
    <3>3. SameRequest(t[2]) /\ call'[t[2]].pc = "done" /\ (call'[t[2]].answer = "error" => call'[t[2]] = call[t[2]])
      BY <3>2, SettlesKnown
    <3> QED BY <2>1, <2>3, <3>3 DEF SameRequest
  <2> QED BY <2>1, <2>2, <2>3
<1>3. TokensOK(disk, {"done"})'
  BY <1>2 DEF TokensOK
<1>4. TokensOK(memory, {"done", "granting"})'
  BY <1>1, <1>2 DEF TokensOK
<1> QED BY <1>1, <1>3, <1>4 DEF TokenInv

\* What a call has after the step it had, or was about to have, before.
LEMMA SettlesClaims ==
  ASSUME OAuthInv, Settles, NEW k \in Calls, Claims(k)'
  PROVE  /\ Claims(k) /\ SameRequest(k)
         /\ call'[k].op = "refresh" => Spent(disk', call'[k].arg)
<1>0. Settled(k) /\ call'[k].pc \notin Writing /\ "granting" \in Writing
  BY SettlesWriter DEF Settles, Writing
<1>1. call'[k].op \in {"exchange", "refresh"}
  BY DEF Claims
<1>2. SameRequest(k) /\ call[k].op = call'[k].op
  BY <1>0, <1>1, RefusalOK DEF Settled, SameRequest
<1>3. ASSUME {Access(k), Refresh(k)} \cap DOMAIN disk'.tokens # {}
      PROVE  Yields(k) \/ (call[k].pc = "granting" /\ disk' = memory)
  <2>1. PICK t \in {Access(k), Refresh(k)} : t \in DOMAIN disk'.tokens
    BY <1>3
  <2>2. t[2] = k
    BY <2>1, Names
  <2>3. CASE t \in DOMAIN disk.tokens
    BY <2>1, <2>3 DEF Yields
  <2>4. CASE t \notin DOMAIN disk.tokens
    <3>1. disk' = memory
      BY <2>1, <2>4 DEF Settles, FileKept, FileWritten
    <3>2. call[k].pc = "granting"
      BY <2>1, <2>2, <2>4, <3>1 DEF OAuthInv, TokenInv
    <3> QED BY <3>1, <3>2
  <2> QED BY <2>3, <2>4
<1>4. Yields(k)' => Yields(k) \/ (call[k].pc = "granting" /\ disk' = memory)
  <2>1. call'[k].answer = "ok" => Yields(k) \/ (call[k].pc = "granting" /\ disk' = memory)
    BY <1>0, <1>1, RefusalOK DEF Settled, Yields
  <2> QED BY <1>3, <2>1 DEF Yields
<1>5. Claims(k)
  <2>1. CASE Yields(k)'
    BY <1>1, <1>2, <1>4, <2>1 DEF Claims
  <2>2. CASE ~Yields(k)'
    <3>1. call'[k].op = "exchange" /\ call'[k].pc \in {"queued", "failed"}
      BY <1>0, <2>2 DEF Claims
    <3>2. call'[k] = call[k] \/ call[k].pc = "granting"
      BY <1>0, <3>1, RefusalOK DEF Settled
    <3> QED BY <1>2, <3>1, <3>2 DEF Claims
  <2> QED BY <2>1, <2>2
<1>6. ASSUME call'[k].op = "refresh"
      PROVE  Spent(disk', call'[k].arg)
  <2>1. Yields(k)'
    BY <1>0, <1>6 DEF Claims
  <2>2. Spent(memory, call[k].arg) /\ (Yields(k) => Spent(disk, call[k].arg))
    BY <1>2, <1>5, <1>6 DEF OAuthInv, ClaimInv
  <2>3. CASE disk' = memory
    BY <1>2, <2>2, <2>3 DEF SameRequest
  <2>4. CASE disk' # memory
    <3>1. disk' = disk /\ Yields(k)
      BY <1>4, <2>1, <2>4 DEF Settles, FileKept, FileWritten
    <3> QED BY <1>2, <2>2, <3>1 DEF SameRequest
  <2> QED BY <2>3, <2>4
<1> QED BY <1>2, <1>5, <1>6

LEMMA SettlesKept ==
  ASSUME OAuthInv, Settles
  PROVE  KeptInv'
<1>1. memory' = disk' /\ clock' = clock /\ \A k \in Calls : call'[k].pc \notin Writing
  BY SettlesWriter DEF Settles
<1>2. ExpiryOK(disk)'
  <2>1. ASSUME NEW t \in DOMAIN disk'.tokens, t[2] # Earlier
        PROVE  disk'.tokens[t].expires = call'[t[2]].until + Ttl(t)
    <3>1. t \in Tokens
      BY DEF Settles, ShapeInv, StoreOK
    <3>2. t[2] \in Calls
      BY <2>1, <3>1, Names DEF Issuers
    <3>3. SameRequest(t[2])
      BY <3>2, SettlesKnown
    <3>4. disk'.tokens[t].expires = call[t[2]].until + Ttl(t)
      BY <2>1 DEF OAuthInv, KeptInv, ExpiryOK, Settles, FileKept, FileWritten
    <3> QED BY <3>3, <3>4 DEF SameRequest
  <2> QED BY <2>1 DEF ExpiryOK, Ttl
<1>3. ExpiryOK(memory)'
  BY <1>1, <1>2 DEF ExpiryOK
<1>4. ASSUME NEW k \in Calls, Answered(k, "exchange")' \/ Answered(k, "refresh")'
      PROVE  KeptAs(call'[k], k, clock', disk', revoked')
  <2>0. Settled(k) /\ call'[k].answer = "ok" /\ call'[k].op \in {"exchange", "refresh"}
    BY <1>4 DEF Settles, Answered
  <2>1. CASE call'[k] = call[k]
    <3>1. Answered(k, "exchange") \/ Answered(k, "refresh")
      BY <1>4, <2>1 DEF Answered
    <3>2. CASE FileKept
      BY <1>1, <2>1, <3>1, <3>2 DEF FileKept, OAuthInv, KeptInv, Kept
    <3>3. CASE \E h \in Calls : FileWritten(h)
      <4>1. PICK h \in Calls : FileWritten(h)
        BY <3>3
      <4>2. call[h].pc \in Writing /\ disk' = memory /\ revoked' = revoked \cup Ends(h)
        BY <4>1 DEF FileWritten, Running, Writing
      <4>3. Kept(k, memory, revoked \cup Ends(h))
        BY <3>1, <4>2 DEF OAuthInv, KeptInv
      <4> QED BY <1>1, <2>1, <4>2, <4>3 DEF Kept
    <3> QED BY <3>2, <3>3 DEF Settles
  <2>2. CASE SameRequest(k) /\ call[k].pc = "granting" /\ disk' = memory
    <3>1. KeptAs(call[k], k, clock, memory, {})
      BY <2>0, <2>2 DEF OAuthInv, KeptInv, Kept, SameRequest
    <3> QED BY <1>1, <2>2, <3>1 DEF KeptAs, SameRequest
  <2> QED BY <2>0, <2>1, <2>2, RefusalOK DEF Settled
<1>5. \A k \in Calls : Answered(k, "exchange")' \/ Answered(k, "refresh")' => Kept(k, disk, revoked)'
  BY <1>4 DEF Kept
<1> QED BY <1>1, <1>2, <1>3, <1>5 DEF KeptInv, Writing

LEMMA SettlesKeeps ==
  ASSUME OAuthInv, Settles
  PROVE  OAuthInv'
<1>1. ShapeInv' /\ prior' = disk' /\ memory' = disk' /\ DOMAIN codes' \subseteq DOMAIN codes
  BY DEF Settles
<1>2. WriterInv'
  BY <1>1, SettlesWriter DEF WriterInv
<1>3. ClaimInv'
  <2>1. ASSUME NEW k \in Calls, Claims(k)', call'[k].op = "exchange"
        PROVE  call'[k].arg \notin DOMAIN codes'
    BY <1>1, <2>1, SettlesClaims DEF OAuthInv, ClaimInv, SameRequest
  <2>2. ASSUME NEW k \in Calls, Claims(k)', call'[k].op = "refresh"
        PROVE  Spent(memory', call'[k].arg) /\ Spent(disk', call'[k].arg)
    BY <1>1, <2>2, SettlesClaims
  <2>3. ASSUME NEW h \in Calls, NEW k \in Calls, h # k, call'[h].op = call'[k].op, call'[h].arg = call'[k].arg,
               Claims(h)', Claims(k)'
        PROVE  FALSE
    <3>1. Claims(h) /\ Claims(k) /\ call[h].op = call[k].op /\ call[h].arg = call[k].arg
      BY <2>3, SettlesClaims DEF SameRequest
    <3> QED BY <2>3, <3>1 DEF OAuthInv, ClaimInv
  <2> QED BY <2>1, <2>2, <2>3 DEF ClaimInv, Spent
<1>4. RevokedInv'
  <2>1. ASSUME NEW g \in revoked'
        PROVE  Dead(disk', g) /\ (g \in Calls => call'[g].pc = "done")
    <3>1. CASE FileKept
      BY <2>1, <3>1, SettlesWriter DEF FileKept, OAuthInv, RevokedInv
    <3>2. CASE \E h \in Calls : FileWritten(h)
      <4>1. PICK h \in Calls : FileWritten(h)
        BY <3>2
      <4>2. call[h].pc \in Writing /\ disk' = memory /\ revoked' = revoked \cup Ends(h)
        BY <4>1 DEF FileWritten, Running, Writing
      <4>3. Dead(memory, g) /\ (g \in Calls => call[g].pc = "done")
        BY <2>1, <4>2 DEF OAuthInv, RevokedInv
      <4> QED BY <4>2, <4>3, SettlesWriter
    <3> QED BY <3>1, <3>2 DEF Settles
  <2>2. \A g \in revoked' : Dead(memory, g)' /\ Dead(disk, g)' /\ (g \in Calls => call'[g].pc = "done")
    BY <1>1, <2>1 DEF Dead
  <2> QED BY <2>2, SettlesWriter DEF RevokedInv
<1> QED BY <1>1, <1>2, <1>3, <1>4, SettlesTokens, SettlesKept DEF OAuthInv

LEMMA RunningHead ==
  ASSUME OAuthInv, NEW h \in Calls, Running(h)
  PROVE  /\ queue # << >> /\ Head(queue) = h /\ call[h].pc \in Writing /\ call[h].answer = "none"
         /\ call[h] \in CallRecord /\ CallOK(h) /\ call \in [Calls -> CallRecord] /\ QueueOK
         /\ prior = disk /\ \A k \in Calls \ {h} : call[k].pc \notin Writing
         /\ Ends(h) \subseteq Issuers
<1>1. /\ queue # << >> /\ Head(queue) = h /\ call[h].pc \in Writing
      /\ call[h] \in CallRecord /\ CallOK(h) /\ call \in [Calls -> CallRecord] /\ QueueOK
  BY DEF Running, AtHead, Writing, OAuthInv, ShapeInv
<1>2. call[h].answer = "none"
  BY <1>1 DEF CallOK, CallRecord, Writing
<1>3. prior = disk /\ \A k \in Calls \ {h} : call[k].pc \notin Writing
  BY <1>1 DEF OAuthInv, WriterInv
<1>4. Ends(h) \subseteq Issuers
  BY <1>1 DEF Ends, CallRecord
<1> QED BY <1>1, <1>2, <1>3, <1>4

\* The call that ran leaves the queue; what is left of the state has its shape.
LEMMA SettleShape ==
  ASSUME OAuthInv, NEW h \in Calls, Running(h), NEW r \in CallRecord, call' = [call EXCEPT ![h] = r],
         r.pc \notin Waiting, queue' = Tail(queue), UNCHANGED <<codes, loadable, clock>>, CallOK(h)',
         StoreOK(disk'), memory' = disk', prior' = disk', revoked' \subseteq Issuers, faults' \in Nat
  PROVE  ShapeInv' /\ \A k \in Calls \ {h} : call'[k] = call[k] /\ call[k].pc \notin Writing
<1>1. ShapeInv /\ call[h].answer # "ok"
  BY RunningHead DEF OAuthInv
<1>2. /\ call' \in [Calls -> CallRecord] /\ call'[h] = r
      /\ \A k \in Calls \ {h} : call'[k] = call[k] /\ CallOK(k)' /\ KnownCodes \subseteq KnownCodes'
  BY <1>1, OneCall
<1>3. KnownCodes \subseteq KnownCodes'
  BY <1>1, OneCall
<1>4. queue # << >> /\ Head(queue) = h
  BY RunningHead
<1>5. QueueOK'
  BY <1>1, <1>2, <1>4, RefuseQueue
<1>6. \A k \in Calls : CallOK(k)'
  BY <1>2
<1>7. /\ codes' \in [DOMAIN codes' -> [client : Clients, expires : Nat]] /\ DOMAIN codes' \subseteq KnownCodes'
      /\ loadable' \in BOOLEAN /\ clock' \in 0..MaxTime
  BY <1>1, <1>3 DEF ShapeInv
<1>8. StoreOK(memory') /\ StoreOK(prior')
  OBVIOUS
<1>9. ShapeInv'
  BY <1>2, <1>5, <1>6, <1>7, <1>8 DEF ShapeInv, StoreOK
<1> QED BY <1>2, <1>9, RunningHead

LEMMA OkRecord ==
  ASSUME NEW c \in CallRecord, NEW r, r = [c EXCEPT !.pc = "done", !.answer = "ok"]
  PROVE  /\ r \in CallRecord /\ r.pc = "done" /\ r.answer = "ok"
         /\ r.op = c.op /\ r.client = c.client /\ r.arg = c.arg
         /\ r.metadata = c.metadata /\ r.grant = c.grant /\ r.until = c.until
<1>1. r \in CallRecord
  BY DEF CallRecord, Waiting
<1>2. r.pc = "done" /\ r.answer = "ok"
  BY DEF CallRecord
<1>3. /\ r.op = c.op /\ r.client = c.client /\ r.arg = c.arg
      /\ r.metadata = c.metadata /\ r.grant = c.grant /\ r.until = c.until
  BY DEF CallRecord
<1> QED BY <1>1, <1>2, <1>3

LEMMA PersistSettles ==
  ASSUME OAuthInv, NEW h \in Calls, Persist(h)
  PROVE  Settles
<1>1. /\ Running(h) /\ disk' = memory /\ revoked' = revoked \cup Ends(h) /\ queue' = Tail(queue)
      /\ prior' = memory /\ memory' = memory /\ codes' = codes /\ loadable' = loadable /\ clock' = clock /\ faults' = faults
  BY DEF Persist, worldVars
<1>2. StoreOK(memory) /\ revoked \subseteq Issuers /\ faults \in Nat
  BY DEF OAuthInv, ShapeInv
<1>3. revoked' \subseteq Issuers
  BY <1>1, <1>2, RunningHead
<1>4. CASE call[h].pc = "granting"
  <2> DEFINE r == [call[h] EXCEPT !.pc = "done", !.answer = "ok"]
  <2>1. call[h] \in CallRecord /\ CallOK(h) /\ call \in [Calls -> CallRecord]
    BY <1>1, RunningHead
  <2>2. call' = [call EXCEPT ![h] = r]
    BY <1>4, <2>1 DEF Persist, Answer
  <2>3. /\ r \in CallRecord /\ r.pc = "done" /\ r.answer = "ok"
        /\ r.op = call[h].op /\ r.client = call[h].client /\ r.arg = call[h].arg
        /\ r.metadata = call[h].metadata /\ r.grant = call[h].grant /\ r.until = call[h].until
    BY <2>1, OkRecord
  <2> HIDE DEF r
  <2>4. ShapeInv /\ call[h].answer # "ok"
    BY <1>1, RunningHead DEF OAuthInv
  <2>5. call'[h] = r /\ KnownCodes \subseteq KnownCodes' /\ KnownTokens \subseteq KnownTokens'
    BY <2>2, <2>3, <2>4, OneCall
  <2>6. CallOK(h)'
    BY <2>1, <2>3, <2>5 DEF CallOK
  <2>7. r.pc \notin Waiting
    BY <2>3 DEF Waiting
  <2>8. ShapeInv' /\ \A k \in Calls \ {h} : call'[k] = call[k] /\ call[k].pc \notin Writing
    BY <1>1, <1>2, <1>3, <2>2, <2>3, <2>6, <2>7, SettleShape
  <2>9. \A k \in Calls : Settled(k)
    BY <1>1, <1>4, <2>3, <2>5, <2>8 DEF Settled, SameRequest
  <2> QED BY <1>1, <2>8, <2>9 DEF Settles, FileWritten
<1>5. CASE call[h].pc # "granting"
  <2>1. call' = [call EXCEPT ![h] = Refusal] /\ call \in [Calls -> CallRecord]
    BY <1>1, <1>5, RunningHead DEF Persist, Refuse, Refusal
  <2>2. call'[h] = Refusal
    BY <2>1
  <2>3. CallOK(h)' /\ Refusal.pc \notin Waiting
    BY <2>2, RefusalOK DEF CallOK, Waiting
  <2>4. ShapeInv' /\ \A k \in Calls \ {h} : call'[k] = call[k] /\ call[k].pc \notin Writing
    BY <1>1, <1>2, <1>3, <2>1, <2>3, RefusalOK, SettleShape
  <2>5. call[h].pc \in Writing /\ call[h].pc = "refusing"
    BY <1>1, <1>5, RunningHead DEF Writing
  <2>6. \A k \in Calls : Settled(k)
    BY <2>2, <2>4, <2>5 DEF Settled
  <2> QED BY <1>1, <2>4, <2>6 DEF Settles, FileWritten
<1> QED BY <1>4, <1>5

LEMMA PersistFailsSettles ==
  ASSUME OAuthInv, NEW h \in Calls, PersistFails(h)
  PROVE  Settles
<1>1. /\ Running(h) /\ disk' = disk /\ revoked' = revoked /\ queue' = Tail(queue)
      /\ prior' = prior /\ memory' = prior /\ codes' = codes /\ loadable' = loadable /\ clock' = clock /\ faults' = faults + 1
  BY DEF PersistFails, RolledBack
<1>2. StoreOK(disk) /\ revoked \subseteq Issuers /\ faults \in Nat
  BY DEF OAuthInv, ShapeInv
<1>3. prior = disk /\ faults' \in Nat /\ revoked' \subseteq Issuers
  BY <1>1, <1>2, RunningHead
<1>4. CASE call[h].op = "exchange"
  <2> DEFINE r == [call[h] EXCEPT !.pc = "failed"]
  <2>1. call[h] \in CallRecord /\ CallOK(h) /\ call \in [Calls -> CallRecord] /\ call[h].answer = "none" /\ call[h].pc \in Writing
    BY <1>1, RunningHead
  <2>2. call' = [call EXCEPT ![h] = r]
    BY <1>4, <2>1 DEF PersistFails, Set
  <2>3. /\ r \in CallRecord /\ r.pc = "failed" /\ r.answer = "none"
        /\ r.op = call[h].op /\ r.client = call[h].client /\ r.arg = call[h].arg
        /\ r.metadata = call[h].metadata /\ r.grant = call[h].grant /\ r.until = call[h].until
    BY <2>1 DEF CallRecord, Waiting
  <2> HIDE DEF r
  <2>4. ShapeInv /\ call[h].answer # "ok"
    BY <1>1, RunningHead DEF OAuthInv
  <2>5. call'[h] = r /\ KnownCodes \subseteq KnownCodes' /\ KnownTokens \subseteq KnownTokens'
    BY <2>2, <2>3, <2>4, OneCall
  <2>6. CallOK(h)'
    BY <1>4, <2>1, <2>3, <2>5 DEF CallOK, Writing
  <2>7. r.pc \notin Waiting /\ call[h].pc = "granting"
    BY <1>4, <2>1, <2>3 DEF Waiting, Writing, CallOK
  <2>8. ShapeInv' /\ \A k \in Calls \ {h} : call'[k] = call[k] /\ call[k].pc \notin Writing
    BY <1>1, <1>2, <1>3, <2>2, <2>3, <2>6, <2>7, SettleShape
  <2>9. \A k \in Calls : Settled(k)
    BY <1>1, <1>4, <2>3, <2>5, <2>7, <2>8 DEF Settled, SameRequest
  <2> QED BY <1>1, <1>3, <2>8, <2>9 DEF Settles, FileKept
<1>5. CASE call[h].op # "exchange"
  <2>1. call' = [call EXCEPT ![h] = Refusal] /\ call \in [Calls -> CallRecord]
    BY <1>1, <1>5, RunningHead DEF PersistFails, Refuse, Refusal
  <2>2. call'[h] = Refusal
    BY <2>1
  <2>3. CallOK(h)' /\ Refusal.pc \notin Waiting
    BY <2>2, RefusalOK DEF CallOK, Waiting
  <2>4. ShapeInv' /\ \A k \in Calls \ {h} : call'[k] = call[k] /\ call[k].pc \notin Writing
    BY <1>1, <1>2, <1>3, <2>1, <2>3, RefusalOK, SettleShape
  <2>5. \A k \in Calls : Settled(k)
    BY <1>1, <2>2, <2>4, RunningHead DEF Settled
  <2> QED BY <1>1, <1>3, <2>4, <2>5 DEF Settles, FileKept
<1> QED BY <1>4, <1>5

LEMMA RestartSettles ==
  ASSUME OAuthInv, Restart
  PROVE  Settles
<1> DEFINE gone(h) == call[h].pc \notin {"idle", "done"}
<1>1. /\ faults' = faults + 1 /\ memory' = disk' /\ prior' = disk' /\ loadable' \in BOOLEAN
      /\ queue' = << >> /\ codes' = << >> /\ clock' = clock
      /\ call' = [h \in Calls |-> IF gone(h) THEN [call[h] EXCEPT !.pc = "done", !.answer = "lost"] ELSE call[h]]
      /\ FileKept \/ \E h \in Calls : FileWritten(h)
  BY DEF Restart, FileKept, FileWritten
<1>2. /\ StoreOK(memory) /\ StoreOK(disk) /\ revoked \subseteq Issuers /\ faults \in Nat /\ clock \in 0..MaxTime
      /\ call \in [Calls -> CallRecord] /\ \A k \in Calls : CallOK(k) /\ call[k] \in CallRecord
  BY DEF OAuthInv, ShapeInv
<1>3. StoreOK(disk') /\ revoked' \subseteq Issuers
  BY <1>1, <1>2, RunningHead DEF FileKept, FileWritten
<1>4. ASSUME NEW k \in Calls, gone(k)
      PROVE  /\ SameRequest(k) /\ call'[k].pc = "done" /\ call'[k].answer = "lost"
             /\ call'[k] \in CallRecord /\ call[k].answer # "ok"
  <2> DEFINE r == [call[k] EXCEPT !.pc = "done", !.answer = "lost"]
  <2>1. call'[k] = r
    BY <1>1, <1>4
  <2>2. /\ r \in CallRecord /\ r.pc = "done" /\ r.answer = "lost"
        /\ r.op = call[k].op /\ r.client = call[k].client /\ r.arg = call[k].arg
        /\ r.metadata = call[k].metadata /\ r.grant = call[k].grant /\ r.until = call[k].until
    BY <1>2 DEF CallRecord, Waiting
  <2>3. call[k].answer # "ok"
    BY <1>2, <1>4 DEF CallOK
  <2> HIDE DEF r
  <2> QED BY <2>1, <2>2, <2>3 DEF SameRequest
<1>5. \A k \in Calls : ~gone(k) => call'[k] = call[k]
  BY <1>1
<1>6. DOMAIN call' = Calls /\ call' = [h \in Calls |-> call'[h]]
  BY <1>1
<1>0. /\ faults' = faults + 1 /\ memory' = disk' /\ prior' = disk' /\ queue' = << >> /\ codes' = << >> /\ clock' = clock
      /\ loadable' \in BOOLEAN
  BY <1>1
<1> HIDE DEF gone
<1>7. call' \in [Calls -> CallRecord]
  BY <1>2, <1>4, <1>5, <1>6
<1>8. \A k \in Calls : \A op : Answered(k, op) => Answered(k, op)'
  BY <1>4, <1>5 DEF Answered
<1>9. KnownCodes \subseteq KnownCodes'
  BY <1>8 DEF KnownCodes
<1>10. ASSUME NEW t \in KnownTokens
       PROVE  t \in KnownTokens'
  <2>1. t \in Tokens /\ (t[2] \in Calls \/ t[2] = Earlier)
    BY Names DEF KnownTokens, Issuers
  <2>2. t[2] = Earlier \/ Answered(t[2], "exchange") \/ Answered(t[2], "refresh")
    BY DEF KnownTokens
  <2>3. t[2] = Earlier \/ Answered(t[2], "exchange")' \/ Answered(t[2], "refresh")'
    BY <1>8, <2>1, <2>2
  <2> QED BY <2>1, <2>3 DEF KnownTokens
<1>11. ASSUME NEW k \in Calls
       PROVE  CallOK(k)'
  <2>1. CASE gone(k)
    BY <1>2, <1>4, <1>9, <1>10, <2>1 DEF CallOK, SameRequest
  <2>2. CASE ~gone(k)
    BY <1>2, <1>5, <1>9, <1>10, <2>2 DEF CallOK
  <2> QED BY <2>1, <2>2
<1>12. \A k \in Calls : call'[k].pc \notin Waiting
  BY <1>4, <1>5 DEF gone, Waiting
<1>13. QueueOK'
  <2>1. queue' \in Seq(Calls) /\ Len(queue') = 0
    BY <1>0
  <2>2. {queue'[i] : i \in 1..Len(queue')} = {}
    BY <2>1
  <2>3. {h \in Calls : call'[h].pc \in Waiting} = {}
    BY <1>12
  <2> QED BY <2>1, <2>2, <2>3 DEF QueueOK
<1>14. DOMAIN codes' = {} /\ codes' \in [DOMAIN codes' -> [client : Clients, expires : Nat]]
  BY <1>0
<1>15. StoreOK(memory') /\ StoreOK(prior') /\ faults' \in Nat /\ clock' \in 0..MaxTime
  BY <1>0, <1>2, <1>3
<1>16. ShapeInv'
  BY <1>1, <1>3, <1>7, <1>11, <1>13, <1>14, <1>15 DEF ShapeInv, StoreOK
<1>17. \A k \in Calls : Settled(k)
  BY <1>4, <1>5 DEF Settled, gone, Writing
<1> QED BY <1>1, <1>14, <1>16, <1>17 DEF Settles

-----------------------------------------------------------------------------
(* The first state, and every step.                                         *)

LEMMA FirstStoreOK ==
  ASSUME NEW s \in FirstStates
  PROVE  /\ StoreOK(s)
         /\ \A t \in DOMAIN s.tokens : /\ t[2] = Earlier /\ s.tokens[t].type = t[1]
                                       /\ s.tokens[t].grant \in {Earlier, NoClient} /\ DOMAIN s.clients # {}
<1>1. CASE s = [clients |-> << >>, tokens |-> << >>]
  <2>1. s.clients = << >> /\ s.tokens = << >> /\ DOMAIN s.clients = {} /\ DOMAIN s.tokens = {}
    BY <1>1
  <2>2. IsFiniteSet({}) /\ Cardinality({}) = 0 /\ MaxClients \in Nat
    BY FS_EmptySet, OAuthAssumption
  <2>3. s.clients \in [{} -> ClientRecord] /\ s.tokens \in [{} -> TokenRecord]
    BY <2>1
  <2> QED BY <1>1, <2>1, <2>2, <2>3 DEF StoreOK
<1>2. CASE s # [clients |-> << >>, tokens |-> << >>]
  <2>1. PICK c \in Clients, g \in {Earlier, NoClient} : s = FirstStore(c, g)
    BY <1>2 DEF FirstStates
  <2> DEFINE m == CHOOSE x \in Submitted : "refresh_token" \in x.grants
             f == FirstClient(c)
             both == {Access(Earlier), Refresh(Earlier)}
             r(t) == [type |-> t[1], client |-> c, grant |-> g,
                      expires |-> IF t[1] = "access" THEN AccessTtl ELSE RefreshTtl]
  <2>2. f \in ClientRecord
    <3>1. WithDefaults(m) \in Metadata
      BY DEF Metadata
    <3> HIDE DEF m
    <3>2. [issued |-> 0, metadata |-> WithDefaults(m)] \in ClientRecord
      BY <3>1 DEF ClientRecord
    <3> QED BY <3>2 DEF FirstClient, m
  <2>3. \A t \in both : t \in Tokens /\ t[2] = Earlier /\ t[1] \in {"access", "refresh"}
    BY Names
  <2>4. \A t \in both : r(t) \in TokenRecord
    BY <2>3, Names, OAuthAssumption DEF TokenRecord
  <2>5. /\ s = [clients |-> s.clients, tokens |-> s.tokens]
        /\ s.clients = [x \in {c} |-> f] /\ s.tokens = [t \in both |-> r(t)]
    BY <2>1 DEF FirstStore
  <2>6. IsFiniteSet({c}) /\ Cardinality({c}) <= MaxClients
    <3>1. IsFiniteSet({c}) /\ Cardinality({c}) = 1
      BY FS_Singleton
    <3>2. MaxClients \in Nat \ {0}
      BY OAuthAssumption
    <3> QED BY <3>1, <3>2
  <2> HIDE DEF f, both, r
  <2>7. StoreOK(s)
    BY <2>2, <2>3, <2>4, <2>5, <2>6 DEF StoreOK
  <2>8. \A t \in both : r(t).type = t[1] /\ r(t).grant = g
    BY DEF r
  <2> QED BY <2>3, <2>5, <2>7, <2>8
<1> QED BY <1>1, <1>2

LEMMA OAuthInitInv == OAuthInit => OAuthInv
<1> SUFFICES ASSUME OAuthInit PROVE OAuthInv
  OBVIOUS
<1> DEFINE K == {x \in {Earlier} : Earlier \in Grants(disk)}
           f == [client |-> CHOOSE c \in DOMAIN disk.clients : TRUE, expires |-> CodeTtl]
<1>1. /\ disk \in FirstStates /\ memory = disk /\ prior = disk /\ loadable = TRUE /\ queue = << >> /\ clock = 0
      /\ revoked = {} /\ faults = 0
      /\ codes = [k \in K |-> f] /\ call = [h \in Calls |-> NotMade]
  BY DEF OAuthInit
<1>2. /\ StoreOK(disk)
      /\ \A t \in DOMAIN disk.tokens : /\ t[2] = Earlier /\ disk.tokens[t].type = t[1]
                                       /\ disk.tokens[t].grant \in {Earlier, NoClient} /\ DOMAIN disk.clients # {}
      /\ \A t \in DOMAIN disk.tokens : t[1] \in {"access", "refresh"}
  <2>1. StoreOK(disk)
    BY <1>1, FirstStoreOK
  <2>2. \A t \in DOMAIN disk.tokens : t \in Tokens
    BY <2>1 DEF StoreOK
  <2> QED BY <1>1, <2>1, <2>2, FirstStoreOK, Names
<1>3. \A h \in Calls : call[h] = NotMade
  BY <1>1
<1>4. K # {} => f \in [client : Clients, expires : Nat]
  <2>1. K # {} => DOMAIN disk.clients # {}
    BY <1>2 DEF Grants
  <2>2. DOMAIN disk.clients \subseteq Clients /\ CodeTtl \in Nat
    BY <1>2, OAuthAssumption DEF StoreOK
  <2> QED BY <2>1, <2>2
<1>5. ShapeInv
  <2>1. codes \in [DOMAIN codes -> [client : Clients, expires : Nat]] /\ DOMAIN codes \subseteq KnownCodes
    <3>1. DOMAIN codes = K /\ K \subseteq {Earlier}
      BY <1>1
    <3>2. \A k \in K : codes[k] = f
      BY <1>1
    <3> HIDE DEF f, K
    <3> QED BY <1>1, <1>4, <3>1, <3>2 DEF KnownCodes
  <2>2. \A h \in Calls : CallOK(h)
    BY <1>3, RefusalOK DEF CallOK
  <2>3. call \in [Calls -> CallRecord]
    BY <1>1, RefusalOK
  <2>4. QueueOK
    <3>1. queue \in Seq(Calls) /\ Len(queue) = 0
      BY <1>1
    <3>2. {queue[i] : i \in 1..Len(queue)} = {}
      BY <3>1
    <3>3. {h \in Calls : call[h].pc \in Waiting} = {}
      BY <1>3, RefusalOK DEF Waiting
    <3> QED BY <3>1, <3>2, <3>3 DEF QueueOK
  <2>5. clock \in 0..MaxTime
    BY <1>1, OAuthAssumption
  <2>6. StoreOK(memory) /\ StoreOK(prior) /\ loadable \in BOOLEAN /\ revoked \subseteq Issuers /\ faults \in Nat
    BY <1>1, <1>2
  <2> QED BY <1>2, <2>1, <2>2, <2>3, <2>4, <2>5, <2>6 DEF ShapeInv
<1>6. \A h \in Calls : call[h].op = "none" /\ call[h].pc = "idle" /\ call[h].answer = "none"
  BY <1>3, RefusalOK
<1>7. WriterInv
  BY <1>1, <1>6 DEF WriterInv, Writing
<1>8. TokenInv
  <2>1. \A t \in DOMAIN disk.tokens : t[2] = Earlier /\ disk.tokens[t].grant \notin Calls /\ disk.tokens[t].type # "used_refresh"
    BY <1>2, OAuthAssumption
  <2>2. \A pcs : TokensOK(disk, pcs)
    BY <1>2, <2>1 DEF TokensOK
  <2> QED BY <1>1, <2>2 DEF TokenInv
<1>9. ClaimInv
  BY <1>6 DEF ClaimInv, Claims
<1>10. RevokedInv
  BY <1>1, <1>6 DEF RevokedInv, Writing
<1>11. KeptInv
  BY <1>1, <1>2, <1>6 DEF KeptInv, ExpiryOK, Answered, Writing
<1> QED BY <1>5, <1>7, <1>8, <1>9, <1>10, <1>11 DEF OAuthInv

LEMMA OAuthNextInv == OAuthInv /\ [OAuthNext]_oauthVars => OAuthInv'
<1> SUFFICES ASSUME OAuthInv, [OAuthNext]_oauthVars PROVE OAuthInv'
  OBVIOUS
<1>0. ShapeInv
  BY DEF OAuthInv
<1>1. ASSUME Modest, UNCHANGED codes
      PROVE  OAuthInv'
  BY <1>1, ModestKeeps
<1>2. ASSUME NEW h \in Calls, Register(h) \/ Verify(h)
      PROVE  OAuthInv'
  BY <1>0, <1>1, <1>2, RegisterModest, VerifyModest DEF Register, Verify, Arrive
<1>3. ASSUME NEW h \in Calls, NEW op \in {"authorize", "exchange", "refresh", "revoke"}, NEW Args,
             Args \subseteq {NoClient} \cup Issuers \cup Tokens, LookUpThen(h, op, Args),
             op = "exchange" => Args \subseteq KnownCodes,
             op = "refresh" => Args \subseteq KnownTokens /\ \A a \in Args : a[1] = "refresh"
      PROVE  OAuthInv'
  <2>1. Modest
    BY <1>0, <1>3, LookUpModest
  <2>2. UNCHANGED codes
    BY <1>3 DEF LookUpThen, Arrive
  <2> QED BY <1>1, <2>1, <2>2
<1>4. ASSUME NEW h \in Calls, LookUpThen(h, "authorize", {NoClient})
      PROVE  OAuthInv'
  BY <1>3, <1>4
<1>5. ASSUME NEW h \in Calls, LookUpThen(h, "exchange", KnownCodes)
      PROVE  OAuthInv'
  BY <1>0, <1>3, <1>5, Known
<1>6. ASSUME NEW h \in Calls, LookUpThen(h, "refresh", KnownTokens \ {Access(i) : i \in Issuers})
      PROVE  OAuthInv'
  <2> DEFINE Args == KnownTokens \ {Access(i) : i \in Issuers}
  <2>1. Args \subseteq KnownTokens /\ Args \subseteq Tokens /\ \A a \in Args : a[1] = "refresh"
    BY <1>0, Known, Names
  <2> HIDE DEF Args
  <2>2. LookUpThen(h, "refresh", Args)
    BY <1>6 DEF Args
  <2> QED BY <1>3, <2>1, <2>2
<1>7. ASSUME NEW h \in Calls, LookUpThen(h, "revoke", KnownTokens)
      PROVE  OAuthInv'
  BY <1>0, <1>3, <1>7, Known
<1>8. ASSUME NEW h \in Calls, GetClient(h) \/ GetAccessToken(h) \/ RegistryFull(h) \/ Mutate(h)
      PROVE  OAuthInv'
  <2>1. Modest
    BY <1>0, <1>8, GetClientModest, GetAccessTokenModest, RegistryFullModest, MutateModest
  <2>2. UNCHANGED codes
    BY <1>8 DEF GetClient, GetAccessToken, RegistryFull, Mutate
  <2> QED BY <1>1, <2>1, <2>2
<1>9. ASSUME NEW h \in Calls, Challenge(h)
      PROVE  OAuthInv'
  BY <1>0, <1>9, ChallengeModest, ModestKeeps
<1>10. ASSUME NEW h \in Calls, Authorize(h) \/ TakeCode(h) \/ GiveBackCode(h)
       PROVE  OAuthInv'
  BY <1>10, AuthorizeKeeps, TakeCodeKeeps, GiveBackKeeps
<1>11. ASSUME NEW h \in Calls, \/ RunRegister(h) \/ RunIssue(h) \/ RunRotate(h)
                               \/ RunReplay(h) \/ RunInvalid(h) \/ RunRevoke(h)
       PROVE  OAuthInv'
  <2>1. Mutates(h)
    BY <1>0, <1>11, RunRegisterMutates, RunIssueMutates, RunRotateMutates, RunReplayMutates, RunInvalidMutates,
       RunRevokeMutates
  <2> QED BY <2>1, MutatesKeeps
<1>12. ASSUME NEW h \in Calls, Persist(h) \/ PersistFails(h)
       PROVE  OAuthInv'
  BY <1>12, PersistSettles, PersistFailsSettles, SettlesKeeps
<1>13. CASE Restart
  BY <1>13, RestartSettles, SettlesKeeps
<1>14. CASE Tick
  BY <1>0, <1>1, <1>14, TickQuiet
<1>15. CASE UNCHANGED oauthVars
  <2>1. /\ memory' = memory /\ prior' = prior /\ disk' = disk /\ loadable' = loadable /\ queue' = queue
        /\ codes' = codes /\ call' = call /\ clock' = clock /\ revoked' = revoked /\ faults' = faults
    BY <1>15 DEF oauthVars
  <2>2. ShapeInv'
    BY <1>0, <2>1 DEF ShapeInv, StoreOK, CallOK, QueueOK, KnownCodes, KnownTokens, Answered
  <2>3. Quiet
    BY <1>0, <2>1 DEF Quiet, storeVars, ShapeInv
  <2> QED BY <1>1, <2>1, <2>2, <2>3 DEF Modest
<1> QED
  BY <1>2, <1>4, <1>5, <1>6, <1>7, <1>8, <1>9, <1>10, <1>11, <1>12, <1>13, <1>14, <1>15 DEF OAuthNext

-----------------------------------------------------------------------------
(* What the invariant says of the store.                                    *)

LEMMA QueueLength ==
  ASSUME QueueOK
  PROVE  Len(queue) = Cardinality({queue[i] : i \in 1..Len(queue)})
<1> DEFINE n == Len(queue)
           S == {queue[i] : i \in 1..n}
           f == [i \in 1..n |-> queue[i]]
<1>1. n \in Nat
  BY DEF QueueOK
<1>2. f \in [1..n -> S]
  OBVIOUS
<1>3. \A i, j \in 1..n : f[i] = f[j] => i = j
  BY DEF QueueOK
<1>4. \A s \in S : \E i \in 1..n : f[i] = s
  OBVIOUS
<1> HIDE DEF f, S, n
<1>5. DOMAIN f = 1..n
  BY <1>2
<1>6. f \in Bijection(1..n, S)
  BY <1>2, <1>3, <1>4, <1>5 DEF Bijection, Injection, Surjection, IsInjective
<1>7. ExistsBijection(1..n, S)
  BY <1>6 DEF ExistsBijection
<1>8. Cardinality(S) = n
  BY <1>1, <1>7, FS_CountingElements
<1> QED BY <1>8 DEF n, S

LEMMA InvSpent == OAuthInv => SpentStaysSpent
<1> SUFFICES ASSUME OAuthInv PROVE SpentStaysSpent
  OBVIOUS
<1>1. ASSUME NEW s, StoreOK(s)
      PROVE  /\ DOMAIN s.clients \subseteq Clients /\ Cardinality(DOMAIN s.clients) <= MaxClients
             /\ DOMAIN s.tokens \subseteq Tokens
             /\ \A t \in DOMAIN s.tokens :
                  s.tokens[t] \in [type : {"access", "refresh", "used_refresh"}, client : Clients,
                                   grant : Issuers \cup {NoClient}, expires : Nat]
  BY <1>1 DEF StoreOK, TokenRecord
<1>2. \A s \in {memory, prior, disk} : StoreOK(s)
  BY DEF OAuthInv, ShapeInv
<1>3. DOMAIN codes \subseteq Issuers /\ clock \in 0..MaxTime /\ QueueOK
  BY Known DEF OAuthInv, ShapeInv
<1>4. OAuthTypeOK
  BY <1>1, <1>2, <1>3, QueueLength DEF OAuthTypeOK, QueueOK, Waiting
<1>5. SingleUse
  BY DEF SingleUse, OAuthInv, ClaimInv, Claims
<1>6. RevokedStaysRevoked
  BY DEF RevokedStaysRevoked, OAuthInv, RevokedInv, Dead
<1> QED BY <1>4, <1>5, <1>6 DEF SpentStaysSpent

LEMMA InvSurvive == OAuthInv => AnswersSurvive
<1> SUFFICES ASSUME OAuthInv, NEW h \in Calls, NEW s \in Stores, Answered(h, "exchange") \/ Answered(h, "refresh")
             PROVE  Kept(h, s, revoked)
  BY DEF AnswersSurvive, Kept, KeptAs, MayRefresh
<1>1. Kept(h, disk, revoked)
  BY DEF OAuthInv, KeptInv
<1>2. CASE s = disk
  BY <1>1, <1>2
<1>3. CASE s # disk
  <2>1. s = memory /\ \A k \in Calls : ~Running(k)
    BY <1>3 DEF Stores
  <2>2. \A k \in Calls : call[k].pc \notin Writing
    BY <2>1 DEF Running, AtHead, Writing, OAuthInv, WriterInv
  <2>3. memory = disk
    BY <2>2 DEF OAuthInv, WriterInv
  <2> QED BY <1>1, <2>1, <2>3
<1> QED BY <1>2, <1>3

\* One step of a call k is no step of another call.
LEMMA Others ==
  ASSUME ShapeInv, NEW h \in Calls, NEW k \in Calls, h # k,
         \/ \E pc : Set(k, pc) \/ Answer(k, pc)
         \/ Refuse(k)
         \/ \E r : call' = [call EXCEPT ![k] = r]
         \/ \E pc, g : RunsTo(k, pc, g)
         \/ \E n : call' = [call EXCEPT ![k].pc = "queued", ![k].ends = n]
         \/ \E m : call' = [call EXCEPT ![k].pc = "found", ![k].metadata = m]
  PROVE  call'[h] = call[h]
BY DEF ShapeInv, Set, Answer, Refuse, RunsTo

\* Nothing but the reader of the token ends a verification that waits.
LEMMA OnlyReads ==
  ASSUME OAuthInv, OAuthNext, NEW h \in Calls, call[h].op = "verify", call[h].pc = "queued", call'[h].pc = "done"
  PROVE  GetAccessToken(h) \/ Restart
<1>0. ShapeInv /\ call'[h] # call[h]
  BY DEF OAuthInv
<1>1. CASE Tick
  BY <1>0, <1>1 DEF Tick
<1>2. ASSUME NEW k \in Calls, k = h, ~GetAccessToken(h), ~Restart
      PROVE  /\ ~(Register(k) \/ Verify(k)) /\ ~(\E op, Args : LookUpThen(k, op, Args))
             /\ ~(GetClient(k) \/ GetAccessToken(k) \/ Authorize(k) \/ Challenge(k) \/ TakeCode(k) \/ Mutate(k))
             /\ ~(RunRegister(k) \/ RegistryFull(k) \/ RunIssue(k) \/ RunRotate(k) \/ RunReplay(k) \/ RunInvalid(k))
             /\ ~(RunRevoke(k) \/ Persist(k) \/ PersistFails(k) \/ GiveBackCode(k))
  BY <1>2 DEF Register, Verify, LookUpThen, Arrive, GetClient, GetAccessToken, Authorize, Challenge, TakeCode, Mutate,
              RunRegister, RegistryFull, RunIssue, RunRotate, RunReplay, RunInvalid, RunRevoke, Run, AtHead,
              Persist, PersistFails, Running, GiveBackCode
<1>3. ASSUME NEW k \in Calls, k # h, Register(k) \/ Verify(k) \/ \E op, Args : LookUpThen(k, op, Args)
      PROVE  FALSE
  <2>1. \E r : Arrive(k, r)
    BY <1>3 DEF Register, Verify, LookUpThen
  <2>2. Refuse(k) \/ \E r : call' = [call EXCEPT ![k] = r]
    BY <2>1 DEF Arrive
  <2> QED BY <1>0, <1>3, <2>2, Others
<1>4. ASSUME NEW k \in Calls, k # h, \/ GetClient(k) \/ GetAccessToken(k) \/ Authorize(k) \/ Challenge(k)
                                     \/ TakeCode(k) \/ Mutate(k)
      PROVE  FALSE
  <2>1. \/ \E pc : Set(k, pc) \/ Answer(k, pc)
        \/ Refuse(k)
        \/ \E n : call' = [call EXCEPT ![k].pc = "queued", ![k].ends = n]
        \/ \E m : call' = [call EXCEPT ![k].pc = "found", ![k].metadata = m]
    BY <1>4 DEF GetClient, GetAccessToken, Authorize, Challenge, TakeCode, Mutate
  <2> QED BY <1>0, <1>4, <2>1, Others
<1>5. ASSUME NEW k \in Calls, k # h, \/ RunRegister(k) \/ RunIssue(k) \/ RunRotate(k)
                                     \/ RunReplay(k) \/ RunInvalid(k) \/ RunRevoke(k)
      PROVE  FALSE
  <2>1. Mutates(k)
    BY <1>0, <1>5, RunRegisterMutates, RunIssueMutates, RunRotateMutates, RunReplayMutates, RunInvalidMutates,
       RunRevokeMutates
  <2>2. \E pc, g : RunsTo(k, pc, g)
    BY <2>1 DEF Mutates
  <2> QED BY <1>0, <1>5, <2>2, Others
<1>6. ASSUME NEW k \in Calls, k # h, RegistryFull(k) \/ Persist(k) \/ PersistFails(k) \/ GiveBackCode(k)
      PROVE  FALSE
  <2>1. (\E pc : Set(k, pc) \/ Answer(k, pc)) \/ Refuse(k)
    BY <1>6 DEF RegistryFull, Persist, PersistFails, GiveBackCode
  <2> QED BY <1>0, <1>6, <2>1, Others
<1> QED
  BY <1>1, <1>2, <1>3, <1>4, <1>5, <1>6 DEF OAuthNext

LEMMA DurableStep ==
  ASSUME OAuthInv, [OAuthNext]_oauthVars, NEW h \in Calls, call[h].op = "verify", call[h].pc = "queued",
         call'[h].pc = "done", call'[h].answer # "lost"
  PROVE  (call'[h].answer = "ok") = Verifies(disk, call[h].arg)
<1>1. OAuthNext
  BY DEF oauthVars
<1>4. call \in [Calls -> CallRecord] /\ call[h] \in CallRecord
  BY DEF OAuthInv, ShapeInv
<1>2. ~Restart
  BY RestartSettles DEF Settles, Settled, Writing
<1>3. GetAccessToken(h)
  BY <1>1, <1>2, OnlyReads
<1>5. \A k \in Calls : call[k].pc \notin Writing
  BY <1>3 DEF GetAccessToken, AtHead, OAuthInv, WriterInv, Writing
<1>6. memory = disk
  BY <1>5 DEF OAuthInv, WriterInv
<1>7. CASE Verifies(memory, call[h].arg)
  <2>1. call'[h].answer = "ok"
    BY <1>3, <1>4, <1>7 DEF GetAccessToken, Answer, CallRecord
  <2> QED BY <1>6, <1>7, <2>1 DEF Verifies
<1>8. CASE ~Verifies(memory, call[h].arg)
  <2>1. call'[h].answer = "error"
    BY <1>3, <1>4, <1>8, RefusalOK DEF GetAccessToken, Refuse, Refusal
  <2> QED BY <1>6, <1>8, <2>1 DEF Verifies
<1> QED BY <1>7, <1>8

LEMMA OAuthAlways == OAuthSpec => []OAuthInv
BY OAuthInitInv, OAuthNextInv, PTL DEF OAuthSpec

\* An authorization code and a refresh token are spent once, and what is revoked stays
\* revoked, over every interleaving of the handlers of oauth.ts, failed writes of the
\* state file and restarts.
THEOREM SpentStaysSpentThm == OAuthSpec => []SpentStaysSpent
BY OAuthAlways, InvSpent, PTL

\* A token pair that was answered stays in the file, and in memory between mutations,
\* until it expires or its grant is revoked (mutate() and its rollback).
THEOREM AnswersSurviveThm == OAuthSpec => []AnswersSurvive
BY OAuthAlways, InvSurvive, PTL

\* getAccessToken() waits for the queue, so its verdict is the state file's.
THEOREM VerdictIsDurableThm == OAuthSpec => VerdictIsDurable
<1>1. OAuthInv /\ [OAuthNext]_oauthVars =>
        [\A h \in Calls :
           /\ call[h].op = "verify" /\ call[h].pc = "queued"
           /\ call'[h].pc = "done" /\ call'[h].answer # "lost"
           => (call'[h].answer = "ok") = Verifies(disk, call[h].arg)]_oauthVars
  BY DurableStep
<1> QED BY <1>1, OAuthAlways, PTL DEF OAuthSpec, VerdictIsDurable
=============================================================================
