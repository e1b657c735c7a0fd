-------------------------- MODULE SessionsPdfProofs -------------------------
(***************************************************************************)
(* Proofs about Sessions and PdfPool, two components of their own that     *)
(* both share something among requests.                                    *)
(*                                                                         *)
(* Sessions: a session has one live token, and none outlives the secrets   *)
(* it was opened with. One live token is not inductive: the exchange that  *)
(* revoked it will insert the next. The invariant counts both: of a        *)
(* session there is one live token or one exchange under way. It also      *)
(* needs that the root of a session is a row, so that a new session is of  *)
(* none that went before.                                                  *)
(*                                                                         *)
(* PdfPool: the counters of the pool are the renders that use its          *)
(* browsers, a payload is rendered once at a time, and no browser that     *)
(* works is lost. The first and the last are inductive together with what  *)
(* each place of a caller says of its browser; a caller that prints is one *)
(* of the users of a browser that was launched.                            *)
(***************************************************************************)
EXTENDS Sessions, PdfPool, FiniteSetTheorems, TLAPS

-----------------------------------------------------------------------------
(* Sessions                                                                 *)

Exchanging(c) == req[c].op \in {"exchange", "renew"}

OneExchangePerSession ==
    \A c, d \in Clients :
        Exchanging(c) /\ Exchanging(d) /\ req[c].root = req[d].root => c = d

NoTokenDuringExchange ==
    \A c \in Clients, t \in Tokens :
        Exchanging(c) /\ Live(t) => token[t].root # req[c].root

RootsAreRows ==
    /\ \A t \in Tokens : token[t] # Absent => token[token[t].root] # Absent
    /\ \A c \in Clients : Exchanging(c) => token[req[c].root] # Absent

SessionInv ==
    /\ TypeOK
    /\ OneLivePerSession
    /\ OneExchangePerSession
    /\ NoTokenDuringExchange
    /\ RootsAreRows
    /\ OldSessionsEnd

-----------------------------------------------------------------------------
LEMMA Rows ==
    ASSUME TypeOK, NEW t \in Tokens, token[t] # Absent
    PROVE  /\ token[t].st \in {"live", "revoked", "lapsed"}
           /\ token[t].user \in Users /\ token[t].root \in Tokens
           /\ token[t].epoch \in 0..MaxEpoch /\ token[t].late \in BOOLEAN
  BY DEF TypeOK, TokenRows

LEMMA LiveRows == ASSUME NEW t \in Tokens, Live(t) PROVE token[t] # Absent
  BY DEF Live, Absent

LEMMA Reqs ==
    ASSUME TypeOK, NEW c \in Clients
    PROVE  /\ Exchanging(c) => /\ req[c].user \in Users /\ req[c].root \in Tokens
                               /\ req[c].epoch \in 0..MaxEpoch /\ req[c].late \in BOOLEAN
           /\ req[c].op = "open" => req[c].user \in Users /\ req[c].epoch \in 0..MaxEpoch
           /\ req[c].op = "change" => req[c].user \in Users
  BY DEF TypeOK, Requests, Exchanging, Idle

\* Tokens that stay, and requests of which no exchange is new.
LEMMA NothingIssued ==
    ASSUME SessionInv, TypeOK', epoch' = epoch,
           \A t \in Tokens : \/ token'[t] = token[t]
                             \/ /\ token[t] # Absent /\ token'[t] # Absent
                                /\ token'[t].st # "live" /\ token'[t].root = token[t].root,
           \A c \in Clients : Exchanging(c)' => Exchanging(c) /\ req'[c].root = req[c].root
    PROVE  SessionInv'
  <1>1. \A t \in Tokens : Live(t)' => Live(t) /\ token'[t] = token[t]
    BY DEF Live
  <1>2. OneLivePerSession'
    BY <1>1 DEF SessionInv, OneLivePerSession
  <1>3. OneExchangePerSession'
    BY DEF SessionInv, OneExchangePerSession
  <1>4. NoTokenDuringExchange'
    BY <1>1 DEF SessionInv, NoTokenDuringExchange
  <1>5. RootsAreRows'
    <2>1. \A t \in Tokens : token[t] # Absent => token'[t] # Absent
      OBVIOUS
    <2>2. \A t \in Tokens : token'[t] # Absent => token[t] # Absent /\ token'[t].root = token[t].root
      OBVIOUS
    <2>3. \A t \in Tokens : token[t] # Absent => token[t].root \in Tokens
      BY Rows DEF SessionInv
    <2>4. \A c \in Clients : Exchanging(c) => req[c].root \in Tokens
      BY Reqs DEF SessionInv
    <2> QED BY <2>1, <2>2, <2>3, <2>4 DEF SessionInv, RootsAreRows
  <1>6. OldSessionsEnd'
    BY <1>1 DEF SessionInv, OldSessionsEnd
  <1> QED BY <1>2, <1>3, <1>4, <1>5, <1>6 DEF SessionInv

\* Secrets are replaced, the tokens of these users revoked with them.
LEMMA AllRevoked ==
    ASSUME SessionInv, TypeOK', NEW us, RevokeAll(us),
           \A u \in Users \ us : epoch'[u] = epoch[u],
           \A c \in Clients : Exchanging(c)' => Exchanging(c) /\ req'[c].root = req[c].root
    PROVE  SessionInv'
  <1>1. \A t \in Tokens : \/ token'[t] = token[t] /\ (token[t] # Absent => token[t].user \notin us)
                          \/ /\ token[t] # Absent /\ token'[t] # Absent
                             /\ token'[t].st # "live" /\ token'[t].root = token[t].root
    <2> SUFFICES ASSUME NEW t \in Tokens, token[t] # Absent, token[t].user \in us
                 PROVE  /\ token'[t] # Absent
                        /\ token'[t].st # "live" /\ token'[t].root = token[t].root
      BY DEF RevokeAll
    <2>1. token'[t] = [token[t] EXCEPT !.st = "revoked"]
      BY DEF RevokeAll
    <2>2. token[t] \in [st : {"live", "revoked", "lapsed"}, user : Users, root : Tokens,
                        epoch : 0..MaxEpoch, late : BOOLEAN]
      BY DEF SessionInv, TypeOK, TokenRows
    <2> QED BY <2>1, <2>2 DEF Absent
  <1>2. \A t \in Tokens : Live(t)' => Live(t) /\ token'[t] = token[t] /\ token[t].user \notin us
    BY <1>1, LiveRows DEF Live
  <1>3. OneLivePerSession'
    BY <1>2 DEF SessionInv, OneLivePerSession
  <1>4. OneExchangePerSession'
    BY DEF SessionInv, OneExchangePerSession
  <1>5. NoTokenDuringExchange'
    BY <1>2 DEF SessionInv, NoTokenDuringExchange
  <1>6. RootsAreRows'
    <2>1. \A t \in Tokens : token[t] # Absent => token'[t] # Absent
      BY <1>1
    <2>2. \A t \in Tokens : token'[t] # Absent => token[t] # Absent /\ token'[t].root = token[t].root
      BY <1>1
    <2>3. \A t \in Tokens : token[t] # Absent => token[t].root \in Tokens
      BY Rows DEF SessionInv
    <2>4. \A c \in Clients : Exchanging(c) => req[c].root \in Tokens
      BY Reqs DEF SessionInv
    <2> QED BY <2>1, <2>2, <2>3, <2>4 DEF SessionInv, RootsAreRows
  <1>7. OldSessionsEnd'
    <2>1. \A t \in Tokens : Live(t) => token[t].user \in Users
      BY LiveRows, Rows DEF SessionInv
    <2> QED BY <1>2, <2>1 DEF SessionInv, OldSessionsEnd
  <1> QED BY <1>3, <1>4, <1>5, <1>6, <1>7 DEF SessionInv

\* A token is inserted, of a new session or of the one that this request exchanged.
LEMMA Issued ==
    ASSUME SessionInv, TypeOK', NEW c \in Clients, NEW t \in Tokens, NEW row,
           token[t] = Absent, token' = [token EXCEPT ![t] = row],
           row \in TokenRows, row # Absent, row.late \/ row.epoch = epoch[row.user],
           \/ row.root = t
           \/ Exchanging(c) /\ row.root = req[c].root,
           req' = [req EXCEPT ![c] = Idle], epoch' = epoch
    PROVE  SessionInv'
  <1>1. /\ token \in [Tokens -> TokenRows] /\ req \in [Clients -> Requests]
        /\ row.root \in Tokens
    BY DEF SessionInv, TypeOK, TokenRows
  <1>2. token'[t] = row /\ \A u \in Tokens : u # t => token'[u] = token[u]
    BY <1>1
  <1>3. ~Exchanging(c)' /\ \A d \in Clients : d # c => req'[d] = req[d]
    BY <1>1 DEF Exchanging, Idle
  \* No live token and no other exchange is of the session.
  <1>4. ASSUME NEW u \in Tokens, u # t, token[u] # Absent, token[u].root = row.root
        PROVE  ~Live(u)
    <2>1. CASE row.root = t
      BY <1>4, <2>1 DEF SessionInv, RootsAreRows
    <2>2. CASE Exchanging(c) /\ row.root = req[c].root
      BY <1>4, <2>2 DEF SessionInv, NoTokenDuringExchange
    <2> QED BY <2>1, <2>2
  <1>5. ASSUME NEW d \in Clients, d # c, Exchanging(d) PROVE req[d].root # row.root
    <2>1. CASE row.root = t
      BY <1>5, <2>1 DEF SessionInv, RootsAreRows
    <2>2. CASE Exchanging(c) /\ row.root = req[c].root
      BY <1>5, <2>2 DEF SessionInv, OneExchangePerSession
    <2> QED BY <2>1, <2>2
  <1>6. \A u \in Tokens : Live(u) => token[u] # Absent
    BY LiveRows
  <1>7. OneLivePerSession'
    BY <1>2, <1>4, <1>6 DEF SessionInv, OneLivePerSession, Live
  <1>8. OneExchangePerSession'
    BY <1>3 DEF SessionInv, OneExchangePerSession, Exchanging
  <1>9. NoTokenDuringExchange'
    BY <1>2, <1>3, <1>5 DEF SessionInv, NoTokenDuringExchange, Exchanging, Live
  <1>10. RootsAreRows'
    <2>1. token[row.root] # Absent \/ row.root = t
      BY DEF SessionInv, RootsAreRows
    <2>2. \A u \in Tokens : token[u] # Absent => token[u].root \in Tokens
      BY Rows DEF SessionInv
    <2>3. \A d \in Clients : Exchanging(d) => req[d].root \in Tokens
      BY Reqs DEF SessionInv
    <2>4. \A u \in Tokens : token[u] # Absent => token'[u] # Absent
      BY <1>2
    <2>5. token'[row.root] # Absent
      BY <1>1, <1>2, <2>1, <2>4
    <2> QED BY <1>2, <1>3, <2>2, <2>3, <2>4, <2>5 DEF SessionInv, RootsAreRows, Exchanging
  <1>11. OldSessionsEnd'
    BY <1>2 DEF SessionInv, OldSessionsEnd, Live
  <1> QED BY <1>7, <1>8, <1>9, <1>10, <1>11 DEF SessionInv

-----------------------------------------------------------------------------
LEMMA InitSession == Init => SessionInv
  <1> SUFFICES ASSUME Init PROVE SessionInv
    OBVIOUS
  <1>1. \A t \in Tokens : token[t] = Absent /\ ~Live(t)
    BY DEF Init, Live, Absent
  <1>2. \A c \in Clients : ~Exchanging(c)
    BY DEF Init, Exchanging, Idle
  <1>3. TypeOK
    BY MaxEpochNat DEF Init, TypeOK, TokenRows, Requests
  <1> QED BY <1>1, <1>2, <1>3 DEF SessionInv, OneLivePerSession, OneExchangePerSession,
                                 NoTokenDuringExchange, RootsAreRows, OldSessionsEnd

\* A request goes on without a token of the table: no exchange is new.
LEMMA RequestMoves ==
    ASSUME SessionInv, NEW c \in Clients, NEW r \in Requests, req' = [req EXCEPT ![c] = r],
           r.op \in {"idle", "open", "change"} \/ (Exchanging(c) /\ r.root = req[c].root),
           token' = token, epoch' = epoch, member' = member, expired' = expired
    PROVE  SessionInv'
  <1>1. req \in [Clients -> Requests]
    BY DEF SessionInv, TypeOK
  <1>2. TypeOK'
    BY <1>1 DEF SessionInv, TypeOK
  <1>3. req'[c] = r /\ \A d \in Clients : d # c => req'[d] = req[d]
    BY <1>1
  <1>4. \A d \in Clients : Exchanging(d)' => Exchanging(d) /\ req'[d].root = req[d].root
    BY <1>3 DEF Exchanging
  <1> QED BY <1>2, <1>4, NothingIssued

\* A token is revoked or lapses.
LEMMA TokenEnds ==
    ASSUME TypeOK, NEW t \in Tokens, Live(t), NEW st \in {"revoked", "lapsed"},
           token' = [token EXCEPT ![t].st = st]
    PROVE  /\ token' \in [Tokens -> TokenRows]
           /\ \A u \in Tokens : u # t => token'[u] = token[u]
           /\ token[t] # Absent /\ token'[t] # Absent
           /\ token'[t].st = st /\ token'[t].root = token[t].root
  <1>1. token \in [Tokens -> TokenRows]
    BY DEF TypeOK
  <1>2. token[t] \in [st : {"live", "revoked", "lapsed"}, user : Users, root : Tokens,
                      epoch : 0..MaxEpoch, late : BOOLEAN]
    BY <1>1, LiveRows DEF TokenRows
  <1>3. token'[t] = [token[t] EXCEPT !.st = st]
    BY <1>1
  <1>4. /\ token'[t] \in [st : {"live", "revoked", "lapsed"}, user : Users, root : Tokens,
                         epoch : 0..MaxEpoch, late : BOOLEAN]
        /\ token'[t].st = st /\ token'[t].root = token[t].root
    BY <1>2, <1>3
  <1>5. token'[t] # Absent
    BY <1>4 DEF Absent
  <1> QED BY <1>1, <1>4, <1>5, LiveRows DEF TokenRows

LEMMA StepKeepsSession == SessionInv /\ [Next]_vars => SessionInv'
  <1> SUFFICES ASSUME SessionInv, [Next]_vars PROVE SessionInv'
    OBVIOUS
  <1>1. /\ token \in [Tokens -> TokenRows] /\ epoch \in [Users -> 0..MaxEpoch]
        /\ member \subseteq Users /\ expired \in BOOLEAN /\ req \in [Clients -> Requests]
        /\ TypeOK
    BY DEF SessionInv, TypeOK
  <1>2. Idle \in Requests /\ Idle.op = "idle"
    BY DEF Requests, Idle
  <1>3. CASE RotateCompanyToken
    <2>1. /\ \A u \in member : epoch[u] < MaxEpoch
          /\ epoch' = [u \in Users |-> IF u \in member THEN epoch[u] + 1 ELSE epoch[u]]
          /\ RevokeAll(member)
          /\ member' = member /\ expired' = expired /\ req' = req
      BY <1>3 DEF RotateCompanyToken
    <2>2. epoch' \in [Users -> 0..MaxEpoch]
      BY <1>1, <2>1, MaxEpochNat
    <2>3. token' \in [Tokens -> TokenRows]
      BY <1>1, <2>1 DEF RevokeAll, TokenRows
    <2>4. TypeOK'
      BY <1>1, <2>1, <2>2, <2>3 DEF TypeOK
    <2>5. \A c \in Clients : Exchanging(c)' => Exchanging(c) /\ req'[c].root = req[c].root
      BY <2>1 DEF Exchanging
    <2> QED BY <2>1, <2>4, <2>5, AllRevoked
  <1>4. CASE DeleteCompany \/ ExpiryPassesOrMoves
    <2>1. /\ token' = token /\ epoch' = epoch /\ req' = req
          /\ member' \subseteq Users /\ expired' \in BOOLEAN
      BY <1>1, <1>4 DEF DeleteCompany, ExpiryPassesOrMoves
    <2>2. TypeOK'
      BY <1>1, <2>1 DEF TypeOK
    <2>3. \A c \in Clients : Exchanging(c)' => Exchanging(c) /\ req'[c].root = req[c].root
      BY <2>1 DEF Exchanging
    <2> QED BY <2>1, <2>2, <2>3, NothingIssued
  <1>5. ASSUME NEW t \in Tokens, Logout(t) \/ Lapse(t) PROVE SessionInv'
    <2>1. /\ Live(t) /\ \E st \in {"revoked", "lapsed"} : token' = [token EXCEPT ![t].st = st]
          /\ epoch' = epoch /\ member' = member /\ expired' = expired /\ req' = req
      BY <1>5 DEF Logout, Lapse
    <2>2. PICK st \in {"revoked", "lapsed"} : token' = [token EXCEPT ![t].st = st]
      BY <2>1
    <2>3. /\ token' \in [Tokens -> TokenRows]
          /\ \A u \in Tokens : u # t => token'[u] = token[u]
          /\ token[t] # Absent /\ token'[t] # Absent
          /\ token'[t].st = st /\ token'[t].root = token[t].root
      BY <1>1, <2>1, <2>2, TokenEnds
    <2>4. TypeOK'
      BY <1>1, <2>1, <2>3 DEF TypeOK
    <2>5. \A c \in Clients : Exchanging(c)' => Exchanging(c) /\ req'[c].root = req[c].root
      BY <2>1 DEF Exchanging
    <2> QED BY <2>1, <2>3, <2>4, <2>5, NothingIssued
  <1>6. ASSUME NEW c \in Clients, ExchangeCheck(c) PROVE SessionInv'
    <2> PICK r : r = [req[c] EXCEPT !.op = "renew"]
      OBVIOUS
    <2>1. req[c] \in [op : {"exchange", "renew"}, user : Users, root : Tokens, epoch : 0..MaxEpoch,
                      late : BOOLEAN]
      BY <1>1, <1>6 DEF ExchangeCheck, Requests, Idle
    <2>2. /\ r \in [op : {"exchange", "renew"}, user : Users, root : Tokens, epoch : 0..MaxEpoch,
                   late : BOOLEAN]
          /\ r.root = req[c].root
      BY <2>1
    <2>3. r \in Requests /\ Exchanging(c)
      BY <2>1, <2>2 DEF Requests, Exchanging
    <2>4. /\ req' = [req EXCEPT ![c] = r]
          /\ token' = token /\ epoch' = epoch /\ member' = member /\ expired' = expired
      BY <1>6 DEF ExchangeCheck
    <2> QED BY <2>2, <2>3, <2>4, RequestMoves
  <1>7. ASSUME NEW c \in Clients, ExchangeEnds(c) \/ Lost(c) PROVE SessionInv'
    <2>1. /\ req' = [req EXCEPT ![c] = Idle]
          /\ token' = token /\ epoch' = epoch /\ member' = member /\ expired' = expired
      BY <1>7 DEF ExchangeEnds, Lost
    <2> QED BY <1>2, <2>1, RequestMoves
  <1>8. ASSUME NEW c \in Clients, ChangeCommit(c) PROVE SessionInv'
    <2> PICK u : u = req[c].user
      OBVIOUS
    <2> PICK r : r = [op |-> "open", user |-> u, epoch |-> epoch[u] + 1]
      OBVIOUS
    <2>1. /\ u \in Users /\ epoch[u] < MaxEpoch
          /\ epoch' = [epoch EXCEPT ![u] = @ + 1] /\ RevokeAll({u})
          /\ req' = [req EXCEPT ![c] = r]
          /\ member' = member /\ expired' = expired
      BY <1>1, <1>8, Reqs DEF ChangeCommit
    <2>2. epoch[u] \in 0..MaxEpoch /\ epoch[u] + 1 \in 0..MaxEpoch
      BY <1>1, <2>1, MaxEpochNat
    <2>3. epoch' \in [Users -> 0..MaxEpoch] /\ \A w \in Users \ {u} : epoch'[w] = epoch[w]
      BY <1>1, <2>1, <2>2
    <2>4. token' \in [Tokens -> TokenRows]
      BY <1>1, <2>1 DEF RevokeAll, TokenRows
    <2>5. r \in Requests /\ r.op = "open"
      BY <2>1, <2>2 DEF Requests
    <2>6. TypeOK'
      BY <1>1, <2>1, <2>3, <2>4, <2>5 DEF TypeOK
    <2>7. \A d \in Clients : Exchanging(d)' => Exchanging(d) /\ req'[d].root = req[d].root
      BY <1>1, <2>1, <2>5 DEF Exchanging
    <2> QED BY <2>1, <2>3, <2>6, <2>7, AllRevoked
  <1>9. ASSUME NEW c \in Clients, NEW u \in Users,
               LoginCheck(c, u) \/ LinkCheck(c, u) \/ ChangeCheck(c, u)
        PROVE  SessionInv'
    <2>1. \E r \in {[op |-> "open", user |-> u, epoch |-> epoch[u]], [op |-> "change", user |-> u]} :
            req' = [req EXCEPT ![c] = r]
      BY <1>9 DEF LoginCheck, LinkCheck, ChangeCheck
    <2>2. PICK r \in {[op |-> "open", user |-> u, epoch |-> epoch[u]], [op |-> "change", user |-> u]} :
            req' = [req EXCEPT ![c] = r]
      BY <2>1
    <2>3. r \in Requests /\ r.op \in {"idle", "open", "change"}
      BY <1>1 DEF Requests
    <2>4. token' = token /\ epoch' = epoch /\ member' = member /\ expired' = expired
      BY <1>9 DEF LoginCheck, LinkCheck, ChangeCheck
    <2> QED BY <2>2, <2>3, <2>4, RequestMoves
  <1>10. ASSUME NEW c \in Clients, NEW t \in Tokens, Open(c, t) PROVE SessionInv'
    <2> PICK row : row = [st |-> "live", user |-> req[c].user, root |-> t, epoch |-> req[c].epoch,
                          late |-> req[c].epoch # epoch[req[c].user]]
      OBVIOUS
    <2>1. /\ req[c].op = "open" /\ token[t] = Absent
          /\ token' = [token EXCEPT ![t] = row] /\ req' = [req EXCEPT ![c] = Idle]
          /\ epoch' = epoch /\ member' = member /\ expired' = expired
      BY <1>10 DEF Open
    <2>2. req[c].user \in Users /\ req[c].epoch \in 0..MaxEpoch
      BY <1>1, <2>1, Reqs
    <2>3. row \in TokenRows /\ row # Absent /\ row.root = t
      BY <2>2 DEF TokenRows, Absent
    <2>4. row.late \/ row.epoch = epoch[row.user]
      OBVIOUS
    <2>5. TypeOK'
      BY <1>1, <1>2, <2>1, <2>3 DEF TypeOK
    <2> QED BY <2>1, <2>3, <2>4, <2>5, Issued
  <1>11. ASSUME NEW c \in Clients, NEW t \in Tokens, Renew(c, t) PROVE SessionInv'
    <2> PICK row : row = [st |-> "live", user |-> req[c].user, root |-> req[c].root,
                          epoch |-> req[c].epoch,
                          late |-> req[c].late \/ req[c].epoch # epoch[req[c].user]]
      OBVIOUS
    <2>1. /\ req[c].op = "renew" /\ token[t] = Absent
          /\ token' = [token EXCEPT ![t] = row] /\ req' = [req EXCEPT ![c] = Idle]
          /\ epoch' = epoch /\ member' = member /\ expired' = expired
      BY <1>11 DEF Renew
    <2>2. /\ Exchanging(c)
          /\ req[c].user \in Users /\ req[c].root \in Tokens
          /\ req[c].epoch \in 0..MaxEpoch /\ req[c].late \in BOOLEAN
      BY <1>1, <2>1, Reqs DEF Exchanging
    <2>3. row \in TokenRows /\ row # Absent /\ row.root = req[c].root
      BY <2>2 DEF TokenRows, Absent
    <2>4. row.late \/ row.epoch = epoch[row.user]
      OBVIOUS
    <2>5. TypeOK'
      BY <1>1, <1>2, <2>1, <2>3 DEF TypeOK
    <2> QED BY <2>1, <2>2, <2>3, <2>4, <2>5, Issued
  <1>12. ASSUME NEW c \in Clients, NEW t \in Tokens, ExchangeRevoke(c, t) PROVE SessionInv'
    <2> PICK r : r = [op |-> "exchange", user |-> token[t].user, root |-> token[t].root,
                      epoch |-> token[t].epoch, late |-> token[t].late]
      OBVIOUS
    <2>1. /\ Live(t) /\ req[c] = Idle
          /\ token' = [token EXCEPT ![t].st = "revoked"] /\ req' = [req EXCEPT ![c] = r]
          /\ epoch' = epoch /\ member' = member /\ expired' = expired
      BY <1>12 DEF ExchangeRevoke
    <2>2. /\ token' \in [Tokens -> TokenRows]
          /\ \A u \in Tokens : u # t => token'[u] = token[u]
          /\ token[t] # Absent /\ token'[t] # Absent
          /\ token'[t].st = "revoked" /\ token'[t].root = token[t].root
      BY <1>1, <2>1, TokenEnds
    <2>3. r \in Requests /\ r.root = token[t].root /\ r.op = "exchange"
      BY <1>1, <2>2, Rows DEF Requests
    <2>4. req'[c] = r /\ \A d \in Clients : d # c => req'[d] = req[d]
      BY <1>1, <2>1
    <2>5. TypeOK'
      BY <1>1, <2>1, <2>2, <2>3 DEF TypeOK
    <2>6. \A u \in Tokens : Live(u)' => u # t /\ Live(u) /\ token'[u] = token[u]
      BY <2>2 DEF Live
    \* The session had this live token, so it had no exchange.
    <2>7. \A d \in Clients : Exchanging(d) => req[d].root # token[t].root
      BY <2>1 DEF SessionInv, NoTokenDuringExchange
    <2>8. \A u \in Tokens : Live(u) /\ u # t => token[u].root # token[t].root
      BY <2>1 DEF SessionInv, OneLivePerSession
    <2>9. OneLivePerSession'
      BY <2>6 DEF SessionInv, OneLivePerSession
    <2>10. OneExchangePerSession'
      BY <2>3, <2>4, <2>7 DEF SessionInv, OneExchangePerSession, Exchanging
    <2>11. NoTokenDuringExchange'
      BY <2>3, <2>4, <2>6, <2>8 DEF SessionInv, NoTokenDuringExchange, Exchanging
    <2>12. RootsAreRows'
      <3>1. \A u \in Tokens : token'[u] # Absent <=> token[u] # Absent
        BY <2>2
      <3>2. \A u \in Tokens : token[u] # Absent => token[u].root \in Tokens /\ token'[u].root = token[u].root
        BY <1>1, <2>2, Rows
      <3>3. \A d \in Clients : Exchanging(d) => req[d].root \in Tokens
        BY <1>1, Reqs
      <3>4. (\A u \in Tokens : token'[u] # Absent => token'[token'[u].root] # Absent)
        BY <3>1, <3>2 DEF SessionInv, RootsAreRows
      <3>5. token'[r.root] # Absent
        BY <2>2, <2>3, <3>1, <3>2 DEF SessionInv, RootsAreRows
      <3>6. \A d \in Clients : Exchanging(d)' => token'[req'[d].root] # Absent
        BY <2>4, <3>1, <3>3, <3>5 DEF SessionInv, RootsAreRows, Exchanging
      <3> QED BY <3>4, <3>6 DEF RootsAreRows
    <2>13. OldSessionsEnd'
      BY <2>1, <2>6 DEF SessionInv, OldSessionsEnd
    <2> QED BY <2>5, <2>9, <2>10, <2>11, <2>12, <2>13 DEF SessionInv
  <1>13. CASE UNCHANGED vars
    <2>1. token' = token /\ epoch' = epoch /\ member' = member /\ expired' = expired /\ req' = req
      BY <1>13 DEF vars
    <2> QED BY <1>1, <2>1, NothingIssued DEF TypeOK, Exchanging
  <1> QED BY <1>3, <1>4, <1>5, <1>6, <1>7, <1>8, <1>9, <1>10, <1>11, <1>12, <1>13 DEF Next

\* The type of the state.
THEOREM SessionsTyped == Spec => []TypeOK
  BY InitSession, StepKeepsSession, PTL DEF Spec, SessionInv

\* However its client retries or overlaps the exchange, a session has one live token at most.
THEOREM OneLiveToken == Spec => []OneLivePerSession
  BY InitSession, StepKeepsSession, PTL DEF Spec, SessionInv

\* No session goes on after its secrets were replaced, but those under way at that moment.
THEOREM ReplacedSecretsEndSessions == Spec => []OldSessionsEnd
  BY InitSession, StepKeepsSession, PTL DEF Spec, SessionInv

-----------------------------------------------------------------------------
(* The pool of browsers and the renders of brochures                        *)

RENDERING == {"html", "launch", "print"}

\* Who prints has a browser that was launched, who does not has none.
CallerFits(r) ==
    /\ step[r] = "print" => on[r] \in Browsers /\ browser[on[r]] # "none"
    /\ step[r] # "print" => on[r] = None
    /\ step[r] = "idle" => what[r] = None
    /\ step[r] = "wait" => what[r] \in Payloads

CallersFit == \A r \in Callers : CallerFits(r)

PdfInv ==
    /\ PdfTypeOK
    /\ CallersFit
    /\ InUseCounts
    /\ OneRenderPerPayload
    /\ NoUsableBrowserLost

UsersOf(f, b) == {r \in Callers : f[r] = b}

LEMMA UsersFinite ==
    ASSUME NEW f, NEW b
    PROVE  IsFiniteSet(UsersOf(f, b)) /\ Cardinality(UsersOf(f, b)) \in Nat
  <1>1. UsersOf(f, b) \subseteq Callers
    BY DEF UsersOf
  <1>2. IsFiniteSet(UsersOf(f, b))
    BY <1>1, FiniteAssumption, FS_Subset
  <1> QED BY <1>2, FS_CardinalityType

\* A caller takes a browser.
LEMMA OneMoreUser ==
    ASSUME NEW f, NEW g, NEW r \in Callers, NEW b, f[r] # b, g[r] = b,
           \A d \in Callers \ {r} : g[d] = f[d]
    PROVE  Cardinality(UsersOf(g, b)) = Cardinality(UsersOf(f, b)) + 1
  <1>1. UsersOf(g, b) = UsersOf(f, b) \cup {r} /\ r \notin UsersOf(f, b)
    BY DEF UsersOf
  <1> QED BY <1>1, UsersFinite, FS_AddElement

LEMMA SameUsers ==
    ASSUME NEW f, NEW g, NEW r \in Callers, NEW b, f[r] # b, g[r] # b,
           \A d \in Callers \ {r} : g[d] = f[d]
    PROVE  UsersOf(g, b) = UsersOf(f, b)
  BY DEF UsersOf

LEMMA NoUsers ==
    ASSUME NEW f, NEW b, \A r \in Callers : f[r] # b
    PROVE  Cardinality(UsersOf(f, b)) = 0
  <1>1. UsersOf(f, b) = {}
    BY DEF UsersOf
  <1> QED BY <1>1, FS_EmptySet

LEMMA CountsAre ==
    InUseCounts <=> \A b \in Browsers : inUse[b] = Cardinality(UsersOf(on, b))
  BY DEF InUseCounts, UsersOf

\* A caller goes on; no render begins or ends.
LEMMA CallerMoves ==
    ASSUME PdfInv, NEW r \in Callers, NEW s \in RENDERING, step[r] \in RENDERING,
           step' = [step EXCEPT ![r] = s], what' = what, flight' = flight
    PROVE  OneRenderPerPayload' /\ step' \in [Callers -> {"idle", "html", "launch", "print", "wait"}]
  <1>1. step \in [Callers -> {"idle", "html", "launch", "print", "wait"}]
    BY DEF PdfInv, PdfTypeOK
  <1>2. step' \in [Callers -> {"idle", "html", "launch", "print", "wait"}]
    BY <1>1 DEF RENDERING
  <1>3. \A w \in Callers : /\ step'[w] \in RENDERING <=> step[w] \in RENDERING
                           /\ step'[w] = "wait" <=> step[w] = "wait"
    BY <1>1 DEF RENDERING
  <1>4. \A p \in Payloads : Rendering(p)' = Rendering(p)
    BY <1>3 DEF Rendering, RENDERING
  <1> QED BY <1>2, <1>3, <1>4 DEF PdfInv, OneRenderPerPayload

\* A render ends for all who share it.
LEMMA SettledKeeps ==
    ASSUME PdfInv, NEW r \in Callers, step[r] \in RENDERING, Settled(r)
    PROVE  /\ OneRenderPerPayload'
           /\ step' \in [Callers -> {"idle", "html", "launch", "print", "wait"}]
           /\ what' \in [Callers -> Payloads \cup {None}]
           /\ flight' \in [Payloads -> Callers \cup {None}]
           /\ \A w \in Callers : \/ step'[w] = step[w] /\ what'[w] = what[w] /\ w # r
                                 \/ step'[w] = "idle" /\ what'[w] = None /\ (w = r \/ step[w] = "wait")
  <1>1. PICK ends : ends = EndsWith(r)
    OBVIOUS
  <1>2. /\ step' = [w \in Callers |-> IF w \in ends THEN "idle" ELSE step[w]]
        /\ what' = [w \in Callers |-> IF w \in ends THEN None ELSE what[w]]
        /\ flight' = [p \in Payloads |-> IF flight[p] = r THEN None ELSE flight[p]]
    BY <1>1 DEF Settled
  <1>3. r \in ends /\ \A w \in Callers : w \in ends <=> w = r \/ (step[w] = "wait" /\ flight[what[w]] = r)
    BY <1>1 DEF EndsWith
  <1>4. /\ step \in [Callers -> {"idle", "html", "launch", "print", "wait"}]
        /\ what \in [Callers -> Payloads \cup {None}]
        /\ flight \in [Payloads -> Callers \cup {None}]
        /\ \A p \in Payloads : Rendering(p) = {flight[p]} \ {None}
        /\ \A w \in Callers : step[w] = "wait" => flight[what[w]] # None /\ what[w] \in Payloads
    BY DEF PdfInv, PdfTypeOK, OneRenderPerPayload, CallersFit, CallerFits
  <1>5. /\ step' \in [Callers -> {"idle", "html", "launch", "print", "wait"}]
        /\ what' \in [Callers -> Payloads \cup {None}]
        /\ flight' \in [Payloads -> Callers \cup {None}]
    BY <1>2, <1>4
  <1>6. \A w \in Callers : \/ step'[w] = step[w] /\ what'[w] = what[w] /\ w # r
                           \/ step'[w] = "idle" /\ what'[w] = None /\ (w = r \/ step[w] = "wait")
    BY <1>2, <1>3
  <1>7. ASSUME NEW p \in Payloads
        PROVE  Rendering(p)' = {flight'[p]} \ {None}
    <2>1. Rendering(p)' = Rendering(p) \ ends
      BY <1>2, NoneAssumption DEF Rendering
    <2>2. Rendering(p) = {flight[p]} \ {None}
      BY <1>4
    <2>3. CASE flight[p] = r
      BY <1>2, <1>3, <2>1, <2>2, <2>3
    <2>4. CASE flight[p] # r
      <3>1. flight'[p] = flight[p]
        BY <1>2, <2>4
      <3>2. \A x \in Rendering(p) : x \notin ends
        <4> SUFFICES ASSUME NEW x \in Rendering(p)
                     PROVE  x \notin ends
          OBVIOUS
        <4>1. x = flight[p] /\ x \in Callers /\ step[x] \in RENDERING
          BY <2>2 DEF Rendering, RENDERING
        <4> QED BY <1>3, <2>4, <4>1 DEF RENDERING
      <3> QED BY <2>1, <2>2, <3>1, <3>2
    <2> QED BY <2>3, <2>4
  <1>8. ASSUME NEW w \in Callers, step'[w] = "wait"
        PROVE  flight'[what'[w]] # None
    <2>1. w \notin ends
      BY <1>2, <1>8
    <2>2. step[w] = "wait" /\ what'[w] = what[w] /\ flight[what[w]] # r
      BY <1>2, <1>3, <1>8, <2>1
    <2> QED BY <1>2, <1>4, <2>2
  <1> QED BY <1>5, <1>6, <1>7, <1>8 DEF OneRenderPerPayload

LEMMA PdfInitInv == PdfInit => PdfInv
  <1> SUFFICES ASSUME PdfInit PROVE PdfInv
    OBVIOUS
  <1>1. PdfTypeOK
    BY DEF PdfInit, PdfTypeOK
  <1>2. CallersFit
    BY DEF PdfInit, CallersFit, CallerFits
  <1>3. InUseCounts
    BY NoUsers, CountsAre, NoneAssumption DEF PdfInit
  <1>4. OneRenderPerPayload
    BY DEF PdfInit, OneRenderPerPayload, Rendering
  <1>5. NoUsableBrowserLost
    BY DEF PdfInit, NoUsableBrowserLost
  <1> QED BY <1>1, <1>2, <1>3, <1>4, <1>5 DEF PdfInv

\* A caller asks, with or without a brochure to share.
LEMMA AskKeeps ==
    ASSUME PdfInv, NEW r \in Callers,
           AskDocument(r) \/ \E p \in Payloads : AskBrochure(r, p)
    PROVE  PdfInv'
  <1>1. /\ step \in [Callers -> {"idle", "html", "launch", "print", "wait"}]
        /\ what \in [Callers -> Payloads \cup {None}]
        /\ flight \in [Payloads -> Callers \cup {None}]
        /\ \A p \in Payloads : Rendering(p) = {flight[p]} \ {None}
        /\ \A w \in Callers : step[w] = "wait" => flight[what[w]] # None /\ what[w] \in Payloads
        /\ \A w \in Callers : CallerFits(w)
    BY DEF PdfInv, PdfTypeOK, OneRenderPerPayload, CallersFit, CallerFits
  <1>2. UNCHANGED <<browser, young, inUse, pool, on, server>> /\ step[r] = "idle"
    BY DEF AskDocument, AskBrochure, poolVars
  <1>3. on[r] = None /\ what[r] = None
    BY <1>1, <1>2 DEF CallerFits
  <1>4. InUseCounts' /\ NoUsableBrowserLost'
    BY <1>2 DEF PdfInv, InUseCounts, NoUsableBrowserLost
  <1>5. CASE AskDocument(r)
    <2>1. UNCHANGED <<what, flight, cached, lapsed>> /\ step' = [step EXCEPT ![r] = "html"]
      BY <1>5 DEF AskDocument, brochureVars
    <2>2. PdfTypeOK'
      BY <1>2, <2>1 DEF PdfInv, PdfTypeOK
    <2>3. CallersFit'
      BY <1>1, <1>2, <1>3, <2>1 DEF CallersFit, CallerFits
    <2>4. \A p \in Payloads : Rendering(p)' = Rendering(p)
      BY <1>1, <1>2, <1>3, <2>1, NoneAssumption DEF Rendering
    <2>5. OneRenderPerPayload'
      BY <1>1, <2>1, <2>4 DEF OneRenderPerPayload
    <2> QED BY <1>4, <2>2, <2>3, <2>5 DEF PdfInv
  <1>6. ASSUME NEW p \in Payloads, AskBrochure(r, p)
        PROVE  PdfInv'
    <2>1. /\ cached' = cached \ {p} /\ lapsed' = lapsed \ {p}
          /\ what' = [what EXCEPT ![r] = p]
      BY <1>6 DEF AskBrochure
    <2>2. CASE flight[p] # None
      <3>1. step' = [step EXCEPT ![r] = "wait"] /\ flight' = flight
        BY <1>6, <2>2 DEF AskBrochure
      <3>2. PdfTypeOK'
        BY <1>2, <2>1, <3>1 DEF PdfInv, PdfTypeOK
      <3>3. CallersFit'
        BY <1>1, <1>2, <1>3, <2>1, <3>1 DEF CallersFit, CallerFits
      <3>4. \A x \in Payloads : Rendering(x)' = Rendering(x)
        BY <1>1, <1>2, <2>1, <3>1 DEF Rendering
      <3>5. \A w \in Callers : step'[w] = "wait" => flight'[what'[w]] # None
        BY <1>1, <2>1, <2>2, <3>1
      <3>6. OneRenderPerPayload'
        BY <1>1, <3>1, <3>4, <3>5 DEF OneRenderPerPayload
      <3> QED BY <1>4, <3>2, <3>3, <3>6 DEF PdfInv
    <2>3. CASE flight[p] = None
      <3>1. step' = [step EXCEPT ![r] = "html"] /\ flight' = [flight EXCEPT ![p] = r]
        BY <1>6, <2>3 DEF AskBrochure
      <3>2. PdfTypeOK'
        BY <1>2, <2>1, <3>1 DEF PdfInv, PdfTypeOK
      <3>3. CallersFit'
        BY <1>1, <1>2, <1>3, <2>1, <3>1 DEF CallersFit, CallerFits
      <3>4. Rendering(p)' = Rendering(p) \cup {r}
        BY <1>1, <2>1, <3>1 DEF Rendering
      <3>5. Rendering(p) = {} /\ r # None
        BY <1>1, <2>3, NoneAssumption
      <3>6. \A x \in Payloads \ {p} : Rendering(x)' = Rendering(x)
        BY <1>1, <1>2, <2>1, <3>1 DEF Rendering
      <3>7. \A x \in Payloads : Rendering(x)' = {flight'[x]} \ {None}
        BY <1>1, <3>1, <3>4, <3>5, <3>6
      <3>8. \A w \in Callers : step'[w] = "wait" => flight'[what'[w]] # None
        BY <1>1, <2>1, <3>1, <3>5
      <3>9. OneRenderPerPayload'
        BY <3>7, <3>8 DEF OneRenderPerPayload
      <3> QED BY <1>4, <3>2, <3>3, <3>9 DEF PdfInv
    <2> QED BY <2>2, <2>3
  <1> QED BY <1>5, <1>6

\* A render ends without a browser.
LEMMA FailsKeeps ==
    ASSUME PdfInv, NEW r \in Callers, HtmlFails(r) \/ LaunchFails(r)
    PROVE  PdfInv'
  <1>1. /\ step[r] \in RENDERING /\ step[r] # "print" /\ Settled(r)
        /\ UNCHANGED <<browser, young, inUse, pool, on, cached, lapsed, server>>
    BY DEF HtmlFails, LaunchFails, RENDERING, poolVars
  <1>2. /\ OneRenderPerPayload'
        /\ step' \in [Callers -> {"idle", "html", "launch", "print", "wait"}]
        /\ what' \in [Callers -> Payloads \cup {None}]
        /\ flight' \in [Payloads -> Callers \cup {None}]
        /\ \A w \in Callers : \/ step'[w] = step[w] /\ what'[w] = what[w] /\ w # r
                              \/ step'[w] = "idle" /\ what'[w] = None /\ (w = r \/ step[w] = "wait")
    BY <1>1, SettledKeeps
  <1>3. PdfTypeOK'
    BY <1>1, <1>2 DEF PdfInv, PdfTypeOK
  <1>4. CallersFit'
    <2> SUFFICES ASSUME NEW w \in Callers PROVE CallerFits(w)'
      BY DEF CallersFit
    <2>1. CallerFits(w) /\ CallerFits(r)
      BY DEF PdfInv, CallersFit
    <2> QED BY <1>1, <1>2, <2>1 DEF CallerFits
  <1>5. InUseCounts' /\ NoUsableBrowserLost'
    BY <1>1 DEF PdfInv, InUseCounts, NoUsableBrowserLost
  <1> QED BY <1>2, <1>3, <1>4, <1>5 DEF PdfInv

\* A caller gets a browser that is there, ...
LEMMA WarmKeeps ==
    ASSUME PdfInv, NEW r \in Callers, NEW b \in Browsers, AcquireWarm(r, b)
    PROVE  PdfInv'
  <1>1. /\ step[r] = "html" /\ browser[b] = "up"
        /\ inUse' = [inUse EXCEPT ![b] = @ + 1] /\ on' = [on EXCEPT ![r] = b]
        /\ step' = [step EXCEPT ![r] = "print"]
        /\ UNCHANGED <<browser, young, pool, what, flight, cached, lapsed, server>>
    BY DEF AcquireWarm, Usable, brochureVars
  <1>2. /\ inUse \in [Browsers -> Nat] /\ on \in [Callers -> Browsers \cup {None}]
        /\ step \in [Callers -> {"idle", "html", "launch", "print", "wait"}]
        /\ \A w \in Callers : CallerFits(w)
    BY DEF PdfInv, PdfTypeOK, CallersFit
  <1>3. on[r] = None
    BY <1>1, <1>2 DEF CallerFits
  <1>4. OneRenderPerPayload' /\ step' \in [Callers -> {"idle", "html", "launch", "print", "wait"}]
    <2>1. step[r] \in RENDERING /\ "print" \in RENDERING
      BY <1>1 DEF RENDERING
    <2> QED BY <1>1, <2>1, CallerMoves
  <1>5. PdfTypeOK'
    BY <1>1, <1>2, <1>4 DEF PdfInv, PdfTypeOK
  <1>6. CallersFit'
    BY <1>1, <1>2 DEF CallersFit, CallerFits
  <1>7. ASSUME NEW x \in Browsers
        PROVE  inUse'[x] = Cardinality(UsersOf(on', x))
    <2>1. inUse[x] = Cardinality(UsersOf(on, x))
      BY CountsAre DEF PdfInv
    <2>2. PICK f : f = on
      OBVIOUS
    <2>3. PICK g : g = on'
      OBVIOUS
    <2>4. /\ f[r] = None /\ g[r] = b /\ \A d \in Callers \ {r} : g[d] = f[d]
          /\ None \notin Browsers
      BY <1>1, <1>2, <1>3, <2>2, <2>3, NoneAssumption
    <2>5. CASE x = b
      <3>1. Cardinality(UsersOf(g, b)) = Cardinality(UsersOf(f, b)) + 1
        BY <2>4, OneMoreUser
      <3> QED BY <1>1, <1>2, <2>1, <2>2, <2>3, <2>5, <3>1
    <2>6. CASE x # b
      <3>1. UsersOf(g, x) = UsersOf(f, x)
        BY <2>4, <2>6, SameUsers
      <3> QED BY <1>1, <1>2, <2>1, <2>2, <2>3, <2>6, <3>1
    <2> QED BY <2>5, <2>6
  <1>8. InUseCounts'
    BY <1>7 DEF InUseCounts, UsersOf
  <1>9. NoUsableBrowserLost'
    BY <1>1 DEF PdfInv, NoUsableBrowserLost
  <1> QED BY <1>4, <1>5, <1>6, <1>8, <1>9 DEF PdfInv

\* ... or starts one; what it drops from the pool is of no use.
LEMMA ColdKeeps ==
    ASSUME PdfInv, NEW r \in Callers, AcquireCold(r)
    PROVE  PdfInv'
  <1>1. /\ step[r] = "html" /\ Usable = {} /\ pool' = Usable
        /\ step' = [step EXCEPT ![r] = "launch"]
        /\ UNCHANGED <<browser, young, inUse, on, what, flight, cached, lapsed, server>>
    BY DEF AcquireCold, brochureVars
  <1>2. OneRenderPerPayload' /\ step' \in [Callers -> {"idle", "html", "launch", "print", "wait"}]
    <2>1. step[r] \in RENDERING /\ "launch" \in RENDERING
      BY <1>1 DEF RENDERING
    <2> QED BY <1>1, <2>1, CallerMoves
  <1>3. PdfTypeOK'
    BY <1>1, <1>2 DEF PdfInv, PdfTypeOK
  <1>4. CallersFit'
    BY <1>1 DEF PdfInv, PdfTypeOK, CallersFit, CallerFits
  <1>5. InUseCounts'
    BY <1>1 DEF PdfInv, InUseCounts
  <1>6. NoUsableBrowserLost'
    BY <1>1 DEF PdfInv, NoUsableBrowserLost, Usable
  <1> QED BY <1>2, <1>3, <1>4, <1>5, <1>6 DEF PdfInv

LEMMA LaunchedKeeps ==
    ASSUME PdfInv, NEW r \in Callers, NEW b \in Browsers, Launched(r, b)
    PROVE  PdfInv'
  <1>1. /\ step[r] = "launch" /\ browser[b] = "none"
        /\ browser' = [browser EXCEPT ![b] = "up"] /\ young' = young \cup {b}
        /\ inUse' = [inUse EXCEPT ![b] = 1] /\ pool' = pool \cup {b}
        /\ on' = [on EXCEPT ![r] = b] /\ step' = [step EXCEPT ![r] = "print"]
        /\ UNCHANGED <<what, flight, cached, lapsed, server>>
    BY DEF Launched, brochureVars
  <1>2. /\ inUse \in [Browsers -> Nat] /\ on \in [Callers -> Browsers \cup {None}]
        /\ step \in [Callers -> {"idle", "html", "launch", "print", "wait"}]
        /\ browser \in [Browsers -> {"none", "up", "down"}]
        /\ \A w \in Callers : CallerFits(w)
    BY DEF PdfInv, PdfTypeOK, CallersFit
  <1>3. on[r] = None /\ \A w \in Callers : on[w] # b
    BY <1>1, <1>2, NoneAssumption DEF CallerFits
  <1>4. OneRenderPerPayload' /\ step' \in [Callers -> {"idle", "html", "launch", "print", "wait"}]
    <2>1. step[r] \in RENDERING /\ "print" \in RENDERING
      BY <1>1 DEF RENDERING
    <2> QED BY <1>1, <2>1, CallerMoves
  <1>5. PdfTypeOK'
    BY <1>1, <1>2, <1>4 DEF PdfInv, PdfTypeOK
  <1>6. CallersFit'
    BY <1>1, <1>2 DEF CallersFit, CallerFits
  <1>7. ASSUME NEW x \in Browsers
        PROVE  inUse'[x] = Cardinality(UsersOf(on', x))
    <2>1. inUse[x] = Cardinality(UsersOf(on, x))
      BY CountsAre DEF PdfInv
    <2>2. PICK f : f = on
      OBVIOUS
    <2>3. PICK g : g = on'
      OBVIOUS
    <2>4. /\ f[r] = None /\ g[r] = b /\ \A d \in Callers \ {r} : g[d] = f[d]
          /\ None \notin Browsers
      BY <1>1, <1>2, <1>3, <2>2, <2>3, NoneAssumption
    <2>5. CASE x = b
      <3>1. Cardinality(UsersOf(g, b)) = Cardinality(UsersOf(f, b)) + 1
        BY <2>4, OneMoreUser
      <3>2. Cardinality(UsersOf(f, b)) = 0
        BY <1>3, <2>2, NoUsers
      <3> QED BY <1>1, <1>2, <2>2, <2>3, <2>5, <3>1, <3>2
    <2>6. CASE x # b
      <3>1. UsersOf(g, x) = UsersOf(f, x)
        BY <2>4, <2>6, SameUsers
      <3> QED BY <1>1, <1>2, <2>1, <2>2, <2>3, <2>6, <3>1
    <2> QED BY <2>5, <2>6
  <1>8. InUseCounts'
    BY <1>7 DEF InUseCounts, UsersOf
  <1>9. NoUsableBrowserLost'
    BY <1>1, <1>2 DEF PdfInv, NoUsableBrowserLost
  <1> QED BY <1>4, <1>5, <1>6, <1>8, <1>9 DEF PdfInv

\* A browser is given back, whether it printed or not.
LEMMA PrintEndsKeeps ==
    ASSUME PdfInv, NEW r \in Callers, PrintFails(r) \/ Printed(r)
    PROVE  PdfInv'
  <1>1. /\ step[r] = "print" /\ Release(r) /\ Settled(r)
        /\ UNCHANGED <<browser, young, pool, server>>
    BY DEF PrintFails, Printed
  <1>2. /\ inUse \in [Browsers -> Nat] /\ on \in [Callers -> Browsers \cup {None}]
        /\ what \in [Callers -> Payloads \cup {None}]
        /\ cached \subseteq Payloads /\ lapsed \subseteq cached
        /\ \A w \in Callers : CallerFits(w)
    BY DEF PdfInv, PdfTypeOK, CallersFit
  <1>3. PICK b \in Browsers : b = on[r]
    BY <1>1, <1>2 DEF CallerFits
  <1>4. /\ inUse' = [inUse EXCEPT ![b] = IF @ = 0 THEN 0 ELSE @ - 1]
        /\ on' = [on EXCEPT ![r] = None]
    BY <1>1, <1>3 DEF Release
  <1>5. /\ OneRenderPerPayload'
        /\ step' \in [Callers -> {"idle", "html", "launch", "print", "wait"}]
        /\ what' \in [Callers -> Payloads \cup {None}]
        /\ flight' \in [Payloads -> Callers \cup {None}]
        /\ \A w \in Callers : \/ step'[w] = step[w] /\ what'[w] = what[w] /\ w # r
                              \/ step'[w] = "idle" /\ what'[w] = None /\ (w = r \/ step[w] = "wait")
    <2>1. step[r] \in RENDERING
      BY <1>1 DEF RENDERING
    <2> QED BY <1>1, <2>1, SettledKeeps
  <1>6. cached' \subseteq Payloads /\ lapsed' \subseteq cached'
    <2>1. CASE PrintFails(r)
      BY <1>2, <2>1 DEF PrintFails
    <2>2. CASE Printed(r)
      <3>1. CacheResult(r)
        BY <2>2 DEF Printed
      <3>2. CASE what[r] = None
        BY <1>2, <3>1, <3>2 DEF CacheResult
      <3>3. CASE what[r] # None
        <4>1. PICK full \in SUBSET cached :
                 /\ cached' = (cached \ full) \cup {what[r]}
                 /\ lapsed' \in {lapsed \cap cached', (lapsed \cap cached') \cup {what[r]}}
          BY <3>1, <3>3 DEF CacheResult
        <4>2. what[r] \in Payloads
          BY <1>2, <3>3
        <4> QED BY <1>2, <4>1, <4>2
      <3> QED BY <3>2, <3>3
    <2> QED BY <2>1, <2>2
  <1>7. inUse' \in [Browsers -> Nat] /\ on' \in [Callers -> Browsers \cup {None}]
    <2>1. \A n \in Nat : (IF n = 0 THEN 0 ELSE n - 1) \in Nat
      OBVIOUS
    <2> QED BY <1>2, <1>4, <2>1
  <1>8. PdfTypeOK'
    BY <1>1, <1>5, <1>6, <1>7 DEF PdfInv, PdfTypeOK
  <1>9. CallersFit'
    <2> SUFFICES ASSUME NEW w \in Callers PROVE CallerFits(w)'
      BY DEF CallersFit
    <2>1. CallerFits(w)
      BY <1>2
    <2>2. CASE w = r
      <3>1. step'[w] = "idle" /\ what'[w] = None /\ on'[w] = None
        BY <1>2, <1>4, <1>5, <2>2
      <3> QED BY <3>1 DEF CallerFits
    <2>3. CASE w # r
      <3>1. on'[w] = on[w]
        BY <1>2, <1>4, <2>3
      <3> QED BY <1>1, <1>5, <2>1, <2>3, <3>1 DEF CallerFits
    <2> QED BY <2>2, <2>3
  <1>10. ASSUME NEW x \in Browsers
         PROVE  inUse'[x] = Cardinality(UsersOf(on', x))
    <2>1. inUse[x] = Cardinality(UsersOf(on, x))
      BY CountsAre DEF PdfInv
    <2>2. PICK f : f = on
      OBVIOUS
    <2>3. PICK g : g = on'
      OBVIOUS
    <2>4. /\ f[r] = b /\ g[r] = None /\ \A d \in Callers \ {r} : g[d] = f[d]
          /\ None \notin Browsers
      BY <1>2, <1>3, <1>4, <2>2, <2>3, NoneAssumption
    <2>5. CASE x = b
      <3>1. Cardinality(UsersOf(f, b)) = Cardinality(UsersOf(g, b)) + 1
        BY <2>4, OneMoreUser
      <3>2. Cardinality(UsersOf(g, b)) \in Nat
        BY UsersFinite
      <3> QED BY <1>2, <1>4, <2>1, <2>2, <2>3, <2>5, <3>1, <3>2
    <2>6. CASE x # b
      <3>1. UsersOf(g, x) = UsersOf(f, x)
        BY <2>4, <2>6, SameUsers
      <3> QED BY <1>2, <1>4, <2>1, <2>2, <2>3, <2>6, <3>1
    <2> QED BY <2>5, <2>6
  <1>11. InUseCounts'
    BY <1>10 DEF InUseCounts, UsersOf
  <1>12. NoUsableBrowserLost'
    BY <1>1 DEF PdfInv, NoUsableBrowserLost
  <1> QED BY <1>5, <1>8, <1>9, <1>11, <1>12 DEF PdfInv

\* Browsers crash and age, cached brochures lapse, the server stops.
LEMMA AroundKeeps ==
    ASSUME PdfInv,
           \/ CloseBrowsers \/ EmptyPool
           \/ \E b \in Browsers : Crash(b) \/ Ages(b)
           \/ \E p \in Payloads : CacheLapses(p)
    PROVE  PdfInv'
  <1>1. UNCHANGED <<inUse, step, on, what, flight, cached>>
    BY DEF CloseBrowsers, EmptyPool, Crash, Ages, CacheLapses, poolVars, brochureVars
  <1>2. OneRenderPerPayload' /\ InUseCounts'
    BY <1>1 DEF PdfInv, OneRenderPerPayload, Rendering, InUseCounts
  <1>3. /\ browser' \in [Browsers -> {"none", "up", "down"}]
        /\ \A b \in Browsers : /\ browser[b] # "none" => browser'[b] # "none"
                               /\ browser'[b] = "up" => browser[b] = "up"
    BY DEF PdfInv, PdfTypeOK, CloseBrowsers, EmptyPool, Crash, Ages, CacheLapses, poolVars
  <1>4. young' \subseteq young /\ pool' \subseteq pool
    BY DEF CloseBrowsers, EmptyPool, Crash, Ages, CacheLapses, poolVars
  <1>5. PdfTypeOK'
    BY <1>1, <1>3, <1>4 DEF PdfInv, PdfTypeOK, CloseBrowsers, EmptyPool, Crash, Ages, CacheLapses,
                            poolVars, brochureVars
  <1>6. CallersFit'
    <2> SUFFICES ASSUME NEW w \in Callers PROVE CallerFits(w)'
      BY DEF CallersFit
    <2>1. CallerFits(w) /\ step'[w] = step[w] /\ on'[w] = on[w] /\ what'[w] = what[w]
      BY <1>1 DEF PdfInv, CallersFit
    <2>2. ASSUME on[w] \in Browsers, browser[on[w]] # "none"
          PROVE  browser'[on[w]] # "none"
      <3>1. PICK b \in Browsers : b = on[w]
        BY <2>2
      <3> QED BY <1>3, <2>2, <3>1
    <2> QED BY <2>1, <2>2 DEF CallerFits
  <1>7. server' = "running" => server = "running" /\ pool' = pool
    BY DEF CloseBrowsers, EmptyPool, Crash, Ages, CacheLapses, poolVars
  <1>8. NoUsableBrowserLost'
    BY <1>3, <1>4, <1>7 DEF PdfInv, PdfTypeOK, NoUsableBrowserLost
  <1> QED BY <1>2, <1>5, <1>6, <1>8 DEF PdfInv

LEMMA PdfStepInv == PdfInv /\ [PdfNext]_pdfVars => PdfInv'
  <1> SUFFICES ASSUME PdfInv, [PdfNext]_pdfVars PROVE PdfInv'
    OBVIOUS
  <1>1. CASE UNCHANGED pdfVars
    BY <1>1 DEF pdfVars, PdfInv, PdfTypeOK, CallersFit, CallerFits, InUseCounts, OneRenderPerPayload,
                Rendering, NoUsableBrowserLost
  <1>2. CASE PdfNext
    BY <1>2, AskKeeps, FailsKeeps, WarmKeeps, ColdKeeps, LaunchedKeeps, PrintEndsKeeps, AroundKeeps
       DEF PdfNext
  <1> QED BY <1>1, <1>2

\* Entries and callers keep their shape, and the count in the entry of a browser is the number
\* of callers that print with it, whatever fails, crashes or ages.
THEOREM PoolStaysConsistent == PdfSpec => []PoolConsistent
  <1>1. PdfInv => PoolConsistent
    BY DEF PdfInv, PoolConsistent
  <1> QED BY <1>1, PdfInitInv, PdfStepInv, PTL DEF PdfSpec

\* However many ask for a brochure together it is rendered once, and who waits does so for a
\* render that is under way.
THEOREM RendersAreShared == PdfSpec => []OneRenderPerPayload
  <1>1. PdfInv => OneRenderPerPayload
    BY DEF PdfInv
  <1> QED BY <1>1, PdfInitInv, PdfStepInv, PTL DEF PdfSpec

\* While the server runs, a browser that can be used is in the pool: cold starts that overlap
\* do not drop one another's browsers.
THEOREM UsableBrowsersStay == PdfSpec => []NoUsableBrowserLost
  <1>1. PdfInv => NoUsableBrowserLost
    BY DEF PdfInv
  <1> QED BY <1>1, PdfInitInv, PdfStepInv, PTL DEF PdfSpec
=============================================================================
