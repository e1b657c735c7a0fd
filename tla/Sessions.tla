------------------------------ MODULE Sessions ------------------------------
(***************************************************************************)
(* Sign-in sessions: refresh tokens, the passwords and the company access  *)
(* token they were opened with (auth.service.ts, rotateCompanyToken and    *)
(* deleteCompany of companies.service.ts).                                 *)
(*                                                                         *)
(* A session begins with a login or a password change and goes on by       *)
(* exchanging its refresh token for the next. An exchange revokes the old  *)
(* token, reads the user and the company, and inserts the new token: three *)
(* steps without a transaction, between which a process may stop.          *)
(***************************************************************************)
EXTENDS Naturals

CONSTANTS
    Users,
    Tokens,      \* ids of refresh_tokens rows
    Clients,     \* concurrent requests
    MaxEpoch     \* bound: how often the secrets of a user change

ASSUME MaxEpochNat == MaxEpoch \in Nat

VARIABLES
    token,    \* refresh_tokens
    epoch,    \* of each user: how often the password was replaced
    member,   \* users with a company_id
    expired,  \* the company's token_expires_at has passed
    req       \* what each request has verified and will insert

vars == <<token, epoch, member, expired, req>>

-----------------------------------------------------------------------------
\* The root of a session is its first token. `late` is history: the session was opened with
\* secrets that were replaced before its first token was inserted.
Absent == [st |-> "absent"]
TokenRows ==
    {Absent} \cup [st : {"live", "revoked", "lapsed"}, user : Users, root : Tokens,
                   epoch : 0..MaxEpoch, late : BOOLEAN]

Idle == [op |-> "idle"]
Requests ==
    {Idle} \cup [op : {"open"}, user : Users, epoch : 0..MaxEpoch]
           \cup [op : {"exchange", "renew"}, user : Users, root : Tokens, epoch : 0..MaxEpoch,
                 late : BOOLEAN]
           \cup [op : {"change"}, user : Users]

\* The type of the state.
TypeOK ==
    /\ token \in [Tokens -> TokenRows]
    /\ epoch \in [Users -> 0..MaxEpoch]
    /\ member \subseteq Users
    /\ expired \in BOOLEAN
    /\ req \in [Clients -> Requests]

Init ==
    /\ token = [t \in Tokens |-> Absent]
    /\ epoch = [u \in Users |-> 0]
    /\ member \in SUBSET Users
    /\ expired \in BOOLEAN
    /\ req = [c \in Clients |-> Idle]

Live(t) == token[t].st = "live"

-----------------------------------------------------------------------------
\* loginWithCredentials: the password is the user's.
LoginCheck(c, u) ==
    /\ req[c] = Idle
    /\ req' = [req EXCEPT ![c] = [op |-> "open", user |-> u, epoch |-> epoch[u]]]
    /\ UNCHANGED <<token, epoch, member, expired>>

\* loginWithToken: the link is the company's and has not expired.
LinkCheck(c, u) ==
    /\ req[c] = Idle
    /\ u \in member
    /\ ~expired
    /\ req' = [req EXCEPT ![c] = [op |-> "open", user |-> u, epoch |-> epoch[u]]]
    /\ UNCHANGED <<token, epoch, member, expired>>

\* issueTokens of a new session.
Open(c, t) ==
    /\ req[c].op = "open"
    /\ token[t] = Absent
    /\ token' = [token EXCEPT ![t] =
                   [st |-> "live", user |-> req[c].user, root |-> t, epoch |-> req[c].epoch,
                    late |-> req[c].epoch # epoch[req[c].user]]]
    /\ req' = [req EXCEPT ![c] = Idle]
    /\ UNCHANGED <<epoch, member, expired>>

\* A slip: the token is read before it is revoked, so that a retry may read it too.
ExchangeRead(c, t) ==
    /\ req[c] = Idle
    /\ token[t] # Absent /\ token[t].st # "lapsed"
    /\ token' = [token EXCEPT ![t].st = "revoked"]
    /\ req' = [req EXCEPT ![c] = [op |-> "exchange", user |-> token[t].user, root |-> token[t].root,
                                  epoch |-> token[t].epoch, late |-> token[t].late]]
    /\ UNCHANGED <<epoch, member, expired>>

\* rotateRefreshToken: one UPDATE revokes the token that is presented, if it is live.
ExchangeRevoke(c, t) ==
    /\ req[c] = Idle
    /\ Live(t)
    /\ token' = [token EXCEPT ![t].st = "revoked"]
    /\ req' = [req EXCEPT ![c] = [op |-> "exchange", user |-> token[t].user, root |-> token[t].root,
                                  epoch |-> token[t].epoch, late |-> token[t].late]]
    /\ UNCHANGED <<epoch, member, expired>>

\* It reads the user and the company, ...
ExchangeCheck(c) ==
    /\ req[c].op = "exchange"
    /\ ~(req[c].user \in member /\ expired)
    /\ req' = [req EXCEPT ![c].op = "renew"]
    /\ UNCHANGED <<token, epoch, member, expired>>

\* ... ends a session whose company has expired, ...
ExchangeEnds(c) ==
    /\ req[c].op = "exchange"
    /\ req[c].user \in member /\ expired
    /\ req' = [req EXCEPT ![c] = Idle]
    /\ UNCHANGED <<token, epoch, member, expired>>

\* ... or inserts the session's next token. It is as late as the session, or becomes so.
Renew(c, t) ==
    /\ req[c].op = "renew"
    /\ token[t] = Absent
    /\ token' = [token EXCEPT ![t] =
                   [st |-> "live", user |-> req[c].user, root |-> req[c].root,
                    epoch |-> req[c].epoch,
                    late |-> req[c].late \/ req[c].epoch # epoch[req[c].user]]]
    /\ req' = [req EXCEPT ![c] = Idle]
    /\ UNCHANGED <<epoch, member, expired>>

\* revokeRefreshToken (logout); a JWT that has expired with its row is not accepted.
Logout(t) ==
    /\ Live(t)
    /\ token' = [token EXCEPT ![t].st = "revoked"]
    /\ UNCHANGED <<epoch, member, expired, req>>

\* The seven days of a token pass.
Lapse(t) ==
    /\ Live(t)
    /\ token' = [token EXCEPT ![t].st = "lapsed"]
    /\ UNCHANGED <<epoch, member, expired, req>>

\* A slip: nothing is revoked.
RevokeNone(us) == token' = token

\* Every token of these users that is not revoked is revoked.
RevokeAll(us) ==
    token' = [t \in Tokens |->
                IF token[t] # Absent /\ token[t].user \in us THEN [token[t] EXCEPT !.st = "revoked"]
                ELSE token[t]]

\* changePassword reads the user and verifies the current password, ...
ChangeCheck(c, u) ==
    /\ req[c] = Idle
    /\ req' = [req EXCEPT ![c] = [op |-> "change", user |-> u]]
    /\ UNCHANGED <<token, epoch, member, expired>>

\* ... writes the new one and revokes the tokens in one transaction, and then opens a session.
ChangeCommit(c) ==
    /\ req[c].op = "change"
    /\ LET u == req[c].user
       IN /\ epoch[u] < MaxEpoch
          /\ epoch' = [epoch EXCEPT ![u] = @ + 1]
          /\ RevokeAll({u})
          /\ req' = [req EXCEPT ![c] = [op |-> "open", user |-> u, epoch |-> epoch[u] + 1]]
    /\ UNCHANGED <<member, expired>>

\* rotateCompanyToken replaces the link and the passwords of the company's users, and revokes.
RotateCompanyToken ==
    /\ \A u \in member : epoch[u] < MaxEpoch
    /\ epoch' = [u \in Users |-> IF u \in member THEN epoch[u] + 1 ELSE epoch[u]]
    /\ RevokeAll(member)
    /\ UNCHANGED <<member, expired, req>>

\* deleteCompany leaves its users without a company.
DeleteCompany ==
    /\ member # {}
    /\ member' = {}
    /\ UNCHANGED <<token, epoch, expired, req>>

\* The company's expiry comes, or updateCompany moves it.
ExpiryPassesOrMoves ==
    /\ expired' = ~expired
    /\ UNCHANGED <<token, epoch, member, req>>

\* The process stops, the database fails or the client goes: the request ends where it is.
Lost(c) ==
    /\ req[c] # Idle
    /\ req' = [req EXCEPT ![c] = Idle]
    /\ UNCHANGED <<token, epoch, member, expired>>

Next ==
    \/ RotateCompanyToken \/ DeleteCompany \/ ExpiryPassesOrMoves
    \/ \E t \in Tokens : Logout(t) \/ Lapse(t)
    \/ \E c \in Clients :
         \/ ExchangeCheck(c) \/ ExchangeEnds(c) \/ ChangeCommit(c) \/ Lost(c)
         \/ \E u \in Users : LoginCheck(c, u) \/ LinkCheck(c, u) \/ ChangeCheck(c, u)
         \/ \E t \in Tokens : Open(c, t) \/ ExchangeRevoke(c, t) \/ Renew(c, t)

Spec == Init /\ [][Next]_vars

-----------------------------------------------------------------------------
\* A session has one live refresh token at most, however its client retries an exchange,
\* overlaps it with another, or loses the reply ("only the first UPDATE ... wins").
OneLivePerSession ==
    \A t, u \in Tokens : Live(t) /\ Live(u) /\ token[t].root = token[u].root => t = u

\* Once the password of a user is replaced, by the user or by rotateCompanyToken, no session
\* opened before goes on, but those that had no row in the table at that moment: their login
\* or their exchange was under way.
OldSessionsEnd ==
    \A t \in Tokens : Live(t) /\ ~token[t].late => token[t].epoch = epoch[token[t].user]
=============================================================================
