------------------------------ MODULE Issuers ------------------------------
(* What mini-auth-security issues and later recognises: the codes and      *)
(* tokens of the OAuth 2 server (oauth2_server.c), the sessions and        *)
(* tickets of the single sign-on model (sso_model.c) and JSON web tokens   *)
(* (jwt_auth.c).  Random strings are the numbers of the generator's draws. *)
EXTENDS Naturals, Sequences

CONSTANTS None, Clients, Confidential, Redirects, Users, Providers, Issuer, Audiences,
          CodeTTL, AccessTTL, RefreshTTL, SessionTTL, TicketTTL,
          MaxTokens, MaxTickets, MaxDraws, MaxTime

VARIABLES clients,   \* registered OAuth clients
          codes, tokens,
          draws,     \* random strings drawn
          gone,      \* access and refresh tokens replaced or revoked (history)
          sps,       \* registered service providers, and whether they are trusted
          users, ssoSessions, tickets,
          accepted,  \* how often each ticket was accepted (history)
          loggedOut, \* sessions logged out or found expired (history)
          jwt, bytes,
          now
oauthVars == <<clients, codes, tokens, draws, gone>>
ssoVars == <<sps, users, ssoSessions, tickets, accepted, loggedOut>>
jwtVars == <<jwt, bytes>>
vars == <<oauthVars, ssoVars, jwtVars, now>>

\* The byte strings that the codec is tried on.
Texts == UNION {[1..n -> {0, 97, 255}] : n \in 0..4}

Init ==
    /\ clients = {} /\ codes = << >> /\ tokens = << >> /\ draws = 0 /\ gone = {}
    /\ sps = << >> /\ users = {} /\ ssoSessions = << >> /\ tickets = << >> /\ accepted = << >> /\ loggedOut = {}
    /\ jwt = None /\ bytes \in Texts /\ now = 0
Clock == now < MaxTime /\ now' = now + 1 /\ UNCHANGED <<oauthVars, ssoVars, jwtVars>>

----------------------------------------------------------------------------
\* The OAuth 2 server.
RegisterClient(c) ==
    /\ c \notin clients
    /\ clients' = clients \cup {c}
    /\ UNCHANGED <<codes, tokens, draws, gone, ssoVars, jwtVars, now>>
ValidateClient(c, secret) == c \in clients /\ (c \in Confidential => secret)

\* The client is validated with an empty secret: confidential clients get no code.
CreateAuthCode(c, r, u) ==
    /\ Len(codes) < MaxTokens /\ ValidateClient(c, FALSE)
    /\ codes' = Append(codes, [client |-> c, redirect |-> r, user |-> u, expires |-> now + CodeTTL, used |-> FALSE])
    /\ UNCHANGED <<clients, tokens, draws, gone, ssoVars, jwtVars, now>>

\* A full table refuses the token: the store returns an error.
StoreToken(c, u, k) ==
    IF Len(tokens) < MaxTokens
    THEN /\ draws + 2 <= MaxDraws /\ draws' = draws + 2
         /\ tokens' = Append(tokens, [access |-> draws + 1, refresh |-> draws + 2, client |-> c, user |-> u, code |-> k,
                                      until |-> now + AccessTTL, refreshUntil |-> now + RefreshTTL, revoked |-> FALSE])
    ELSE UNCHANGED <<tokens, draws>>
ExchangeCode(k, c, secret, r) ==
    /\ ValidateClient(c, secret)
    /\ ~codes[k].used /\ now <= codes[k].expires /\ codes[k].client = c /\ r \in {None, codes[k].redirect}
    /\ codes' = [codes EXCEPT ![k].used = TRUE]
    /\ StoreToken(c, codes[k].user, k)
    /\ UNCHANGED <<clients, gone, ssoVars, jwtVars, now>>
ClientCredentials(c, secret) ==
    /\ ValidateClient(c, secret) /\ Len(tokens) < MaxTokens
    /\ StoreToken(c, None, 0)
    /\ UNCHANGED <<clients, codes, gone, ssoVars, jwtVars, now>>

FindRefresh(v) == {t \in 1..Len(tokens) : tokens[t].refresh = v}
FindAccess(v) == {t \in 1..Len(tokens) : tokens[t].access = v}
RefreshToken(v, c, secret, rotate) ==
    /\ ValidateClient(c, secret) /\ draws + 2 <= MaxDraws
    /\ \E t \in FindRefresh(v) :
         LET old == tokens[t] IN
         /\ ~old.revoked /\ now <= old.refreshUntil /\ old.client = c
         /\ tokens' = [tokens EXCEPT ![t] =
               IF rotate THEN [old EXCEPT !.until = now + AccessTTL, !.access = draws + 1,
                                          !.refresh = draws + 2, !.refreshUntil = now + RefreshTTL]
               ELSE [old EXCEPT !.until = now + AccessTTL, !.access = draws + 1]]
         /\ draws' = IF rotate THEN draws + 2 ELSE draws + 1
         /\ gone' = gone \cup {old.access} \cup (IF rotate THEN {old.refresh} ELSE {})
    /\ UNCHANGED <<clients, codes, ssoVars, jwtVars, now>>
ValidateAccessToken(v) == \E t \in FindAccess(v) : ~tokens[t].revoked /\ now <= tokens[t].until
RevokeToken(v) ==
    /\ \E t \in FindAccess(v) :
         /\ tokens' = [tokens EXCEPT ![t].revoked = TRUE]
         /\ gone' = gone \cup {tokens[t].access, tokens[t].refresh}
    /\ UNCHANGED <<clients, codes, draws, ssoVars, jwtVars, now>>

OAuthNext ==
    \/ \E c \in Clients : RegisterClient(c)
    \/ \E c \in Clients, r \in Redirects, u \in Users : CreateAuthCode(c, r, u)
    \/ \E k \in 1..Len(codes), c \in Clients, s \in BOOLEAN, r \in Redirects \cup {None} : ExchangeCode(k, c, s, r)
    \/ \E c \in Clients, s \in BOOLEAN : ClientCredentials(c, s)
    \/ \E v \in 1..draws, c \in Clients, s, rotate \in BOOLEAN : RefreshToken(v, c, s, rotate)
    \/ \E v \in 1..draws : RevokeToken(v)
    \/ Clock

\* oauth2_server.c: a code buys at most one token, for the client and the user it was given for,
\* and a token that was replaced or revoked is accepted nowhere again.
OAuthSound ==
    /\ \A s, t \in 1..Len(tokens) : tokens[s].code = tokens[t].code /\ tokens[s].code > 0 => s = t
    /\ \A t \in 1..Len(tokens) : LET k == tokens[t].code IN
          k > 0 => codes[k].used /\ codes[k].client = tokens[t].client /\ codes[k].user = tokens[t].user
    /\ \A v \in gone : ~ValidateAccessToken(v) /\ \A t \in FindRefresh(v) : tokens[t].revoked

----------------------------------------------------------------------------
\* Single sign-on.
RegisterSp(e) ==
    /\ e \notin DOMAIN sps
    /\ sps' = [x \in DOMAIN sps \cup {e} |-> IF x = e THEN FALSE ELSE sps[x]]
    /\ UNCHANGED <<users, ssoSessions, tickets, accepted, loggedOut, oauthVars, jwtVars, now>>
EstablishTrust(e) ==
    /\ e \in DOMAIN sps
    /\ sps' = [sps EXCEPT ![e] = TRUE]
    /\ UNCHANGED <<users, ssoSessions, tickets, accepted, loggedOut, oauthVars, jwtVars, now>>
CreateUser(u) ==
    /\ u \notin users /\ users' = users \cup {u}
    /\ UNCHANGED <<sps, ssoSessions, tickets, accepted, loggedOut, oauthVars, jwtVars, now>>
IsTrusted(e) == e \in DOMAIN sps /\ sps[e]

AuthenticateUser(u, e) ==
    /\ IsTrusted(e) /\ u \in users /\ Len(ssoSessions) < MaxTickets
    /\ ssoSessions' = Append(ssoSessions, [user |-> u, expires |-> now + SessionTTL, valid |-> TRUE])
    /\ UNCHANGED <<sps, users, tickets, accepted, loggedOut, oauthVars, jwtVars, now>>
\* Neither the user nor the session is looked up.
CreateTicket(u, e, s) ==
    /\ IsTrusted(e) /\ Len(tickets) < MaxTickets
    /\ tickets' = Append(tickets, [user |-> u, sp |-> e, session |-> s, expires |-> now + TicketTTL, consumed |-> FALSE])
    /\ accepted' = Append(accepted, 0)
    /\ UNCHANGED <<sps, users, ssoSessions, loggedOut, oauthVars, jwtVars, now>>
ValidateTicket(k, e) ==
    /\ ~tickets[k].consumed /\ now <= tickets[k].expires /\ e \in {None, tickets[k].sp}
    /\ tickets' = [tickets EXCEPT ![k].consumed = TRUE]
    /\ accepted' = [accepted EXCEPT ![k] = @ + 1]
    /\ UNCHANGED <<sps, users, ssoSessions, loggedOut, oauthVars, jwtVars, now>>
\* Validation of a session past its time, and a log-out; the tickets of the session stay as they are.
EndSession(s) ==
    /\ ssoSessions' = [ssoSessions EXCEPT ![s].valid = FALSE]
    /\ loggedOut' = loggedOut \cup {s}
    /\ UNCHANGED <<sps, users, tickets, accepted, oauthVars, jwtVars, now>>
ValidateSsoSession(s) == ssoSessions[s].valid /\ now > ssoSessions[s].expires /\ EndSession(s)

SsoNext ==
    \/ \E e \in Providers : RegisterSp(e) \/ EstablishTrust(e)
    \/ \E u \in Users : CreateUser(u)
    \/ \E u \in Users, e \in Providers : AuthenticateUser(u, e)
    \/ \E u \in Users, e \in Providers, s \in 1..Len(ssoSessions) : CreateTicket(u, e, s)
    \/ \E k \in 1..Len(tickets), e \in Providers \cup {None} : ValidateTicket(k, e)
    \/ \E s \in 1..Len(ssoSessions) : ValidateSsoSession(s) \/ EndSession(s)
    \/ Clock

\* sso_model.c: a ticket is for a trusted provider and is accepted at most once, and a session that
\* was logged out or found expired stays refused.
SsoSound ==
    /\ \A k \in 1..Len(tickets) : IsTrusted(tickets[k].sp) /\ accepted[k] = (IF tickets[k].consumed THEN 1 ELSE 0)
    /\ \A s \in loggedOut : ~ssoSessions[s].valid

----------------------------------------------------------------------------
\* JSON web tokens.  A byte string is regrouped from 8-bit to 6-bit digits and back.
At(s, i) == IF i <= Len(s) THEN s[i] ELSE 0
Base64Encode(s) ==
    LET triple(g) == At(s, 3 * g + 1) * 65536 + At(s, 3 * g + 2) * 256 + At(s, 3 * g + 3)
        groups == (Len(s) + 2) \div 3
        pad == (3 - (Len(s) % 3)) % 3
    IN  [k \in 1..4 * groups - pad |-> (triple((k - 1) \div 4) \div 64 ^ (3 - ((k - 1) % 4))) % 64]
Base64Decode(d) ==
    LET triple(g) == At(d, 4 * g + 1) * 262144 + At(d, 4 * g + 2) * 4096 + At(d, 4 * g + 3) * 64 + At(d, 4 * g + 4)
        groups == (Len(d) + 3) \div 4
        pad == (4 - (Len(d) % 4)) % 4
    IN  [k \in 1..3 * groups - pad |-> (triple((k - 1) \div 3) \div 256 ^ (2 - ((k - 1) % 3))) % 256]

\* The claims that validation reads; signed tells what the key's signature covers, and is None
\* for a token without that part, which decoding accepts as it is.  lapsed is history: the token
\* comes from one that was refreshed after it had expired, or without its signature.
Claims(aud, exp) == [iss |-> Issuer, aud |-> aud, iat |-> now, nbf |-> now, exp |-> exp]
Encode(c, lapsed) == [payload |-> c, signed |-> c, lapsed |-> lapsed]
Decodes(t) == t.signed \in {None, t.payload}
ValidateExpiry(c) == (c.exp > 0 => now <= c.exp) /\ (c.nbf > 0 => now >= c.nbf)
ValidateIssuer(c, iss) == iss = None \/ c.iss = iss
ValidateAudience(c, aud) == aud = None \/ c.aud = aud
ValidateAll(t, iss, aud) ==
    Decodes(t) /\ ValidateExpiry(t.payload) /\ ValidateIssuer(t.payload, iss) /\ ValidateAudience(t.payload, aud)
Issue(aud, exp) == jwt = None /\ jwt' = Encode(Claims(aud, exp), FALSE) /\ UNCHANGED <<bytes, oauthVars, ssoVars, now>>
\* A refresh does not look at the old expiry and keeps the not-before time.
RefreshJwt(exp) ==
    /\ jwt # None /\ Decodes(jwt)
    /\ jwt' = Encode([jwt.payload EXCEPT !.exp = exp, !.iat = now],
                     jwt.lapsed \/ jwt.signed = None \/ ~ValidateExpiry(jwt.payload))
    /\ UNCHANGED <<bytes, oauthVars, ssoVars, now>>
\* The token loses its last part on its way.
CutShort == jwt # None /\ jwt' = [jwt EXCEPT !.signed = None] /\ UNCHANGED <<bytes, oauthVars, ssoVars, now>>

JwtNext == Clock \/ CutShort \/ \E exp \in 0..MaxTime : RefreshJwt(exp) \/ \E aud \in Audiences : Issue(aud, exp)

\* jwt_auth.c: decoding gives back the bytes that were encoded; a token with its signature that this
\* engine issued, or refreshed while it was valid, is accepted, by its own audience or by one that
\* names none, exactly until it expires, and with any other claims the same signature is refused.
\* Nothing is claimed of a token without a signature, which is not verified, and of one refreshed
\* after its time.
JwtSound ==
    /\ Base64Decode(Base64Encode(bytes)) = bytes
    /\ jwt # None /\ ~jwt.lapsed /\ jwt.signed # None => \A aud \in Audiences \cup {None} :
          /\ ValidateAll(jwt, Issuer, aud) <=>
                aud \in {None, jwt.payload.aud} /\ (jwt.payload.exp = 0 \/ now <= jwt.payload.exp)
          /\ \A exp \in 0..MaxTime, a \in Audiences : LET t == [jwt EXCEPT !.payload.exp = exp, !.payload.aud = a] IN
                t # jwt => ~ValidateAll(t, Issuer, aud)
=============================================================================
