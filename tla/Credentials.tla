---------------------------- MODULE Credentials -----------------------------
(***************************************************************************)
(* API keys and WebSocket tickets (internal/api/auth.go, keys.go,          *)
(* ws_ticket.go).  An administrator mints and revokes keys; a key with the *)
(* read scope mints short-lived tickets, each for one stream, that open a  *)
(* WebSocket without the key; a server started without a configured secret *)
(* signs with a random one.  Secrets and hashes are identities: a key or a *)
(* ticket is only presented by who was given it.  The clock counts half    *)
(* seconds, because a ticket carries its expiry in whole seconds.          *)
(***************************************************************************)
EXTENDS Integers, FiniteSets

CONSTANTS KeyIds,
          Scopes,          \* the scopes asked for each key
          Prefixes,        \* lookup prefixes the entropy source may draw
          Streams,         \* runs, and the firehose
          TTL,             \* TicketTTL in half seconds
          KeyLife,         \* the ttl asked of a key, in half seconds
          CreateAttempts,  \* createKeyAttempts
          MaxTime,         \* bound: values of the clock
          MaxTickets,      \* bound: tickets minted
          Never

VARIABLE cred

NoRequest == [pc |-> "none"]

Init == cred = [now |-> 0, keys |-> {}, secret |-> 0, tickets |-> {},
                request |-> NoRequest, conn |-> NoRequest]

Tick ==
    /\ cred.now < MaxTime
    /\ cred' = [cred EXCEPT !.now = @ + 1, !.conn = NoRequest]

\* A scope of the vocabulary, or a set with admin, which implies it.
HasScope(k, want) == want \in k.scopes \/ "admin" \in k.scopes

\* The unique constraint on the prefix refuses an insert.
Taken(p) == \E k \in cred.keys : k.prefix = p

\* handleCreateKey: draw a key until its prefix is free, at most
\* CreateAttempts times; a ttl becomes an expiry by the server's clock.
CreateKey(i) ==
    \E life \in {Never, KeyLife},
       draws \in UNION {[1..n -> Prefixes] : n \in 1..CreateAttempts} :
        LET last  == Cardinality(DOMAIN draws)
        IN  /\ i \notin {k.id : k \in cred.keys}
            /\ \A d \in 1..(last - 1) : Taken(draws[d])
            /\ IF Taken(draws[last])
               THEN last = CreateAttempts /\ UNCHANGED cred
               ELSE cred' = [cred EXCEPT !.keys = @ \cup
                       {[id |-> i, prefix |-> draws[last], scopes |-> Scopes[i], revoked |-> Never,
                         expires |-> IF life = Never THEN Never ELSE cred.now + life]}]

\* handleRevokeKey: the first revocation wins, a second changes nothing.
Revoke(i) ==
    \E k \in cred.keys :
        /\ k.id = i
        /\ cred' = [cred EXCEPT !.keys = (@ \ {k}) \cup
                      {IF k.revoked = Never THEN [k EXCEPT !.revoked = cred.now] ELSE k}]

Before(t, limit) == IF limit = Never THEN TRUE ELSE t < limit

\* authenticate, after the prefix lookup and the hash comparison.
Live(k) == k.revoked = Never /\ Before(cred.now, k.expires)

\* POST .../ws-ticket arrives: authenticate and require the read scope.
\* Rate limiting, and for a run ticket the read of the run, come before the
\* ticket is minted.
Authenticate(s) ==
    \E k \in cred.keys :
        /\ cred.request.pc = "none"
        /\ Cardinality(cred.tickets) < MaxTickets
        /\ Live(k)
        /\ HasScope(k, "read")
        /\ cred' = [cred EXCEPT !.request =
                      [pc |-> "authenticated", key |-> k.id, at |-> cred.now, stream |-> s]]

\* A ticket's expiry rounded up to whole seconds.
WholeSecondsUp(t) == ((t + 1) \div 2) * 2

\* exp.Unix(): whole seconds, rounded down.
WholeSeconds(t) == (t \div 2) * 2

\* mintTicket: the stream, the key, the expiry, signed with the secret.
Mint ==
    /\ cred.request.pc = "authenticated"
    /\ cred' = [cred EXCEPT
         !.request = NoRequest,
         !.tickets = @ \cup {[stream |-> cred.request.stream, key |-> cred.request.key,
                              authAt |-> cred.request.at, mintAt |-> cred.now,
                              expires |-> WholeSeconds(cred.now + TTL),
                              secret |-> cred.secret]}]

\* verifyTicketSigned, then the audience and the run: the signature, the
\* expiry, and the stream the ticket was minted for.
Verify(t, s) ==
    /\ t.secret = cred.secret
    /\ cred.now < t.expires
    /\ t.stream = s

\* The connection opened last at this time, and on what authority.
Open(by, key, granted, s, authAt, mintAt) ==
    cred' = [cred EXCEPT !.conn =
                [pc |-> "open", by |-> by, key |-> key, granted |-> granted, stream |-> s,
                 authAt |-> authAt, mintAt |-> mintAt]]

\* requireReadOrTicket, bearer path: any stream, with a live key that may read.
ConnectWithKey(s) ==
    \E k \in cred.keys :
        /\ Live(k)
        /\ HasScope(k, "read")
        /\ Open("key", k.id, s, s, cred.now, cred.now)

\* Ticket path: the connection gets read on its one stream, under the minting
\* key's id; the key itself is not looked at again.
Connect(t, s) ==
    /\ Verify(t, s)
    /\ Open("ticket", t.key, t.stream, s, t.authAt, t.mintAt)

\* The server restarts with a new random secret.
Restart ==
    /\ cred.secret = 0
    /\ cred' = [cred EXCEPT !.secret = 1, !.request = NoRequest]

Next ==
    \/ Tick
    \/ \E i \in KeyIds : CreateKey(i) \/ Revoke(i)
    \/ \E s \in Streams : Authenticate(s) \/ ConnectWithKey(s)
    \/ Mint
    \/ \E t \in cred.tickets, s \in Streams : Connect(t, s)
    \/ Restart

Spec == Init /\ [][Next]_cred

-----------------------------------------------------------------------------
KeyOf(c) == CHOOSE k \in cred.keys : k.id = c.key

\* How long after its key's end a connection may still be opened: a ticket
\* lives for TTL after the request that minted it, which the end may overtake.
Lag(c) == IF c.by = "key" THEN 1 ELSE TTL + (c.mintAt - c.authAt)

(* A key's access ends: nothing is opened with a key that is revoked or    *)
(* expired, and a ticket minted with it opens its own stream, and that for *)
(* less than TTL and the duration of the minting request after the key's   *)
(* end; nothing is opened for a key without the read scope (authenticate,  *)
(* mintTicket, verifyTicketSigned).  ADR-018:270 has the lag bounded by    *)
(* the TTL; a connection that is open stays open.                          *)
AccessEnds ==
    LET c == cred.conn
        k == KeyOf(c)
    IN  c.pc = "open" =>
        /\ c.stream = c.granted
        /\ HasScope(k, "read")
        /\ \A end \in {k.revoked, k.expires} : end = Never \/ cred.now - end < Lag(c)

(* No two keys share a lookup prefix, so the one row authenticate reads is *)
(* the only candidate, and a created key is found by it (handleCreateKey). *)
PrefixesDistinct ==
    \A j, k \in cred.keys : j.prefix = k.prefix => j = k

(* Revocation is permanent and keeps its first time, and no key is taken   *)
(* away or given other scopes or another expiry (RevokeAPIKey).            *)
RevocationKept ==
    \A k \in cred.keys :
        \E n \in cred'.keys :
            /\ [n EXCEPT !.revoked = k.revoked] = k
            /\ k.revoked # Never => n.revoked = k.revoked
=============================================================================
