------------------------------ MODULE WebProofs ------------------------------
(***************************************************************************)
(* The two kinds of web server.                                            *)
(*                                                                         *)
(* The sessions and the own time of a contestant, for any number of web    *)
(* servers, browsers and tasks, any contest, any life of a cached row and  *)
(* any time a row takes to read: sessions that must end do, official       *)
(* submissions lie inside the contestant's own time, and time alone never  *)
(* reopens a contest.                                                      *)
(*                                                                         *)
(* And the rankings, for any number of ranking servers, names, rows and    *)
(* pages: what they show was computed together, since every number the     *)
(* pusher gives out is of one board.                                       *)
(***************************************************************************)
EXTENDS ContestWeb, RankingPush, TLAPS

Row == [starting : Int, extra : Nat, nonce : Nat, disabled : Int]

\* What a browser may ask for.
Submits == {<<"submit", t>> : t \in Tasks}

What == {<<"page">>, <<"start">>} \cup Submits \cup {<<"token", i>> : i \in Nat}

\* The shape of the state: what was read holds a whole row, and the nonce
\* counts its changes.
Shape ==
    /\ clock \in Nat
    /\ Window(rules) /\ bounds \in Bounds
    /\ row \in Row
    /\ superseded \in Seq(Nat) /\ row.nonce = Len(superseded)
    /\ cache \in [Servers -> [row : Row, loaded : Nat] \cup {Nothing}]
    /\ cookie \in [Clients -> Int]
    /\ editor = Idle \/ (editor.pc = "read" /\ editor.starting \in Int)
    /\ rows \in Seq([task : Tasks, at : Nat, official : BOOLEAN])

\* A request is nothing, a login, a row being read, or one that was let in.
LoginOf(r) == [pc : {"login"}, server : Servers, nonce : 0..r.nonce]

LoadingAt(now) == [pc : {"loading"}, server : Servers, part : Row, at : 0..now]

HeldAt(now) ==
    [pc : {"accepted"}, server : Servers, what : What, part : Row, at : 0..now]
      \cup [pc : {"storing"}, server : Servers, what : Submits, part : Row, at : 0..now]

Requested ==
    req \in [Clients -> {Idle} \cup LoginOf(row) \cup LoadingAt(clock) \cup HeldAt(clock)]

\* A row that was read at an instant, give or take slack: when its nonce is
\* no longer the one of row r, or its user was disabled since, that came later.
Read(r, ends, part, at, slack) ==
    /\ part.nonce <= r.nonce
    /\ part.nonce < r.nonce => at <= ends[part.nonce + 1] + slack
    /\ part.disabled = Unset /\ r.disabled # Unset => at <= r.disabled + slack

\* What a cache, a running read and an accepted request hold.
CacheInTime ==
    \A s \in Servers : cache[s] # Nothing =>
        Read(row, superseded, cache[s].row, cache[s].loaded, MaxLoad) /\ cache[s].loaded <= clock

RequestsInTime ==
    \A c \in Clients :
        /\ req[c].pc = "loading" =>
              Read(row, superseded, req[c].part, req[c].at, 0) /\ clock - req[c].at <= MaxLoad
        /\ req[c].pc \in {"accepted", "storing"} =>
              /\ Read(row, superseded, req[c].part, req[c].at, MaxLoad + CacheTTL - 1)
              /\ req[c].part.disabled = Unset

\* No cookie is ahead of the row, and in a single-login contest one browser
\* at most holds the nonce of the row.
Current == (\A c \in Clients : cookie[c] <= row.nonce) /\ OneSession

SessionInv == Shape /\ Requested /\ CacheInTime /\ RequestsInTime /\ Current

-----------------------------------------------------------------------------

\* The parameters are times.
LEMMA Times == CacheTTL \in Nat \ {0} /\ MaxLoad \in Nat /\ Unset \in Int /\ Unset < 0
BY WebAssumption DEF Unset

\* The row changed, at an instant, as the code changes it: the nonce goes up
\* by one and the instant is noted, or stays; the user is disabled or not.
Later(r, ends, now, q, ends2) ==
    /\ \/ q.nonce = r.nonce /\ ends2 = ends
       \/ q.nonce = r.nonce + 1 /\ ends2 = Append(ends, now)
    /\ q.disabled \in {r.disabled, Unset, now}

\* What was read in time was still read in time when the row changed.
LEMMA ReadLater ==
    ASSUME NEW r \in Row, NEW ends \in Seq(Nat), r.nonce = Len(ends), NEW now \in Nat,
           NEW q \in Row, NEW ends2, Later(r, ends, now, q, ends2),
           NEW part \in Row, NEW at \in Nat, at <= now, NEW slack \in Nat,
           Read(r, ends, part, at, slack)
    PROVE  Read(q, ends2, part, at, slack)
<1>1. part.nonce \in Nat /\ r.nonce \in Nat /\ q.nonce \in Nat /\ q.disabled \in Int /\ r.disabled \in Int
  BY DEF Row
<1>2. CASE q.nonce = r.nonce /\ ends2 = ends
  BY <1>1, <1>2, Times DEF Later, Read
<1>3. CASE q.nonce = r.nonce + 1 /\ ends2 = Append(ends, now)
  <2>1. part.nonce <= q.nonce
    BY <1>1, <1>3 DEF Read
  <2>2. ASSUME part.nonce < q.nonce PROVE at <= ends2[part.nonce + 1] + slack
    <3>1. CASE part.nonce < r.nonce
      <4>0. part.nonce + 1 \in 1..Len(ends)
        BY <1>1, <3>1
      <4>1. ends2[part.nonce + 1] = ends[part.nonce + 1]
        BY <1>3, <4>0
      <4>2. ends[part.nonce + 1] \in Nat
        BY <4>0
      <4> QED BY <4>1, <4>2, <3>1 DEF Read
    <3>2. CASE part.nonce = r.nonce
      <4>1. ends2[part.nonce + 1] = now
        BY <1>1, <1>3, <3>2
      <4> QED BY <4>1
    <3> QED BY <3>1, <3>2, <2>2, <1>1, <1>3
  <2>3. part.disabled = Unset /\ q.disabled # Unset => at <= q.disabled + slack
    BY <1>1, Times DEF Later, Read
  <2> QED BY <2>1, <2>2, <2>3 DEF Read
<1> QED BY <1>2, <1>3 DEF Later

\* What a browser asks for is one of the requests.
LEMMA RequestsType == bounds \in Bounds /\ rows \in Seq([task : Tasks, at : Nat, official : BOOLEAN])
                        => Requests \subseteq What
<1> SUFFICES ASSUME bounds \in Bounds, rows \in Seq([task : Tasks, at : Nat, official : BOOLEAN]),
                    NEW w \in Requests
             PROVE  w \in What
  OBVIOUS
<1>1. PICK kind \in bounds.kinds :
        w \in CASE kind = "page" -> {<<"page">>}
                [] kind = "start" -> {<<"start">>}
                [] kind = "submit" -> {<<"submit", t>> : t \in Tasks}
                [] kind = "token" -> {<<"token", i>> : i \in DOMAIN rows}
  BY Zenon DEF Requests
<1>2. kind \in {"page", "start", "submit", "token"}
  BY DEF Bounds
<1>3. DOMAIN rows \subseteq Nat
  OBVIOUS
<1>4. CASE kind = "page"
  BY <1>1, <1>4 DEF What
<1>5. CASE kind = "start"
  BY <1>1, <1>5 DEF What
<1>6. CASE kind = "submit"
  BY <1>1, <1>6 DEF What, Submits
<1>7. CASE kind = "token"
  BY <1>1, <1>7, <1>3 DEF What
<1> QED
  BY <1>2, <1>4, <1>5, <1>6, <1>7

-----------------------------------------------------------------------------

\* Nothing is cached or asked at first.
LEMMA SessionInit == Init => SessionInv
<1> SUFFICES ASSUME Init PROVE SessionInv
  OBVIOUS
<1> USE Times
<1>1. PICK x \in Scenarios :
        /\ clock = 0
        /\ rules = x.rules /\ bounds = x.bounds
        /\ row = [starting |-> Unset, extra |-> 0, nonce |-> 0, disabled |-> Unset]
        /\ superseded = <<>>
        /\ cache = [s \in Servers |-> Nothing]
        /\ cookie = [c \in Clients |-> IF x.loggedIn THEN 0 ELSE Unset]
        /\ req = [c \in Clients |-> Idle]
        /\ editor = Idle
        /\ rows = <<>>
  BY Zenon DEF Init
<1>2. Window(rules) /\ bounds \in Bounds /\ (rules.single => ~x.loggedIn)
  BY <1>1, WebAssumption, Zenon
<1>3. row \in Row /\ row.nonce = 0
  BY <1>1 DEF Row
<1>4. Shape
  BY <1>1, <1>2, <1>3 DEF Shape
<1>5. Requested
  BY <1>1 DEF Requested
<1>6. CacheInTime /\ RequestsInTime
  BY <1>1 DEF CacheInTime, RequestsInTime, Idle
<1>7. Current
  BY <1>1, <1>2, <1>3 DEF Current, OneSession
<1> QED
  BY <1>4, <1>5, <1>6, <1>7 DEF SessionInv

\* Steps that forget what was read, or keep it while the row changes.
LEMMA ReadsKept ==
    ASSUME SessionInv, clock' = clock, row' \in Row, superseded' \in Seq(Nat),
           Later(row, superseded, clock, row', superseded'),
           cache' \in [Servers -> [row : Row, loaded : Nat] \cup {Nothing}],
           \A s \in Servers : cache'[s] \in {cache[s], Nothing},
           req' \in [Clients -> {Idle} \cup LoginOf(row') \cup LoadingAt(clock) \cup HeldAt(clock)],
           \A c \in Clients : req'[c] \in {req[c], Idle} \/ req'[c].pc = "login"
    PROVE  Requested' /\ CacheInTime' /\ RequestsInTime'
<1> USE Times
<1>0. /\ clock \in Nat /\ row \in Row /\ superseded \in Seq(Nat) /\ row.nonce = Len(superseded)
      /\ cache \in [Servers -> [row : Row, loaded : Nat] \cup {Nothing}]
  BY DEF SessionInv, Shape
<1>1. Requested'
  BY DEF Requested
<1>2. ASSUME NEW s \in Servers, cache'[s] # Nothing
      PROVE  Read(row', superseded', cache'[s].row, cache'[s].loaded, MaxLoad) /\ cache'[s].loaded <= clock'
  <2>1. cache'[s] = cache[s] /\ cache[s] \in [row : Row, loaded : Nat]
    BY <1>0, <1>2
  <2>2. Read(row, superseded, cache[s].row, cache[s].loaded, MaxLoad) /\ cache[s].loaded <= clock
    BY <1>2, <2>1 DEF SessionInv, CacheInTime
  <2>3. Read(row', superseded', cache[s].row, cache[s].loaded, MaxLoad)
    BY <1>0, <2>1, <2>2, ReadLater
  <2> QED BY <2>1, <2>2, <2>3
<1>3. CacheInTime'
  BY <1>2 DEF CacheInTime
<1>4. ASSUME NEW c \in Clients, req'[c].pc = "loading"
      PROVE  Read(row', superseded', req'[c].part, req'[c].at, 0) /\ clock' - req'[c].at <= MaxLoad
  <2>1. req'[c] = req[c]
    BY <1>4 DEF Idle
  <2>2. req[c] \in LoadingAt(clock)
    BY <1>4, <2>1 DEF Idle, LoginOf, HeldAt
  <2>3. req[c].part \in Row /\ req[c].at \in Nat /\ req[c].at <= clock
    BY <2>2, <1>0 DEF LoadingAt
  <2>4. Read(row, superseded, req[c].part, req[c].at, 0) /\ clock - req[c].at <= MaxLoad
    BY <1>4, <2>1 DEF SessionInv, RequestsInTime
  <2>5. Read(row', superseded', req[c].part, req[c].at, 0)
    BY <1>0, <2>3, <2>4, ReadLater
  <2> QED BY <2>1, <2>4, <2>5
<1>5. ASSUME NEW c \in Clients, req'[c].pc \in {"accepted", "storing"}
      PROVE  /\ Read(row', superseded', req'[c].part, req'[c].at, MaxLoad + CacheTTL - 1)
             /\ req'[c].part.disabled = Unset
  <2>1. req'[c] = req[c]
    BY <1>5 DEF Idle
  <2>2. req[c] \in HeldAt(clock)
    BY <1>5, <2>1 DEF Idle, LoginOf, LoadingAt
  <2>3. req[c].part \in Row /\ req[c].at \in Nat /\ req[c].at <= clock
    BY <2>2, <1>0 DEF HeldAt
  <2>4. Read(row, superseded, req[c].part, req[c].at, MaxLoad + CacheTTL - 1) /\ req[c].part.disabled = Unset
    BY <1>5, <2>1 DEF SessionInv, RequestsInTime
  <2>5. Read(row', superseded', req[c].part, req[c].at, MaxLoad + CacheTTL - 1)
    <3>1. MaxLoad + CacheTTL - 1 \in Nat
      OBVIOUS
    <3> QED BY <1>0, <2>3, <2>4, <3>1, ReadLater
  <2> QED BY <2>1, <2>4, <2>5
<1>6. RequestsInTime'
  BY <1>4, <1>5 DEF RequestsInTime
<1> QED
  BY <1>1, <1>3, <1>6

\* Steps that leave the row as it is.
LEMMA SameRow == SessionInv /\ row' = row /\ superseded' = superseded
                   => Later(row, superseded, clock, row', superseded') /\ row' \in Row /\ superseded' \in Seq(Nat)
BY DEF Later, SessionInv, Shape

\* Cookies that stay as they are or are taken away.
LEMMA CookiesKept ==
    ASSUME SessionInv, row'.nonce = row.nonce, rules' = rules, bounds'.failed = bounds.failed,
           cookie' \in [Clients -> Int], \A c \in Clients : cookie'[c] \in {cookie[c], Unset}
    PROVE  Current'
<1> USE Times
<1>1. row \in Row /\ row.nonce \in Nat
  BY DEF SessionInv, Shape, Row
<1>2. \A c \in Clients : cookie'[c] = row'.nonce => cookie[c] = row.nonce
  BY <1>1
<1>3. \A c \in Clients : cookie'[c] <= row'.nonce
  BY <1>1 DEF SessionInv, Current
<1>4. OneSession'
  BY <1>2 DEF SessionInv, Current, OneSession
<1> QED
  BY <1>3, <1>4 DEF Current

\* A row that was read in time, within the life of a cache.
LEMMA AcceptedInTime ==
    ASSUME SessionInv, NEW part \in Row, NEW loaded \in Nat, loaded <= clock, clock - loaded < CacheTTL,
           Read(row, superseded, part, loaded, MaxLoad)
    PROVE  Read(row, superseded, part, clock, MaxLoad + CacheTTL - 1)
<1> USE Times
<1>1. /\ clock \in Nat /\ row.nonce \in Nat /\ row.disabled \in Int /\ part.nonce \in Nat
      /\ superseded \in Seq(Nat) /\ row.nonce = Len(superseded)
  BY DEF SessionInv, Shape, Row
<1>2. part.nonce < row.nonce => superseded[part.nonce + 1] \in Nat
  BY <1>1
<1> QED
  BY <1>1, <1>2 DEF Read

\* withAuth accepts what is read in time, and takes away cookies only.
LEMMA AuthKeeps ==
    ASSUME SessionInv, NEW c \in Clients, NEW s \in Servers, NEW what \in Requests, NEW part \in Row,
           Read(row, superseded, part, clock, MaxLoad + CacheTTL - 1),
           withAuth(c, s, what, part),
           UNCHANGED <<clock, rules, row, superseded, bounds>>
    PROVE  Requested' /\ RequestsInTime' /\ Current' /\ cookie' \in [Clients -> Int]
<1> USE Times
<1>0. /\ clock \in Nat /\ row \in Row /\ bounds \in Bounds /\ cookie \in [Clients -> Int]
      /\ rows \in Seq([task : Tasks, at : Nat, official : BOOLEAN])
  BY DEF SessionInv, Shape
<1>1. what \in What
  BY <1>0, RequestsType
<1> DEFINE held == [pc |-> "accepted", server |-> s, what |-> what, part |-> part, at |-> clock]
<1>2. held \in HeldAt(clock)
  BY <1>0, <1>1 DEF HeldAt
<1>3. req \in [Clients -> {Idle} \cup LoginOf(row) \cup LoadingAt(clock) \cup HeldAt(clock)]
  BY DEF SessionInv, Requested
<1> DEFINE valid == cookie[c] = part.nonce /\ part.disabled = Unset
<1>4. /\ req' = [req EXCEPT ![c] = IF valid /\ Open(what, part, clock) THEN held ELSE Idle]
      /\ cookie' = [cookie EXCEPT ![c] = IF valid THEN @ ELSE Unset]
  BY Zenon DEF withAuth
<1>5. req'[c] = Idle \/ (req'[c] = held /\ part.disabled = Unset)
  BY <1>3, <1>4
<1>6. \A d \in Clients : d # c => req'[d] = req[d]
  BY <1>3, <1>4
<1>7. Requested'
  <2>1. req' \in [Clients -> {Idle} \cup LoginOf(row) \cup LoadingAt(clock) \cup HeldAt(clock)]
    BY <1>2, <1>3, <1>4
  <2> QED BY <2>1 DEF Requested
<1>8. RequestsInTime'
  <2>1. ASSUME NEW d \in Clients, req'[d].pc = "loading"
        PROVE  Read(row', superseded', req'[d].part, req'[d].at, 0) /\ clock' - req'[d].at <= MaxLoad
    <3>1. d # c
      BY <2>1, <1>5 DEF Idle
    <3> QED BY <2>1, <3>1, <1>6 DEF SessionInv, RequestsInTime
  <2>2. ASSUME NEW d \in Clients, req'[d].pc \in {"accepted", "storing"}
        PROVE  /\ Read(row', superseded', req'[d].part, req'[d].at, MaxLoad + CacheTTL - 1)
               /\ req'[d].part.disabled = Unset
    <3>1. CASE d = c
      <4>1. req'[c] = held /\ part.disabled = Unset
        BY <2>2, <3>1, <1>5 DEF Idle
      <4> QED BY <4>1, <3>1
    <3>2. CASE d # c
      BY <2>2, <3>2, <1>6 DEF SessionInv, RequestsInTime
    <3> QED BY <3>1, <3>2
  <2> QED BY <2>1, <2>2 DEF RequestsInTime
<1>9. cookie' \in [Clients -> Int] /\ \A d \in Clients : cookie'[d] \in {cookie[d], Unset}
  BY <1>0, <1>4
<1>10. Current'
  BY <1>9, CookiesKept
<1> QED
  BY <1>7, <1>8, <1>9, <1>10

-----------------------------------------------------------------------------
\* The type of what a step leaves or makes.
LEMMA ShapeKept ==
    ASSUME SessionInv, clock' \in Nat, rules' = rules, bounds' \in Bounds, row' \in Row,
           superseded' \in Seq(Nat), row'.nonce = Len(superseded'),
           cache' \in [Servers -> [row : Row, loaded : Nat] \cup {Nothing}],
           cookie' \in [Clients -> Int],
           editor' = Idle \/ (editor'.pc = "read" /\ editor'.starting \in Int),
           rows' \in Seq([task : Tasks, at : Nat, official : BOOLEAN])
    PROVE  Shape'
BY DEF SessionInv, Shape

\* Time passes: no copy outlives its time.
LEMMA SessionTick == SessionInv /\ Tick => SessionInv'
<1> SUFFICES ASSUME SessionInv, Tick PROVE SessionInv'
  OBVIOUS
<1> USE Times
<1>0. clock \in Nat /\ clock' = clock + 1
  BY DEF SessionInv, Shape, Tick
<1>1. UNCHANGED <<rules, row, superseded, cache, cookie, req, editor, rows, bounds>>
  BY DEF Tick
<1>2. Shape'
  BY <1>0, <1>1 DEF SessionInv, Shape
<1>3. Requested'
  <2>1. LoadingAt(clock) \subseteq LoadingAt(clock') /\ HeldAt(clock) \subseteq HeldAt(clock')
    BY <1>0 DEF LoadingAt, HeldAt
  <2> QED BY <1>1, <2>1 DEF SessionInv, Requested
<1>4. CacheInTime'
  <2>1. \A s \in Servers : cache[s] # Nothing => cache[s].loaded \in Nat
    BY DEF SessionInv, Shape
  <2> QED BY <1>0, <1>1, <2>1 DEF SessionInv, CacheInTime
<1>5. RequestsInTime'
  <2>1. \A c \in Clients : req[c].pc = "loading" => req[c].at \in Nat /\ clock - req[c].at < MaxLoad
    BY DEF SessionInv, Requested, Tick, Idle, LoginOf, LoadingAt, HeldAt
  <2> QED BY <1>0, <1>1, <2>1 DEF SessionInv, RequestsInTime
<1>6. Current'
  BY <1>1 DEF SessionInv, Current, OneSession
<1> QED
  BY <1>2, <1>3, <1>4, <1>5, <1>6 DEF SessionInv

\* An invalidation empties a cache.
LEMMA SessionEvent == ASSUME SessionInv, NEW s \in Servers, onEvent(s) PROVE SessionInv'
<1> USE Times
<1>1. UNCHANGED <<clock, rules, row, superseded, cookie, req, editor, rows, bounds>>
  BY DEF onEvent
<1>2. cache' = [cache EXCEPT ![s] = Nothing]
  BY DEF onEvent
<1>3. /\ cache' \in [Servers -> [row : Row, loaded : Nat] \cup {Nothing}]
      /\ \A z \in Servers : cache'[z] \in {cache[z], Nothing}
  BY <1>2 DEF SessionInv, Shape
<1>4. Shape'
  BY <1>1, <1>3 DEF SessionInv, Shape
<1>5. req' \in [Clients -> {Idle} \cup LoginOf(row') \cup LoadingAt(clock) \cup HeldAt(clock)]
  BY <1>1 DEF SessionInv, Requested
<1>6. Requested' /\ CacheInTime' /\ RequestsInTime'
  BY <1>1, <1>3, <1>5, SameRow, ReadsKept
<1>7. Current'
  BY <1>1 DEF SessionInv, Current, OneSession
<1> QED
  BY <1>4, <1>6, <1>7 DEF SessionInv

\* The server that writes forgets its copy, and the others may.
LEMMA AnnounceForgets ==
    ASSUME SessionInv, NEW here, Announce(here)
    PROVE  /\ cache' \in [Servers -> [row : Row, loaded : Nat] \cup {Nothing}]
           /\ \A s \in Servers : cache'[s] \in {cache[s], Nothing}
BY DEF SessionInv, Shape, Announce

\* The logins of an older row are logins of a newer one.
LEMMA LoginsKept ==
    ASSUME SessionInv, row' \in Row, row'.nonce >= row.nonce, clock' = clock,
           \A d \in Clients : req'[d] \in {req[d], Idle}, DOMAIN req' = Clients, req' = [d \in Clients |-> req'[d]]
    PROVE  req' \in [Clients -> {Idle} \cup LoginOf(row') \cup LoadingAt(clock) \cup HeldAt(clock)]
<1>1. row.nonce \in Nat /\ row'.nonce \in Nat
  BY DEF SessionInv, Shape, Row
<1>2. LoginOf(row) \subseteq LoginOf(row')
  BY <1>1 DEF LoginOf
<1>3. req \in [Clients -> {Idle} \cup LoginOf(row) \cup LoadingAt(clock) \cup HeldAt(clock)]
  BY DEF SessionInv, Requested
<1>4. \A d \in Clients : req'[d] \in {Idle} \cup LoginOf(row') \cup LoadingAt(clock) \cup HeldAt(clock)
  BY <1>2, <1>3
<1> QED
  BY <1>4

\* A request that is done, or a step without one.
LEMMA RequestDone ==
    ASSUME SessionInv, NEW c \in Clients, row' \in Row, row'.nonce >= row.nonce, clock' = clock,
           req' = [req EXCEPT ![c] = Idle]
    PROVE  /\ req' \in [Clients -> {Idle} \cup LoginOf(row') \cup LoadingAt(clock) \cup HeldAt(clock)]
           /\ \A d \in Clients : req'[d] \in {req[d], Idle} \/ req'[d].pc = "login"
<1>1. req \in [Clients -> {Idle} \cup LoginOf(row) \cup LoadingAt(clock) \cup HeldAt(clock)]
  BY DEF SessionInv, Requested
<1>2. /\ \A d \in Clients : req'[d] \in {req[d], Idle}
      /\ DOMAIN req' = Clients /\ req' = [d \in Clients |-> req'[d]]
  BY <1>1
<1>3. req' \in [Clients -> {Idle} \cup LoginOf(row') \cup LoadingAt(clock) \cup HeldAt(clock)]
  BY <1>2, LoginsKept
<1> QED
  BY <1>2, <1>3

\* Requests under way stay what they are when the row grows.
LEMMA RequestsSame ==
    ASSUME SessionInv, row' \in Row, row'.nonce >= row.nonce, clock' = clock, req' = req
    PROVE  /\ req' \in [Clients -> {Idle} \cup LoginOf(row') \cup LoadingAt(clock) \cup HeldAt(clock)]
           /\ \A d \in Clients : req'[d] \in {req[d], Idle} \/ req'[d].pc = "login"
<1>1. req \in [Clients -> {Idle} \cup LoginOf(row) \cup LoadingAt(clock) \cup HeldAt(clock)]
  BY DEF SessionInv, Requested
<1>2. /\ \A d \in Clients : req'[d] \in {req[d], Idle}
      /\ DOMAIN req' = Clients /\ req' = [d \in Clients |-> req'[d]]
  BY <1>1
<1>3. req' \in [Clients -> {Idle} \cup LoginOf(row') \cup LoadingAt(clock) \cup HeldAt(clock)]
  BY <1>2, LoginsKept
<1> QED
  BY <1>2, <1>3

\* A login reads the row.
LEMMA SessionLogin == ASSUME SessionInv, NEW c \in Clients, NEW s \in Servers, handleLogin(c, s) PROVE SessionInv'
<1> USE Times
<1>1. UNCHANGED <<clock, rules, row, superseded, cache, cookie, editor, rows>>
  BY DEF handleLogin
<1>2. row \in Row /\ row.nonce \in Nat /\ bounds \in Bounds
  BY DEF SessionInv, Shape, Row
<1>3. bounds' \in Bounds /\ bounds'.failed = bounds.failed
  BY <1>2 DEF handleLogin, Bounds
<1>4. Shape'
  BY <1>1, <1>3 DEF SessionInv, Shape
<1> DEFINE login == [pc |-> "login", server |-> s, nonce |-> row.nonce]
<1>5. login \in LoginOf(row)
  BY <1>2 DEF LoginOf
<1>6. req' = [req EXCEPT ![c] = login]
  BY DEF handleLogin, GetLoginCandidate
<1>7. req \in [Clients -> {Idle} \cup LoginOf(row) \cup LoadingAt(clock) \cup HeldAt(clock)]
  BY DEF SessionInv, Requested
<1>8. /\ req' \in [Clients -> {Idle} \cup LoginOf(row') \cup LoadingAt(clock) \cup HeldAt(clock)]
      /\ \A d \in Clients : req'[d] \in {req[d], Idle} \/ req'[d].pc = "login"
  BY <1>1, <1>5, <1>6, <1>7
<1>9. /\ cache' \in [Servers -> [row : Row, loaded : Nat] \cup {Nothing}]
      /\ \A z \in Servers : cache'[z] \in {cache[z], Nothing}
  BY <1>1 DEF SessionInv, Shape
<1>10. Requested' /\ CacheInTime' /\ RequestsInTime'
  BY <1>1, <1>8, <1>9, SameRow, ReadsKept
<1>11. Current'
  BY <1>1, <1>3 DEF SessionInv, Current, OneSession
<1> QED
  BY <1>4, <1>10, <1>11 DEF SessionInv

\* The nonce is bumped, and the old one superseded.
LEMMA BumpType ==
    ASSUME SessionInv, BumpLoginNonce
    PROVE  /\ row' \in Row /\ row'.nonce = row.nonce + 1 /\ row.nonce \in Nat
           /\ superseded' \in Seq(Nat) /\ row'.nonce = Len(superseded')
           /\ Later(row, superseded, clock, row', superseded')
<1>1. row \in Row /\ clock \in Nat /\ superseded \in Seq(Nat) /\ row.nonce = Len(superseded)
  BY DEF SessionInv, Shape
<1>2. row' \in Row /\ row'.nonce = row.nonce + 1 /\ row'.disabled = row.disabled /\ row.nonce \in Nat
  BY <1>1 DEF BumpLoginNonce, Row
<1>3. superseded' = Append(superseded, clock) /\ superseded' \in Seq(Nat) /\ Len(superseded') = Len(superseded) + 1
  BY <1>1 DEF BumpLoginNonce
<1> QED
  BY <1>1, <1>2, <1>3 DEF Later

\* A session starts, with a new nonce where one login is allowed.
LEMMA SessionStart == ASSUME SessionInv, NEW c \in Clients, startSession(c) PROVE SessionInv'
<1> USE Times
<1>1. UNCHANGED <<clock, rules, editor, rows, bounds>>
  BY DEF startSession
<1>2. /\ row' \in Row /\ row'.nonce = row.nonce + 1 /\ row.nonce \in Nat
      /\ superseded' \in Seq(Nat) /\ row'.nonce = Len(superseded')
      /\ Later(row, superseded, clock, row', superseded')
  BY BumpType DEF startSession
<1>3. /\ cache' \in [Servers -> [row : Row, loaded : Nat] \cup {Nothing}]
      /\ \A z \in Servers : cache'[z] \in {cache[z], Nothing}
  BY AnnounceForgets DEF startSession
<1>4. cookie \in [Clients -> Int] /\ cookie' = [cookie EXCEPT ![c] = row.nonce + 1]
  BY DEF SessionInv, Shape, startSession
<1>5. Shape'
  BY <1>1, <1>2, <1>3, <1>4 DEF SessionInv, Shape
<1>6. /\ req' \in [Clients -> {Idle} \cup LoginOf(row') \cup LoadingAt(clock) \cup HeldAt(clock)]
      /\ \A d \in Clients : req'[d] \in {req[d], Idle} \/ req'[d].pc = "login"
  <2>1. req' = [req EXCEPT ![c] = Idle]
    BY DEF startSession
  <2>2. row' \in Row /\ row'.nonce >= row.nonce /\ clock' = clock
    BY <1>1, <1>2
  <2> QED BY <2>1, <2>2, RequestDone
<1>7. Requested' /\ CacheInTime' /\ RequestsInTime'
  BY <1>1, <1>2, <1>3, <1>6, ReadsKept
<1>8. Current'
  <2>1. \A d \in Clients : cookie[d] <= row.nonce
    BY DEF SessionInv, Current
  <2> QED BY <1>2, <1>4, <2>1 DEF Current, OneSession
<1> QED
  BY <1>5, <1>7, <1>8 DEF SessionInv

\* The nonce of a login is not ahead of the row.
LEMMA LoginNonce == ASSUME SessionInv, NEW c \in Clients, req[c].pc = "login" PROVE req[c].nonce \in 0..row.nonce
BY DEF SessionInv, Requested, Idle, LoginOf, LoadingAt, HeldAt

\* It starts all the same when the nonce could not be bumped.
LEMMA SessionUnbumped == ASSUME SessionInv, NEW c \in Clients, startSessionUnbumped(c) PROVE SessionInv'
<1> USE Times
<1>1. UNCHANGED <<clock, rules, row, superseded, editor, rows>>
  BY DEF startSessionUnbumped
<1>2. row \in Row /\ row.nonce \in Nat /\ bounds \in Bounds /\ bounds.failed \in Nat
  BY DEF SessionInv, Shape, Row, Bounds
<1>3. bounds' \in Bounds /\ bounds'.failed = bounds.failed + 1
  <2>1. bounds' = [bounds EXCEPT !.errors = bounds.errors - 1, !.failed = bounds.failed + 1] /\ bounds.errors > 0
    BY DEF startSessionUnbumped
  <2>2. bounds.errors - 1 \in Nat /\ bounds.failed + 1 \in Nat
    BY <1>2, <2>1 DEF Bounds
  <2>3. PICK e \in Nat, f \in Nat : e = bounds.errors - 1 /\ f = bounds.failed + 1
    BY <2>2
  <2>4. bounds' = [[bounds EXCEPT !.errors = e] EXCEPT !.failed = f]
    BY <1>2, <2>1, <2>3
  <2> QED BY <1>2, <2>3, <2>4 DEF Bounds
<1>4. /\ cache' \in [Servers -> [row : Row, loaded : Nat] \cup {Nothing}]
      /\ \A z \in Servers : cache'[z] \in {cache[z], Nothing}
  BY AnnounceForgets DEF startSessionUnbumped
<1>5. cookie \in [Clients -> Int] /\ cookie' = [cookie EXCEPT ![c] = req[c].nonce] /\ req[c].nonce \in 0..row.nonce
  BY LoginNonce DEF SessionInv, Shape, startSessionUnbumped
<1>6. Shape'
  BY <1>1, <1>3, <1>4, <1>5, <1>2 DEF SessionInv, Shape
<1>7. /\ req' \in [Clients -> {Idle} \cup LoginOf(row') \cup LoadingAt(clock) \cup HeldAt(clock)]
      /\ \A d \in Clients : req'[d] \in {req[d], Idle} \/ req'[d].pc = "login"
  <2>1. req' = [req EXCEPT ![c] = Idle]
    BY DEF startSessionUnbumped
  <2>2. row' \in Row /\ row'.nonce >= row.nonce /\ clock' = clock
    BY <1>1, <1>2
  <2> QED BY <2>1, <2>2, RequestDone
<1>8. Requested' /\ CacheInTime' /\ RequestsInTime'
  BY <1>1, <1>4, <1>7, SameRow, ReadsKept
<1>9. Current'
  <2>1. \A d \in Clients : cookie[d] <= row.nonce
    BY DEF SessionInv, Current
  <2>2. \A d \in Clients : cookie'[d] <= row'.nonce
    BY <1>1, <1>2, <1>5, <2>1
  <2>3. OneSession'
    BY <1>2, <1>3 DEF OneSession
  <2> QED BY <2>2, <2>3 DEF Current
<1> QED
  BY <1>6, <1>8, <1>9 DEF SessionInv

\* And with the nonce there is where several logins are allowed.
LEMMA SessionShared == ASSUME SessionInv, NEW c \in Clients, startSessionShared(c) PROVE SessionInv'
<1> USE Times
<1>1. UNCHANGED <<clock, rules, row, superseded, cache, editor, rows, bounds>> /\ ~rules.single
  BY DEF startSessionShared
<1>2. row \in Row /\ row.nonce \in Nat
  BY DEF SessionInv, Shape, Row
<1>4. /\ cache' \in [Servers -> [row : Row, loaded : Nat] \cup {Nothing}]
      /\ \A z \in Servers : cache'[z] \in {cache[z], Nothing}
  BY <1>1 DEF SessionInv, Shape
<1>5. cookie \in [Clients -> Int] /\ cookie' = [cookie EXCEPT ![c] = req[c].nonce] /\ req[c].nonce \in 0..row.nonce
  BY LoginNonce DEF SessionInv, Shape, startSessionShared
<1>6. Shape'
  BY <1>1, <1>5, <1>2 DEF SessionInv, Shape
<1>7. /\ req' \in [Clients -> {Idle} \cup LoginOf(row') \cup LoadingAt(clock) \cup HeldAt(clock)]
      /\ \A d \in Clients : req'[d] \in {req[d], Idle} \/ req'[d].pc = "login"
  <2>1. req' = [req EXCEPT ![c] = Idle]
    BY DEF startSessionShared
  <2>2. row' \in Row /\ row'.nonce >= row.nonce /\ clock' = clock
    BY <1>1, <1>2
  <2> QED BY <2>1, <2>2, RequestDone
<1>8. Requested' /\ CacheInTime' /\ RequestsInTime'
  BY <1>1, <1>4, <1>7, SameRow, ReadsKept
<1>9. Current'
  <2>1. \A d \in Clients : cookie[d] <= row.nonce
    BY DEF SessionInv, Current
  <2>2. \A d \in Clients : cookie'[d] <= row'.nonce
    BY <1>1, <1>2, <1>5, <2>1
  <2>3. OneSession'
    BY <1>1 DEF OneSession
  <2> QED BY <2>2, <2>3 DEF Current
<1> QED
  BY <1>6, <1>8, <1>9 DEF SessionInv

\* A request is let in by a copy, or starts to read the row.
LEMMA SessionRequest ==
    ASSUME SessionInv, NEW c \in Clients, NEW s \in Servers, NEW what \in Requests, Request(c, s, what)
    PROVE  SessionInv'
<1> USE Times
<1>1. UNCHANGED <<clock, rules, row, superseded, cache, editor, rows, bounds>>
  BY DEF Request
<1>2. cache[s] # Nothing /\ clock - cache[s].loaded < CacheTTL /\ withAuth(c, s, what, cache[s].row)
  BY DEF Request, Fresh
<1>3. cache[s].row \in Row /\ cache[s].loaded \in Nat
  BY <1>2 DEF SessionInv, Shape
<1>4. Read(row, superseded, cache[s].row, cache[s].loaded, MaxLoad) /\ cache[s].loaded <= clock
  BY <1>2 DEF SessionInv, CacheInTime
<1>5. Read(row, superseded, cache[s].row, clock, MaxLoad + CacheTTL - 1)
  BY <1>2, <1>3, <1>4, AcceptedInTime
<1>6. Requested' /\ RequestsInTime' /\ Current' /\ cookie' \in [Clients -> Int]
  BY <1>1, <1>2, <1>3, <1>5, AuthKeeps
<1>7. Shape'
  BY <1>1, <1>6 DEF SessionInv, Shape
<1>8. CacheInTime'
  BY <1>1 DEF SessionInv, CacheInTime
<1> QED
  BY <1>6, <1>7, <1>8 DEF SessionInv

\* A row read now was read in time.
LEMMA ReadNow == SessionInv => Read(row, superseded, row, clock, 0)
<1> SUFFICES ASSUME SessionInv PROVE Read(row, superseded, row, clock, 0)
  OBVIOUS
<1>1. row.nonce \in Nat
  BY DEF SessionInv, Shape, Row
<1> QED
  BY <1>1 DEF Read

\* The row is read.
LEMMA SessionLoad ==
    ASSUME SessionInv, NEW c \in Clients, NEW s \in Servers, Load(c, s)
    PROVE  SessionInv'
<1> USE Times
<1>1. UNCHANGED <<clock, rules, row, superseded, cache, cookie, editor, rows, bounds>>
  BY DEF Load
<1>2. clock \in Nat /\ row \in Row
  BY DEF SessionInv, Shape
<1> DEFINE loading == [pc |-> "loading", server |-> s, part |-> row, at |-> clock]
<1>3. loading \in LoadingAt(clock)
  BY <1>2 DEF LoadingAt
<1>4. req' = [req EXCEPT ![c] = loading]
  BY DEF Load
<1>5. req \in [Clients -> {Idle} \cup LoginOf(row) \cup LoadingAt(clock) \cup HeldAt(clock)]
  BY DEF SessionInv, Requested
<1>6. req' \in [Clients -> {Idle} \cup LoginOf(row) \cup LoadingAt(clock) \cup HeldAt(clock)]
  BY <1>3, <1>4, <1>5
<1>7. req'[c] = loading /\ \A d \in Clients : d # c => req'[d] = req[d]
  BY <1>4, <1>5
<1>8. Requested'
  BY <1>1, <1>6 DEF Requested
<1>9. RequestsInTime'
  <2>1. ASSUME NEW d \in Clients, req'[d].pc = "loading"
        PROVE  Read(row', superseded', req'[d].part, req'[d].at, 0) /\ clock' - req'[d].at <= MaxLoad
    <3>1. CASE d = c
      <4>1. req'[d].part = row /\ req'[d].at = clock
        BY <1>7, <3>1
      <4> QED BY <4>1, <1>1, <1>2, ReadNow
    <3>2. CASE d # c
      BY <2>1, <3>2, <1>1, <1>7 DEF SessionInv, RequestsInTime
    <3> QED BY <3>1, <3>2
  <2>2. ASSUME NEW d \in Clients, req'[d].pc \in {"accepted", "storing"}
        PROVE  /\ Read(row', superseded', req'[d].part, req'[d].at, MaxLoad + CacheTTL - 1)
               /\ req'[d].part.disabled = Unset
    <3>1. d # c
      BY <2>2, <1>7
    <3> QED BY <2>2, <3>1, <1>1, <1>7 DEF SessionInv, RequestsInTime
  <2> QED BY <2>1, <2>2 DEF RequestsInTime
<1>10. Shape'
  BY <1>1 DEF SessionInv, Shape
<1>11. CacheInTime' /\ Current'
  BY <1>1 DEF SessionInv, CacheInTime, Current, OneSession
<1> QED
  BY <1>8, <1>9, <1>10, <1>11 DEF SessionInv

\* The row read is remembered, and the request let in or sent away.
LEMMA SessionLoaded ==
    ASSUME SessionInv, NEW c \in Clients, NEW what \in Requests, Loaded(c, what)
    PROVE  SessionInv'
<1> USE Times
<1>1. UNCHANGED <<clock, rules, row, superseded, editor, rows, bounds>>
  BY DEF Loaded
<1>2. PICK part, at, s : part = req[c].part /\ at = req[c].at /\ s = req[c].server
  OBVIOUS
<1>3. part \in Row /\ at \in Nat /\ at <= clock /\ s \in Servers
  <2>1. req[c] \in LoadingAt(clock)
    BY DEF SessionInv, Requested, Loaded, Idle, LoginOf, HeldAt
  <2>2. clock \in Nat
    BY DEF SessionInv, Shape
  <2> QED BY <1>2, <2>1, <2>2 DEF LoadingAt
<1>4. Read(row, superseded, part, at, 0) /\ clock - at <= MaxLoad
  BY <1>2 DEF SessionInv, RequestsInTime, Loaded
<1>5. Read(row, superseded, part, clock, MaxLoad)
  <2>1. /\ clock \in Nat /\ row.nonce \in Nat /\ row.disabled \in Int /\ part.nonce \in Nat
        /\ superseded \in Seq(Nat) /\ row.nonce = Len(superseded)
    BY <1>3 DEF SessionInv, Shape, Row
  <2>2. part.nonce < row.nonce => superseded[part.nonce + 1] \in Nat
    BY <2>1
  <2> QED BY <1>3, <1>4, <2>1, <2>2 DEF Read
<1>6. clock \in Nat /\ clock - clock < CacheTTL /\ clock <= clock
  BY DEF SessionInv, Shape
<1>7. Read(row, superseded, part, clock, MaxLoad + CacheTTL - 1)
  BY <1>3, <1>5, <1>6, AcceptedInTime
<1>8. withAuth(c, s, what, part) /\ cache' = [cache EXCEPT ![s] = [row |-> part, loaded |-> clock]]
  BY <1>2 DEF Loaded
<1>9. Requested' /\ RequestsInTime' /\ Current' /\ cookie' \in [Clients -> Int]
  BY <1>1, <1>3, <1>7, <1>8, AuthKeeps
<1>10. cache \in [Servers -> [row : Row, loaded : Nat] \cup {Nothing}]
  BY DEF SessionInv, Shape
<1>11. /\ cache' \in [Servers -> [row : Row, loaded : Nat] \cup {Nothing}]
       /\ cache'[s].row = part /\ cache'[s].loaded = clock
       /\ \A z \in Servers : z # s => cache'[z] = cache[z]
  BY <1>3, <1>6, <1>8, <1>10
<1>12. Shape'
  BY <1>1, <1>9, <1>11 DEF SessionInv, Shape
<1>13. CacheInTime'
  <2>1. SUFFICES ASSUME NEW z \in Servers, cache'[z] # Nothing
                 PROVE  Read(row', superseded', cache'[z].row, cache'[z].loaded, MaxLoad) /\ cache'[z].loaded <= clock'
    BY DEF CacheInTime
  <2>2. CASE z = s
    BY <2>2, <1>1, <1>5, <1>6, <1>11
  <2>3. CASE z # s
    BY <2>1, <2>3, <1>1, <1>11 DEF SessionInv, CacheInTime
  <2> QED BY <2>2, <2>3
<1> QED
  BY <1>9, <1>12, <1>13 DEF SessionInv

\* Answers, tokens and stored submissions end a request and change nothing
\* a session depends on.
LEMMA SessionDone ==
    ASSUME SessionInv, NEW c \in Clients, req' = [req EXCEPT ![c] = Idle],
           UNCHANGED <<clock, rules, row, superseded, cache, cookie, editor, bounds>>,
           rows' \in Seq([task : Tasks, at : Nat, official : BOOLEAN])
    PROVE  SessionInv'
<1> USE Times
<1>2. row \in Row /\ row.nonce \in Nat
  BY DEF SessionInv, Shape, Row
<1>3. /\ cache' \in [Servers -> [row : Row, loaded : Nat] \cup {Nothing}]
      /\ \A z \in Servers : cache'[z] \in {cache[z], Nothing}
  BY DEF SessionInv, Shape
<1>4. Shape'
  BY DEF SessionInv, Shape
<1>5. /\ req' \in [Clients -> {Idle} \cup LoginOf(row') \cup LoadingAt(clock) \cup HeldAt(clock)]
      /\ \A d \in Clients : req'[d] \in {req[d], Idle} \/ req'[d].pc = "login"
  <2>1. row' \in Row /\ row'.nonce >= row.nonce /\ clock' = clock
    BY <1>2
  <2> QED BY <2>1, RequestDone
<1>6. Requested' /\ CacheInTime' /\ RequestsInTime'
  BY <1>3, <1>5, SameRow, ReadsKept
<1>7. Current'
  BY DEF SessionInv, Current, OneSession
<1> QED
  BY <1>4, <1>6, <1>7 DEF SessionInv

\* A request that was let in, and its parts.
LEMMA HeldParts ==
    ASSUME SessionInv, NEW c \in Clients, req[c].pc \in {"accepted", "storing"}
    PROVE  /\ req[c] \in HeldAt(clock)
           /\ req[c].part \in Row /\ req[c].at \in Nat /\ req[c].at <= clock /\ req[c].what \in What
           /\ req[c].server \in Servers
<1>1. req[c] \in HeldAt(clock)
  BY DEF SessionInv, Requested, Idle, LoginOf, LoadingAt
<1>2. clock \in Nat
  BY DEF SessionInv, Shape
<1> QED
  BY <1>1, <1>2 DEF HeldAt, What

\* A submission is one of a task.
LEMMA SubmitTask == ASSUME NEW what \in What, what[1] = "submit" PROVE what \in Submits
BY DEF What, Submits

\* A request is answered.
LEMMA SessionAnswer == ASSUME SessionInv, NEW c \in Clients, Answer(c) \/ handleToken(c) PROVE SessionInv'
<1>1. /\ UNCHANGED <<clock, rules, row, superseded, cache, cookie, editor, bounds>>
      /\ req' = [req EXCEPT ![c] = Idle] /\ rows' = rows
  BY DEF Answer, handleToken
<1>2. rows' \in Seq([task : Tasks, at : Nat, official : BOOLEAN])
  BY <1>1 DEF SessionInv, Shape
<1> QED
  BY <1>1, <1>2, SessionDone

\* A submission is stored.
LEMMA SessionStore == ASSUME SessionInv, NEW c \in Clients, storeSubmission(c) PROVE SessionInv'
<1>1. /\ UNCHANGED <<clock, rules, row, superseded, cache, cookie, editor, bounds>>
      /\ req' = [req EXCEPT ![c] = Idle]
  BY DEF storeSubmission
<1>2. PICK official : official = Status(c, Official)
  OBVIOUS
<1>3. official \in BOOLEAN
  BY <1>2 DEF Status, Official, participantOf
<1>4. PICK t : t = req[c].what[2]
  OBVIOUS
<1>5. req[c].pc = "storing" /\ req[c] \in HeldAt(clock) /\ req[c].at \in Nat
  BY HeldParts DEF storeSubmission
<1>6. t \in Tasks
  <2>1. req[c].what \in Submits
    BY <1>5 DEF HeldAt
  <2> QED BY <2>1, <1>4 DEF Submits
<1> DEFINE new == [task |-> t, at |-> req[c].at, official |-> official]
<1>7. rows' = Append(rows, new)
  BY <1>2, <1>4 DEF storeSubmission
<1>8. new \in [task : Tasks, at : Nat, official : BOOLEAN]
  BY <1>3, <1>5, <1>6
<1>9. rows' \in Seq([task : Tasks, at : Nat, official : BOOLEAN])
  <2> HIDE DEF new
  <2> QED BY <1>7, <1>8 DEF SessionInv, Shape
<1> QED
  BY <1>1, <1>9, SessionDone

\* A submission is accepted or refused.
LEMMA SessionSubmit == ASSUME SessionInv, NEW c \in Clients, handleSubmit(c) PROVE SessionInv'
<1> USE Times
<1>1. UNCHANGED <<clock, rules, row, superseded, cache, cookie, editor, rows, bounds>>
  BY DEF handleSubmit
<1>2. req' = [req EXCEPT ![c] = [req[c] EXCEPT !.pc = "storing"]] \/ req' = [req EXCEPT ![c] = Idle]
  BY Zenon DEF handleSubmit
<1>3. CASE req' = [req EXCEPT ![c] = Idle]
  <2>1. rows' \in Seq([task : Tasks, at : Nat, official : BOOLEAN])
    BY <1>1 DEF SessionInv, Shape
  <2> QED BY <1>1, <1>3, <2>1, SessionDone
<1>4. CASE req' = [req EXCEPT ![c] = [req[c] EXCEPT !.pc = "storing"]]
  <2>1. req[c].pc = "accepted" /\ req[c].what[1] = "submit"
    BY DEF handleSubmit, Accepted
  <2>2. req[c] \in HeldAt(clock) /\ req[c].what \in What
    BY <2>1, HeldParts
  <2>3. req[c].what \in Submits
    BY <2>1, <2>2, SubmitTask
  <2> DEFINE stored == [req[c] EXCEPT !.pc = "storing"]
  <2>4. /\ stored \in HeldAt(clock) /\ stored.pc = "storing"
        /\ stored.part = req[c].part /\ stored.at = req[c].at
    BY <2>1, <2>2, <2>3 DEF HeldAt
  <2>5. req \in [Clients -> {Idle} \cup LoginOf(row) \cup LoadingAt(clock) \cup HeldAt(clock)]
    BY DEF SessionInv, Requested
  <2> HIDE DEF stored
  <2>6. req' = [req EXCEPT ![c] = stored]
    BY <1>4 DEF stored
  <2>7. /\ req' \in [Clients -> {Idle} \cup LoginOf(row) \cup LoadingAt(clock) \cup HeldAt(clock)]
        /\ req'[c] = stored /\ \A d \in Clients : d # c => req'[d] = req[d]
    BY <2>4, <2>5, <2>6
  <2>8. Requested'
    BY <1>1, <2>7 DEF Requested
  <2>9. RequestsInTime'
    <3>1. ASSUME NEW d \in Clients, req'[d].pc = "loading"
          PROVE  Read(row', superseded', req'[d].part, req'[d].at, 0) /\ clock' - req'[d].at <= MaxLoad
      <4>1. d # c
        BY <3>1, <2>4, <2>7
      <4> QED BY <3>1, <4>1, <1>1, <2>7 DEF SessionInv, RequestsInTime
    <3>2. ASSUME NEW d \in Clients, req'[d].pc \in {"accepted", "storing"}
          PROVE  /\ Read(row', superseded', req'[d].part, req'[d].at, MaxLoad + CacheTTL - 1)
                 /\ req'[d].part.disabled = Unset
      <4>1. CASE d = c
        BY <4>1, <2>1, <2>4, <2>7, <1>1 DEF SessionInv, RequestsInTime
      <4>2. CASE d # c
        BY <3>2, <4>2, <1>1, <2>7 DEF SessionInv, RequestsInTime
      <4> QED BY <4>1, <4>2
    <3> QED BY <3>1, <3>2 DEF RequestsInTime
  <2>10. Shape'
    BY <1>1 DEF SessionInv, Shape
  <2>11. CacheInTime' /\ Current'
    BY <1>1 DEF SessionInv, CacheInTime, Current, OneSession
  <2> QED
    BY <2>8, <2>9, <2>10, <2>11 DEF SessionInv
<1> QED
  BY <1>2, <1>3, <1>4

\* Steps that change the row and announce it.
LEMMA SessionAnnounced ==
    ASSUME SessionInv, NEW here, Announce(here), row' \in Row, superseded' \in Seq(Nat),
           row'.nonce = Len(superseded'), Later(row, superseded, clock, row', superseded'),
           clock' = clock, rules' = rules, cookie' = cookie, rows' = rows,
           bounds' \in Bounds, bounds'.failed = bounds.failed,
           editor' = Idle \/ (editor'.pc = "read" /\ editor'.starting \in Int),
           req' = req \/ \E c \in Clients : req' = [req EXCEPT ![c] = Idle]
    PROVE  SessionInv'
<1> USE Times
<1>1. row.nonce \in Nat /\ row'.nonce \in Nat /\ row'.nonce >= row.nonce
  BY DEF SessionInv, Shape, Row, Later
<1>2. /\ cache' \in [Servers -> [row : Row, loaded : Nat] \cup {Nothing}]
      /\ \A z \in Servers : cache'[z] \in {cache[z], Nothing}
  BY AnnounceForgets
<1>3. /\ req' \in [Clients -> {Idle} \cup LoginOf(row') \cup LoadingAt(clock) \cup HeldAt(clock)]
      /\ \A d \in Clients : req'[d] \in {req[d], Idle} \/ req'[d].pc = "login"
  <2>1. CASE req' = req
    BY <2>1, <1>1, RequestsSame
  <2>2. ASSUME NEW c \in Clients, req' = [req EXCEPT ![c] = Idle]
        PROVE  <1>3
    BY <2>2, <1>1, RequestDone
  <2> QED BY <2>1, <2>2
<1>4. Requested' /\ CacheInTime' /\ RequestsInTime'
  BY <1>2, <1>3, ReadsKept
<1>5. Shape'
  BY <1>2 DEF SessionInv, Shape
<1>6. Current'
  <2>1. cookie \in [Clients -> Int] /\ \A d \in Clients : cookie[d] <= row.nonce
    BY DEF SessionInv, Shape, Current
  <2>2. CASE row'.nonce = row.nonce
    BY <2>1, <2>2, CookiesKept
  <2>3. CASE row'.nonce > row.nonce
    BY <2>1, <2>3, <1>1 DEF Current, OneSession
  <2> QED BY <1>1, <2>2, <2>3
<1> QED
  BY <1>4, <1>5, <1>6 DEF SessionInv

\* The start button starts the contestant's time once.
LEMMA SessionPressed == ASSUME SessionInv, NEW c \in Clients, handleStart(c) PROVE SessionInv'
<1>1. /\ UNCHANGED <<clock, rules, superseded, cookie, editor, rows, bounds>>
      /\ req' = [req EXCEPT ![c] = Idle] /\ Announce({req[c].server})
  BY DEF handleStart
<1>2. row \in Row /\ req[c].at \in Nat
  BY HeldParts DEF SessionInv, Shape, handleStart, Accepted
<1>3. row' = [row EXCEPT !.starting = IF row.starting = Unset THEN req[c].at ELSE row.starting]
  BY DEF handleStart, StartParticipation
<1>4. row' \in Row /\ row'.nonce = row.nonce /\ row'.disabled = row.disabled
  BY <1>2, <1>3 DEF Row
<1>5. Later(row, superseded, clock, row', superseded')
  BY <1>1, <1>4 DEF Later
<1>6. /\ superseded' \in Seq(Nat) /\ row'.nonce = Len(superseded')
      /\ bounds' \in Bounds /\ bounds'.failed = bounds.failed
      /\ editor' = Idle \/ (editor'.pc = "read" /\ editor'.starting \in Int)
  BY <1>1, <1>4 DEF SessionInv, Shape
<1> QED
  BY <1>1, <1>4, <1>5, <1>6, SessionAnnounced

\* The organizers ask for a change.
LEMMA SessionEdit == ASSUME SessionInv, NEW ask, Edit(ask) PROVE SessionInv'
<1> USE Times
<1>1. UNCHANGED <<clock, rules, row, superseded, cache, cookie, req, rows>>
  BY DEF Edit
<1>2. row \in Row /\ bounds \in Bounds
  BY DEF SessionInv, Shape
<1>3. bounds' \in Bounds /\ bounds'.failed = bounds.failed
  BY <1>2 DEF Edit, Bounds
<1>4. editor'.pc = "read" /\ editor'.starting \in Int
  BY <1>2 DEF Edit, Row
<1>5. Shape'
  BY <1>1, <1>3, <1>4 DEF SessionInv, Shape
<1>6. Requested' /\ CacheInTime' /\ RequestsInTime'
  BY <1>1 DEF SessionInv, Requested, CacheInTime, RequestsInTime
<1>7. Current'
  BY <1>1, <1>3 DEF SessionInv, Current, OneSession
<1> QED
  BY <1>5, <1>6, <1>7 DEF SessionInv

\* The participation is updated.
LEMMA SessionUpdate == ASSUME SessionInv, handleParticipationUpdate PROVE SessionInv'
<1> USE Times
<1>1. /\ UNCHANGED <<clock, rules, cookie, req, rows, bounds>>
      /\ Announce({}) /\ editor' = Idle
  BY DEF handleParticipationUpdate
<1>2. /\ row \in Row /\ row.nonce \in Nat /\ row.extra \in Nat
      /\ superseded \in Seq(Nat) /\ row.nonce = Len(superseded) /\ clock \in Nat
  BY DEF SessionInv, Shape, Row
<1>3. editor.starting \in Int
  BY DEF SessionInv, Shape, handleParticipationUpdate, Idle
<1>4. PICK starting, extra, nonce :
        /\ starting = (IF editor.ask = "reset" THEN Unset ELSE editor.starting)
        /\ extra = (IF editor.ask = "more" THEN row.extra + 1 ELSE row.extra)
        /\ nonce = (IF editor.ask = "logout" THEN row.nonce + 1 ELSE row.nonce)
  OBVIOUS
<1>5. row' = [row EXCEPT !.starting = starting, !.extra = extra, !.nonce = nonce]
  BY <1>4 DEF handleParticipationUpdate
<1>6. starting \in Int /\ extra \in Nat /\ nonce \in Nat
  BY <1>2, <1>3, <1>4
<1>7. row' \in Row /\ row'.nonce = nonce /\ row'.disabled = row.disabled
  BY <1>2, <1>5, <1>6 DEF Row
<1>8. superseded' = IF editor.ask = "logout" THEN Append(superseded, clock) ELSE superseded
  BY DEF handleParticipationUpdate
<1>9. superseded' \in Seq(Nat) /\ row'.nonce = Len(superseded')
  BY <1>2, <1>4, <1>7, <1>8
<1>10. Later(row, superseded, clock, row', superseded')
  BY <1>4, <1>7, <1>8 DEF Later
<1>11. bounds' \in Bounds /\ bounds'.failed = bounds.failed
  BY <1>1 DEF SessionInv, Shape
<1> QED
  BY <1>1, <1>7, <1>9, <1>10, <1>11, SessionAnnounced

\* A user is disabled, or enabled again.
LEMMA SessionDisable == ASSUME SessionInv, NEW disabled \in BOOLEAN, setUserDisabled(disabled) PROVE SessionInv'
<1> USE Times
<1>1. UNCHANGED <<clock, rules, superseded, cookie, req, editor, rows>> /\ Announce({})
  BY DEF setUserDisabled
<1>2. row \in Row /\ bounds \in Bounds /\ clock \in Nat
  BY DEF SessionInv, Shape
<1>3. bounds' \in Bounds /\ bounds'.failed = bounds.failed
  BY <1>2 DEF setUserDisabled, Bounds
<1>4. row' \in Row /\ row'.nonce = row.nonce /\ row'.disabled \in {Unset, clock}
  BY <1>2 DEF setUserDisabled, SetUserDisabled, Row
<1>5. Later(row, superseded, clock, row', superseded')
  BY <1>1, <1>4 DEF Later
<1>6. /\ superseded' \in Seq(Nat) /\ row'.nonce = Len(superseded')
      /\ editor' = Idle \/ (editor'.pc = "read" /\ editor'.starting \in Int)
  BY <1>1, <1>4 DEF SessionInv, Shape
<1> QED
  BY <1>1, <1>3, <1>4, <1>5, <1>6, SessionAnnounced

\* Every step keeps the invariant.
LEMMA SessionStep == SessionInv /\ [Next]_vars => SessionInv'
<1> SUFFICES ASSUME SessionInv, [Next]_vars PROVE SessionInv'
  OBVIOUS
<1>1. CASE UNCHANGED vars
  BY <1>1 DEF vars, SessionInv, Shape, Requested, CacheInTime, RequestsInTime, Current, OneSession
<1>2. CASE Next
  BY <1>2, SessionTick, SessionEvent, SessionLogin, SessionStart, SessionUnbumped, SessionShared,
     SessionAnswer, SessionPressed, SessionSubmit, SessionStore, SessionLoad, SessionRequest,
     SessionLoaded, SessionEdit, SessionUpdate, SessionDisable, Zenon DEF Next
<1> QED
  BY <1>1, <1>2

\* The invariant implies what the run checks.
LEMMA SessionInvHolds == SessionInv => SessionsSound
<1> SUFFICES ASSUME SessionInv PROVE SessionsEnd /\ OneSession
  BY DEF SessionsSound
<1> USE Times
<1>1. ASSUME NEW c \in Clients, req[c].pc \in {"accepted", "storing"}
      PROVE  LET n == req[c].part.nonce
             IN  /\ n < row.nonce => req[c].at < superseded[n + 1] + CacheTTL + MaxLoad
                 /\ row.disabled # Unset => req[c].at < row.disabled + CacheTTL + MaxLoad
  <2>1. req[c].part \in Row /\ req[c].at \in Nat
    BY <1>1, HeldParts
  <2>2. /\ row.nonce \in Nat /\ row.disabled \in Int /\ req[c].part.nonce \in Nat
        /\ superseded \in Seq(Nat) /\ row.nonce = Len(superseded)
    BY <2>1 DEF SessionInv, Shape, Row
  <2>3. /\ Read(row, superseded, req[c].part, req[c].at, MaxLoad + CacheTTL - 1)
        /\ req[c].part.disabled = Unset
    BY <1>1 DEF SessionInv, RequestsInTime
  <2>4. req[c].part.nonce < row.nonce => superseded[req[c].part.nonce + 1] \in Nat
    BY <2>2
  <2> DEFINE n == req[c].part.nonce
  <2>5. ASSUME n < row.nonce PROVE req[c].at < superseded[n + 1] + CacheTTL + MaxLoad
    <3>1. PICK last \in Nat : last = superseded[n + 1]
      BY <2>4, <2>5
    <3>2. req[c].at <= last + (MaxLoad + CacheTTL - 1)
      BY <2>3, <2>5, <3>1 DEF Read
    <3>3. req[c].at < last + CacheTTL + MaxLoad
      BY <2>1, <3>2
    <3> QED BY <3>1, <3>3
  <2>6. row.disabled # Unset => req[c].at < row.disabled + CacheTTL + MaxLoad
    BY <2>1, <2>2, <2>3 DEF Read
  <2> QED BY <2>5, <2>6
<1>2. SessionsEnd
  BY <1>1 DEF SessionsEnd
<1> QED
  BY <1>2 DEF SessionInv, Current

\* A session that was closed, replaced by a newer login or belongs to a
\* disabled user is accepted no longer than a cached row lives and takes to
\* read, and a single-login contest has one current session: for any number
\* of servers and browsers, whatever events are lost (withAuth,
\* cache.participation, startSession).
THEOREM SessionsEndInTime == Spec => []SessionsSound
<1>1. Init => SessionInv
  BY SessionInit
<1>2. SessionInv /\ [Next]_vars => SessionInv'
  BY SessionStep
<1>3. SessionInv => SessionsSound
  BY SessionInvHolds
<1> QED
  BY <1>1, <1>2, <1>3, PTL DEF Spec

-----------------------------------------------------------------------------
(***************************************************************************)
(* The phases of a contest for one contestant.                             *)
(***************************************************************************)
Phases == {"not_started", "waiting_start", "running", "finished"}

\* A participant of this model: no site, no delay, not unrestricted.
LEMMA Participant ==
    ASSUME NEW part \in Row, NEW r, Window(r)
    PROVE  /\ FirstInstant(r, participantOf(part)) = r.start
           /\ LastInstant(r, participantOf(part)) = r.stop
           /\ participantOf(part).starting = part.starting /\ part.starting \in Int
           /\ participantOf(part).extra = part.extra /\ part.extra \in Nat
           /\ participantOf(part).unrestricted = FALSE
BY DEF participantOf, FirstInstant, LastInstant, Row, Window

\* The phase before analysis and practice, spelled out.
LEMMA PhaseTimes ==
    ASSUME NEW part \in Row, NEW r, Window(r), NEW at \in Nat
    PROVE  LET phase == ContestPhase(r, participantOf(part), at)
               begin == IF r.perUser > 0 THEN part.starting ELSE r.start
               end == IF r.perUser > 0 /\ part.starting + r.perUser < r.stop
                      THEN part.starting + r.perUser + part.extra ELSE r.stop + part.extra
           IN  IF r.perUser > 0 /\ part.starting = Unset
               THEN /\ at < r.start => phase = "not_started"
                    /\ r.start <= at /\ at < r.stop => phase = "waiting_start"
                    /\ r.stop <= at => phase = "finished"
               ELSE /\ at < begin => phase = "not_started"
                    /\ begin <= at /\ at < end => phase = "running"
                    /\ begin <= at /\ end <= at => phase = "finished"
<1> DEFINE p == participantOf(part)
<1>1. /\ FirstInstant(r, p) = r.start /\ LastInstant(r, p) = r.stop
      /\ p.starting = part.starting /\ part.starting \in Int /\ p.extra = part.extra /\ part.extra \in Nat
  BY Participant
<1>2. r.start \in Nat /\ r.stop \in Nat /\ r.start < r.stop /\ r.perUser \in Nat
  BY DEF Window
<1> HIDE DEF p
<1>3. CASE r.perUser > 0 /\ part.starting = Unset
  BY <1>1, <1>2, <1>3 DEF ContestPhase, p
<1>4. CASE r.perUser > 0 /\ part.starting # Unset
  <2>1. /\ Begin(r, p) = part.starting
        /\ End(r, p) = IF part.starting + r.perUser < r.stop
                       THEN part.starting + r.perUser + part.extra ELSE r.stop + part.extra
    BY <1>1, <1>2, <1>4 DEF Begin, End, Smaller
  <2> QED BY <1>1, <1>2, <1>4, <2>1 DEF ContestPhase, p
<1>5. CASE ~(r.perUser > 0)
  <2>1. Begin(r, p) = r.start /\ End(r, p) = r.stop + part.extra
    BY <1>1, <1>2, <1>5 DEF Begin, End
  <2>2. ContestPhase(r, p, at) = CASE at < r.start -> "not_started"
                                   [] at >= r.start /\ at < r.stop + part.extra -> "running"
                                   [] OTHER -> "finished"
    BY <1>5, <2>1 DEF ContestPhase
  <2> QED BY <1>1, <1>2, <1>5, <2>2 DEF p
<1> QED
  BY <1>3, <1>4, <1>5

\* Analysis and practice come out of a contest that finished.
LEMMA PhaseOut ==
    ASSUME NEW r, NEW p, NEW at, Phase(r, p, at) \in {"waiting_start", "running"}
    PROVE  ContestPhase(r, p, at) = Phase(r, p, at)
BY DEF Phase

\* Who may start has a time of their own and the contest runs.
LEMMA StartTimes ==
    ASSUME NEW part \in Row, NEW r, Window(r), NEW at \in Nat, CanStart(r, participantOf(part), at)
    PROVE  r.perUser > 0 /\ r.start <= at
<1>1. ContestPhase(r, participantOf(part), at) = "waiting_start"
  BY PhaseOut DEF CanStart
<1>2. r.start \in Nat /\ r.stop \in Nat /\ r.perUser \in Nat /\ part.starting \in Int /\ part.extra \in Nat
  BY DEF Window, Row
<1> QED
  BY <1>1, <1>2, PhaseTimes

\* Official submissions are made in the contestant's time.
LEMMA OfficialTime ==
    ASSUME NEW part \in Row, NEW r, Window(r), NEW at \in Nat, Official(r, participantOf(part), at)
    PROVE  /\ at < r.stop + part.extra
           /\ r.perUser > 0 => /\ part.starting # Unset /\ part.starting <= at
                               /\ at < part.starting + r.perUser + part.extra
           /\ ~(r.perUser > 0) => r.start <= at
<1>1. ContestPhase(r, participantOf(part), at) = "running"
  <2>1. Phase(r, participantOf(part), at) = "running"
    BY Participant DEF Official
  <2> QED BY <2>1, PhaseOut
<1>2. r.start \in Nat /\ r.stop \in Nat /\ r.perUser \in Nat /\ part.starting \in Int /\ part.extra \in Nat
  BY DEF Window, Row
<1> QED
  BY <1>1, <1>2, PhaseTimes

\* The stage of the phases before and after the end of the contest.
LEMMA StageOut ==
    ASSUME NEW r, NEW p, NEW at, ContestPhase(r, p, at) \in Phases
    PROVE  /\ ContestPhase(r, p, at) # "finished" => Phase(r, p, at) = ContestPhase(r, p, at)
           /\ ContestPhase(r, p, at) = "finished" => Phase(r, p, at) \in {"finished", "analysis", "practice"}
BY DEF Phase, Phases

\* Time alone does not go back over the phases.
LEMMA PhasesInOrder ==
    ASSUME NEW part \in Row, NEW r, Window(r), NEW at \in Nat, NEW later \in Nat, at <= later
    PROVE  LET before == Phase(r, participantOf(part), at)
               after == Phase(r, participantOf(part), later)
           IN  Stage(before) <= Stage(after) \/ (before = "analysis" /\ after = "finished")
<1> DEFINE p == participantOf(part)
           before == ContestPhase(r, p, at)
           after == ContestPhase(r, p, later)
<1>1. /\ r.start \in Nat /\ r.stop \in Nat /\ r.start < r.stop /\ r.perUser \in Nat
      /\ part.starting \in Int /\ part.extra \in Nat
      /\ r.analysis \in BOOLEAN /\ r.practice \in BOOLEAN
      /\ r.analysisStart \in Int /\ r.analysisStop \in Int
  BY DEF Window, Row
<1>2. before \in Phases /\ after \in Phases
  BY DEF ContestPhase, Phases
<1>3. Stage(before) <= Stage(after)
  BY <1>1, PhaseTimes DEF Stage
<1>4. CASE before # "finished"
  <2>1. Phase(r, p, at) = before
    BY <1>2, <1>4, StageOut
  <2>2. Stage(after) <= Stage(Phase(r, p, later))
    <3>1. CASE after # "finished"
      BY <1>2, <3>1, StageOut DEF Stage, Phases
    <3>2. CASE after = "finished"
      <4>1. Phase(r, p, later) \in {"finished", "analysis", "practice"}
        BY <1>2, <3>2, StageOut
      <4> QED BY <4>1, <3>2 DEF Stage
    <3> QED BY <3>1, <3>2
  <2>3. Stage(before) \in Nat /\ Stage(after) \in Nat /\ Stage(Phase(r, p, later)) \in Int
    <3>1. Phase(r, p, later) \in Phases \cup {"analysis", "practice"}
      BY <1>2, StageOut DEF Phases
    <3> HIDE DEF p, before, after
    <3> QED BY <1>2, <3>1 DEF Stage, Phases
  <2> QED BY <1>3, <2>1, <2>2, <2>3
<1>5. CASE before = "finished"
  <2>1. after = "finished"
    BY <1>1, <1>2, <1>3, <1>5 DEF Stage, Phases
  <2> QED
    BY <1>1, <1>5, <2>1 DEF Phase, Stage
<1> QED
  BY <1>4, <1>5

\* The settings stay, and the clock moves one unit at a time.
LEMMA TimePasses == ASSUME SessionInv, [Next]_vars PROVE rules' = rules /\ (row' = row => clock' \in {clock, clock + 1})
<1>1. CASE UNCHANGED vars
  BY <1>1 DEF vars
<1>2. CASE Next
  BY <1>2, Zenon DEF Next, Tick, onEvent, handleLogin, startSession, startSessionUnbumped, startSessionShared,
     Answer, handleToken, handleStart, handleSubmit, storeSubmission, Load, Request, Loaded, Edit,
     handleParticipationUpdate, setUserDisabled
<1> QED
  BY <1>1, <1>2

\* Time alone never opens what it has closed, for every contest: one that
\* finished does not run again, and no practice precedes the analysis
\* (Compute).
THEOREM PhasesInOrderAlways == Spec => PhaseOrder
<1> DEFINE before == Phase(rules, participantOf(row), clock)
           after == Phase(rules, participantOf(row), clock')
           ordered == row' = row => Stage(before) <= Stage(after) \/ (before = "analysis" /\ after = "finished")
<1>1. SessionInv /\ [Next]_vars => ordered
  <2> SUFFICES ASSUME SessionInv, [Next]_vars, row' = row
               PROVE  Stage(before) <= Stage(after) \/ (before = "analysis" /\ after = "finished")
    OBVIOUS
  <2>1. Window(rules) /\ row \in Row /\ clock \in Nat
    BY DEF SessionInv, Shape
  <2>2. clock' \in Nat /\ clock <= clock'
    BY <2>1, TimePasses
  <2> QED
    BY <2>1, <2>2, PhasesInOrder
<1>2. Init => SessionInv
  BY SessionInit
<1>3. SessionInv /\ [Next]_vars => SessionInv'
  BY SessionStep
<1>4. Spec => [][ordered]_vars
  <2> HIDE DEF ordered
  <2> QED BY <1>1, <1>2, <1>3, PTL DEF Spec
<1> QED
  BY <1>4 DEF PhaseOrder

-----------------------------------------------------------------------------
(***************************************************************************)
(* The contestant's own time.                                              *)
(***************************************************************************)
\* What was read of the participation holds its starting time, unless that
\* was not there yet or was taken away, and no more extra time than it has.
Known(r, lost, part) ==
    /\ ~lost /\ part.starting # Unset => part.starting = r.starting
    /\ part.extra <= r.extra

KnownCaches == \A s \in Servers : cache[s] # Nothing => Known(row, restarted, cache[s].row)

KnownRequests ==
    \A c \in Clients : req[c].pc \in {"loading", "accepted", "storing"} => Known(row, restarted, req[c].part)

KnownEditor == editor.pc = "read" /\ ~restarted /\ editor.starting # Unset => editor.starting = row.starting

\* A start that was let in is one of a contest with own times, in its window.
StartsRight ==
    \A c \in Clients : Accepted(c, "start") => rules.perUser > 0 /\ rules.start <= req[c].at

StartingRight == ~restarted /\ row.starting # Unset => rules.perUser > 0 /\ rules.start <= row.starting

OwnInv == KnownCaches /\ KnownRequests /\ KnownEditor /\ StartsRight /\ StartingRight /\ OwnTime

\* The row changes as the code changes it: a starting time stays or is taken
\* away, and extra time grows.
Grown(r, lost, q, lost2) ==
    /\ ~lost2 => ~lost /\ (r.starting # Unset => q.starting = r.starting)
    /\ r.extra <= q.extra

\* What was known of a row stays so when it grows.
LEMMA KnownLater ==
    ASSUME NEW r \in Row, NEW lost, NEW q \in Row, NEW lost2, Grown(r, lost, q, lost2),
           NEW part \in Row, Known(r, lost, part)
    PROVE  Known(q, lost2, part)
<1>1. r.extra \in Nat /\ q.extra \in Nat /\ part.extra \in Nat
  BY DEF Row
<1> QED
  BY <1>1 DEF Known, Grown

\* A row is known of itself.
LEMMA KnownItself == \A r \in Row : \A lost : Known(r, lost, r)
BY DEF Known, Row

\* Nobody has started at first.
LEMMA OwnInit == Init => OwnInv
<1> SUFFICES ASSUME Init PROVE OwnInv
  OBVIOUS
<1>1. PICK x \in Scenarios :
        /\ row = [starting |-> Unset, extra |-> 0, nonce |-> 0, disabled |-> Unset]
        /\ cache = [s \in Servers |-> Nothing]
        /\ req = [c \in Clients |-> Idle]
        /\ editor = Idle
        /\ rows = <<>>
  BY Zenon DEF Init
<1>2. OwnTime
  BY <1>1 DEF OwnTime, OfficialTimes
<1> QED
  BY <1>1, <1>2 DEF OwnInv, KnownCaches, KnownRequests, KnownEditor, StartsRight, StartingRight, Accepted, Idle

\* The official times are inside the contestant's time.
Inside(r, at) ==
    /\ rules.start <= at /\ at < rules.stop + r.extra
    /\ rules.perUser > 0 => /\ r.starting # Unset /\ r.starting <= at
                            /\ at < r.starting + rules.perUser + r.extra

\* The elements of a sequence.
LEMMA ElementOf == ASSUME NEW S, NEW s \in Seq(S), NEW i \in DOMAIN s PROVE s[i] \in S
OBVIOUS

\* What is appended, or was there.
LEMMA AppendElement ==
    ASSUME NEW S, NEW s \in Seq(S), NEW e, NEW i \in DOMAIN Append(s, e)
    PROVE  Append(s, e)[i] = e \/ (i \in DOMAIN s /\ Append(s, e)[i] = s[i])
<1>1. s \in Seq(S \cup {e}) /\ e \in S \cup {e}
  OBVIOUS
<1>2. PICK T : T = S \cup {e}
  OBVIOUS
<1>3. s \in Seq(T) /\ e \in T
  BY <1>1, <1>2
<1> QED
  BY <1>3

\* Official submissions have times.
LEMMA OfficialIn == ASSUME SessionInv PROVE OfficialTimes \subseteq Nat
<1>1. rows \in Seq([task : Tasks, at : Nat, official : BOOLEAN])
  BY DEF SessionInv, Shape
<1>2. ASSUME NEW i \in DOMAIN rows PROVE rows[i].at \in Nat
  <2>1. rows[i] \in [task : Tasks, at : Nat, official : BOOLEAN]
    BY <1>1, ElementOf, Zenon
  <2> QED BY <2>1
<1> QED
  BY <1>2, Zenon DEF OfficialTimes

\* What was inside stays inside when the row grows.
LEMMA InsideLater ==
    ASSUME SessionInv, NEW q \in Row, NEW lost2, Grown(row, restarted, q, lost2), ~lost2,
           NEW at \in Nat, Inside(row, at)
    PROVE  Inside(q, at)
<1>1. /\ row.extra \in Nat /\ q.extra \in Nat /\ row.starting \in Int /\ q.starting \in Int
      /\ rules.start \in Nat /\ rules.stop \in Nat /\ rules.perUser \in Nat
  BY DEF SessionInv, Shape, Row, Window
<1> QED
  BY <1>1 DEF Inside, Grown

\* Own time stays kept while no submission comes.
LEMMA OwnTimeLater ==
    ASSUME SessionInv, OwnTime, row' \in Row, Grown(row, restarted, row', restarted'), rules' = rules, rows' = rows
    PROVE  OwnTime'
<1> SUFFICES ASSUME ~restarted', NEW at \in OfficialTimes
             PROVE  Inside(row', at)
  BY DEF OwnTime, OfficialTimes, Inside
<1>1. ~restarted
  BY DEF Grown
<1>2. at \in Nat
  BY OfficialIn
<1>3. Inside(row, at)
  BY <1>1 DEF OwnTime, Inside
<1> QED
  BY <1>2, <1>3, InsideLater

\* Steps after which every cache and request is as it was or forgotten, or
\* a row that was known.
LEMMA OwnKept ==
    ASSUME SessionInv, OwnInv, SessionInv', Grown(row, restarted, row', restarted'), rules' = rules, rows' = rows,
           \A s \in Servers : cache'[s] \in {cache[s], Nothing},
           \A c \in Clients : req'[c] = req[c] \/ req'[c].pc \in {"idle", "login"},
           KnownEditor', StartingRight'
    PROVE  OwnInv'
<1>1. row \in Row /\ row' \in Row
  BY DEF SessionInv, Shape
<1>2. KnownCaches'
  <2> SUFFICES ASSUME NEW s \in Servers, cache'[s] # Nothing PROVE Known(row', restarted', cache'[s].row)
    BY DEF KnownCaches
  <2>1. cache'[s] = cache[s] /\ cache[s].row \in Row
    BY DEF SessionInv, Shape
  <2>2. Known(row, restarted, cache[s].row)
    BY <2>1 DEF OwnInv, KnownCaches
  <2> QED BY <1>1, <2>1, <2>2, KnownLater
<1>3. KnownRequests'
  <2> SUFFICES ASSUME NEW c \in Clients, req'[c].pc \in {"loading", "accepted", "storing"}
               PROVE  Known(row', restarted', req'[c].part)
    BY DEF KnownRequests
  <2>1. req'[c] = req[c] /\ req[c].part \in Row
    BY HeldParts DEF SessionInv, Requested, Idle, LoginOf, LoadingAt, HeldAt
  <2>2. Known(row, restarted, req[c].part)
    BY <2>1 DEF OwnInv, KnownRequests
  <2> QED BY <1>1, <2>1, <2>2, KnownLater
<1>4. StartsRight'
  <2> SUFFICES ASSUME NEW c \in Clients, Accepted(c, "start")'
               PROVE  rules'.perUser > 0 /\ rules'.start <= req'[c].at
    BY DEF StartsRight
  <2>1. req'[c] = req[c]
    BY DEF Accepted
  <2> QED BY <2>1 DEF OwnInv, StartsRight, Accepted
<1>5. OwnTime'
  BY <1>1, OwnTimeLater DEF OwnInv
<1> QED
  BY <1>2, <1>3, <1>4, <1>5 DEF OwnInv

\* A row whose times stay has grown.
LEMMA GrownSame == ASSUME SessionInv, row'.starting = row.starting, row'.extra = row.extra, restarted' = restarted
                   PROVE  Grown(row, restarted, row', restarted')
BY DEF SessionInv, Shape, Row, Grown

\* Steps that do not touch the starting time, the extra time or the editor.
LEMMA OwnUntouched ==
    ASSUME SessionInv, OwnInv, SessionInv', row'.starting = row.starting, row'.extra = row.extra,
           restarted' = restarted, rules' = rules, rows' = rows, editor' = editor,
           \A s \in Servers : cache'[s] \in {cache[s], Nothing},
           \A c \in Clients : req'[c] = req[c] \/ req'[c].pc \in {"idle", "login"}
    PROVE  OwnInv'
<1>1. KnownEditor' /\ StartingRight'
  BY DEF OwnInv, KnownEditor, StartingRight
<1> QED
  BY <1>1, GrownSame, OwnKept

\* withAuth lets in what is known, and starts in time.
LEMMA OwnAuth ==
    ASSUME SessionInv, OwnInv, SessionInv', NEW c \in Clients, NEW s \in Servers, NEW what \in Requests,
           NEW part \in Row, Known(row, restarted, part), withAuth(c, s, what, part),
           UNCHANGED <<clock, rules, row, restarted, editor, rows>>,
           KnownCaches'
    PROVE  OwnInv'
<1>1. req' = [req EXCEPT ![c] = Idle]
        \/ /\ req' = [req EXCEPT ![c] = [pc |-> "accepted", server |-> s, what |-> what, part |-> part, at |-> clock]]
           /\ Open(what, part, clock)
  BY Zenon DEF withAuth
<1>2. DOMAIN req = Clients
  BY DEF SessionInv, Requested
<1>3. \A d \in Clients : d # c => req'[d] = req[d]
  BY <1>1, <1>2
<1>4. req'[c].pc = "idle" \/ (/\ req'[c].pc = "accepted" /\ req'[c].what = what /\ req'[c].part = part
                              /\ req'[c].at = clock /\ Open(what, part, clock))
  BY <1>1, <1>2 DEF Idle
<1>5. KnownRequests'
  BY <1>3, <1>4 DEF OwnInv, KnownRequests
<1>6. StartsRight'
  <2> SUFFICES ASSUME NEW d \in Clients, Accepted(d, "start")'
               PROVE  rules'.perUser > 0 /\ rules'.start <= req'[d].at
    BY DEF StartsRight
  <2>1. CASE d # c
    BY <2>1, <1>3 DEF OwnInv, StartsRight, Accepted
  <2>2. CASE d = c
    <3>1. what[1] = "start" /\ req'[c].at = clock /\ Open(what, part, clock)
      BY <1>4, <2>2 DEF Accepted
    <3>2. CanStart(rules, participantOf(part), clock)
      BY <3>1 DEF Open
    <3>3. Window(rules) /\ clock \in Nat
      BY DEF SessionInv, Shape
    <3> QED BY <2>2, <3>1, <3>2, <3>3, StartTimes
  <2> QED BY <2>1, <2>2
<1>7. KnownEditor' /\ StartingRight' /\ OwnTime'
  BY DEF OwnInv, KnownEditor, StartingRight, OwnTime, OfficialTimes
<1> QED
  BY <1>5, <1>6, <1>7 DEF OwnInv

\* A request is let in by a copy of what is known.
LEMMA OwnRequest ==
    ASSUME SessionInv, OwnInv, SessionInv', NEW c \in Clients, NEW s \in Servers, NEW what \in Requests,
           Request(c, s, what)
    PROVE  OwnInv'
<1>1. UNCHANGED <<clock, rules, row, restarted, cache, editor, rows>> /\ withAuth(c, s, what, cache[s].row)
  BY DEF Request
<1>2. cache[s] # Nothing
  BY DEF Request, Fresh
<1>3. cache[s].row \in Row
  BY <1>2 DEF SessionInv, Shape
<1>4. Known(row, restarted, cache[s].row)
  BY <1>2 DEF OwnInv, KnownCaches
<1>5. KnownCaches'
  BY <1>1 DEF OwnInv, KnownCaches
<1> QED
  BY <1>1, <1>3, <1>4, <1>5, OwnAuth

\* So it is by a row read.
LEMMA OwnLoaded ==
    ASSUME SessionInv, OwnInv, SessionInv', NEW c \in Clients, NEW what \in Requests, Loaded(c, what)
    PROVE  OwnInv'
<1>1. PICK part, s : part = req[c].part /\ s = req[c].server
  OBVIOUS
<1>2. /\ UNCHANGED <<clock, rules, row, restarted, editor, rows>> /\ withAuth(c, s, what, part)
      /\ cache' = [cache EXCEPT ![s] = [row |-> part, loaded |-> clock]]
  BY <1>1 DEF Loaded
<1>3. req[c].pc = "loading"
  BY DEF Loaded
<1>4. part \in Row /\ s \in Servers
  BY <1>1, <1>3 DEF SessionInv, Requested, Idle, LoginOf, LoadingAt, HeldAt
<1>5. Known(row, restarted, part)
  BY <1>1, <1>3 DEF OwnInv, KnownRequests
<1>6. KnownCaches'
  <2>1. DOMAIN cache = Servers
    BY DEF SessionInv, Shape
  <2> SUFFICES ASSUME NEW z \in Servers, cache'[z] # Nothing PROVE Known(row, restarted, cache'[z].row)
    BY <1>2 DEF KnownCaches
  <2>2. CASE z = s
    BY <2>1, <2>2, <1>2, <1>5
  <2>3. CASE z # s
    BY <2>1, <2>3, <1>2 DEF OwnInv, KnownCaches
  <2> QED BY <2>2, <2>3
<1> QED
  BY <1>2, <1>4, <1>5, <1>6, OwnAuth

\* What is read is known.
LEMMA OwnLoad ==
    ASSUME SessionInv, OwnInv, SessionInv', NEW c \in Clients, NEW s \in Servers, Load(c, s)
    PROVE  OwnInv'
<1>1. UNCHANGED <<rules, row, restarted, cache, editor, rows>>
  BY DEF Load
<1>2. DOMAIN req = Clients /\ row \in Row
  BY DEF SessionInv, Shape, Requested
<1>3. /\ req'[c].pc = "loading" /\ req'[c].part = row
      /\ \A d \in Clients : d # c => req'[d] = req[d]
  BY <1>2 DEF Load
<1>4. KnownRequests'
  BY <1>1, <1>2, <1>3, KnownItself DEF OwnInv, KnownRequests
<1>5. StartsRight'
  BY <1>1, <1>3 DEF OwnInv, StartsRight, Accepted
<1>6. KnownCaches' /\ KnownEditor' /\ StartingRight' /\ OwnTime'
  BY <1>1 DEF OwnInv, KnownCaches, KnownEditor, StartingRight, OwnTime, OfficialTimes
<1> QED
  BY <1>4, <1>5, <1>6 DEF OwnInv

\* What is accepted lies in the time of the row that let it in.
LEMMA OwnSubmit ==
    ASSUME SessionInv, OwnInv, SessionInv', NEW c \in Clients, handleSubmit(c)
    PROVE  OwnInv'
<1>1. UNCHANGED <<rules, row, restarted, cache, editor, rows>>
  BY DEF handleSubmit
<1>2. DOMAIN req = Clients
  BY DEF SessionInv, Requested
<1>3. req' = [req EXCEPT ![c] = [req[c] EXCEPT !.pc = "storing"]] \/ req' = [req EXCEPT ![c] = Idle]
  BY Zenon DEF handleSubmit
<1>4. req[c].pc = "accepted" /\ req[c] \in HeldAt(clock)
  BY HeldParts DEF handleSubmit, Accepted
<1>5. /\ req'[c].pc \in {"idle", "storing"} /\ (req'[c].pc = "storing" => req'[c].part = req[c].part)
      /\ \A d \in Clients : d # c => req'[d] = req[d]
  BY <1>2, <1>3, <1>4 DEF Idle, HeldAt
<1>6. KnownRequests'
  BY <1>1, <1>4, <1>5 DEF OwnInv, KnownRequests
<1>7. StartsRight'
  BY <1>1, <1>5 DEF OwnInv, StartsRight, Accepted
<1>8. KnownCaches' /\ KnownEditor' /\ StartingRight' /\ OwnTime'
  BY <1>1 DEF OwnInv, KnownCaches, KnownEditor, StartingRight, OwnTime, OfficialTimes
<1> QED
  BY <1>6, <1>7, <1>8 DEF OwnInv

\* A stored submission that is official lies in the contestant's time.
LEMMA OwnStore ==
    ASSUME SessionInv, OwnInv, SessionInv', NEW c \in Clients, storeSubmission(c)
    PROVE  OwnInv'
<1>1. UNCHANGED <<rules, row, restarted, cache, editor>>
  BY DEF storeSubmission
<1>2. DOMAIN req = Clients /\ req[c].pc = "storing" /\ req' = [req EXCEPT ![c] = Idle]
  BY DEF SessionInv, Requested, storeSubmission
<1>3. \A d \in Clients : req'[d] = req[d] \/ req'[d].pc = "idle"
  BY <1>2 DEF Idle
<1>4. KnownRequests' /\ StartsRight' /\ KnownCaches' /\ KnownEditor' /\ StartingRight'
  BY <1>1, <1>3 DEF OwnInv, KnownRequests, StartsRight, Accepted, KnownCaches, KnownEditor, StartingRight
<1>5. PICK part, at, official, new :
        /\ part = req[c].part /\ at = req[c].at /\ official = Status(c, Official)
        /\ new = [task |-> req[c].what[2], at |-> req[c].at, official |-> Status(c, Official)]
  OBVIOUS
<1>6. part \in Row /\ at \in Nat /\ Known(row, restarted, part)
  BY <1>2, <1>5, HeldParts DEF OwnInv, KnownRequests
<1>7. /\ rows' = Append(rows, new) /\ new.at = at /\ new.official = official
      /\ official = Official(rules, participantOf(part), at)
  BY <1>5 DEF storeSubmission, Status
<1>8. Window(rules) /\ row \in Row
  BY DEF SessionInv, Shape
<1>9. ASSUME ~restarted, official PROVE Inside(row, at)
  <2>1. /\ at < rules.stop + part.extra
        /\ rules.perUser > 0 => /\ part.starting # Unset /\ part.starting <= at
                                /\ at < part.starting + rules.perUser + part.extra
        /\ ~(rules.perUser > 0) => rules.start <= at
    BY <1>6, <1>7, <1>8, <1>9, OfficialTime
  <2>2. part.extra <= row.extra /\ (part.starting # Unset => part.starting = row.starting)
    BY <1>6, <1>9 DEF Known
  <2>3. row.starting # Unset => rules.start <= row.starting
    BY <1>9 DEF OwnInv, StartingRight
  <2>4. /\ row.extra \in Nat /\ part.extra \in Nat /\ row.starting \in Int /\ part.starting \in Int
        /\ rules.start \in Nat /\ rules.stop \in Nat /\ rules.perUser \in Nat
    BY <1>6, <1>8 DEF Row, Window
  <2> QED BY <1>6, <2>1, <2>2, <2>3, <2>4 DEF Inside
<1>10. OwnTime'
  <2> SUFFICES ASSUME ~restarted', NEW u \in OfficialTimes' PROVE Inside(row', u)
    BY <1>1 DEF OwnTime, Inside
  <2>1. PICK i \in DOMAIN rows' : rows'[i].official /\ u = rows'[i].at
    BY Zenon DEF OfficialTimes
  <2>2. rows'[i] = new \/ (i \in DOMAIN rows /\ rows'[i] = rows[i])
    <3>1. rows \in Seq([task : Tasks, at : Nat, official : BOOLEAN])
      BY DEF SessionInv, Shape
    <3> QED BY <3>1, <2>1, <1>7, AppendElement, Zenon
  <2>3. CASE rows'[i] = new
    BY <1>1, <1>7, <1>9, <2>1, <2>3
  <2>4. CASE i \in DOMAIN rows /\ rows'[i] = rows[i]
    <3>1. u \in OfficialTimes
      BY <2>1, <2>4, Zenon DEF OfficialTimes
    <3>2. Inside(row, u)
      BY <3>1, <1>1 DEF OwnInv, OwnTime, Inside
    <3> QED BY <3>2, <1>1
  <2> QED BY <2>2, <2>3, <2>4
<1> QED
  BY <1>4, <1>10 DEF OwnInv

\* The first press starts the time.
LEMMA OwnPressed ==
    ASSUME SessionInv, OwnInv, SessionInv', NEW c \in Clients, handleStart(c)
    PROVE  OwnInv'
<1>1. UNCHANGED <<rules, restarted, editor, rows>> /\ Accepted(c, "start")
  BY DEF handleStart
<1>2. row \in Row /\ req[c].at \in Nat /\ DOMAIN req = Clients
  BY <1>1, HeldParts DEF SessionInv, Shape, Requested, Accepted
<1>3. row' = [row EXCEPT !.starting = IF row.starting = Unset THEN req[c].at ELSE row.starting]
  BY DEF handleStart, StartParticipation
<1>4. /\ row'.extra = row.extra /\ row.extra \in Nat
      /\ row'.starting = IF row.starting = Unset THEN req[c].at ELSE row.starting
  BY <1>2, <1>3 DEF Row
<1>5. Grown(row, restarted, row', restarted')
  BY <1>1, <1>4 DEF Grown
<1>6. \A s \in Servers : cache'[s] \in {cache[s], Nothing}
  BY DEF handleStart, Announce
<1>7. \A d \in Clients : req'[d] = req[d] \/ req'[d].pc \in {"idle", "login"}
  BY <1>2 DEF handleStart, Idle
<1>8. KnownEditor'
  BY <1>1, <1>4 DEF OwnInv, KnownEditor
<1>9. StartingRight'
  BY <1>1, <1>4 DEF OwnInv, StartsRight, StartingRight
<1> QED
  BY <1>1, <1>5, <1>6, <1>7, <1>8, <1>9, OwnKept

\* The organizers read the starting time.
LEMMA OwnEdit == ASSUME SessionInv, OwnInv, SessionInv', NEW ask, Edit(ask) PROVE OwnInv'
<1>1. UNCHANGED <<rules, row, restarted, cache, req, rows>> /\ editor'.starting = row.starting
  BY DEF Edit
<1>2. KnownEditor'
  BY <1>1 DEF KnownEditor
<1> QED
  BY <1>1, <1>2 DEF OwnInv, KnownCaches, KnownRequests, StartsRight, Accepted, StartingRight, OwnTime, OfficialTimes

\* They write it back, or take it away on record.
LEMMA OwnUpdate == ASSUME SessionInv, OwnInv, SessionInv', handleParticipationUpdate PROVE OwnInv'
<1>1. UNCHANGED <<rules, req, rows>> /\ editor' = Idle /\ editor.pc = "read"
  BY DEF handleParticipationUpdate
<1>2. row \in Row /\ row.extra \in Nat
  BY DEF SessionInv, Shape, Row
<1>3. PICK starting, extra, nonce :
        /\ starting = (IF editor.ask = "reset" THEN Unset ELSE editor.starting)
        /\ extra = (IF editor.ask = "more" THEN row.extra + 1 ELSE row.extra)
        /\ nonce = (IF editor.ask = "logout" THEN row.nonce + 1 ELSE row.nonce)
  OBVIOUS
<1>4. row' = [row EXCEPT !.starting = starting, !.extra = extra, !.nonce = nonce]
  BY <1>3 DEF handleParticipationUpdate
<1>5. row'.starting = starting /\ row'.extra = extra
  BY <1>2, <1>4 DEF Row
<1>6. restarted' = (restarted \/ (row.starting # Unset /\ starting # row.starting))
  BY <1>3 DEF handleParticipationUpdate
<1>7. Grown(row, restarted, row', restarted')
  <2>1. row.extra <= row'.extra
    BY <1>2, <1>3, <1>5
  <2>2. ~restarted' => ~restarted /\ (row.starting # Unset => row'.starting = row.starting)
    BY <1>5, <1>6
  <2> QED BY <2>1, <2>2 DEF Grown
<1>8. \A s \in Servers : cache'[s] \in {cache[s], Nothing}
  BY DEF handleParticipationUpdate, Announce
<1>9. KnownEditor'
  BY <1>1 DEF KnownEditor, Idle
<1>10. StartingRight'
  <2> SUFFICES ASSUME ~restarted', row'.starting # Unset
               PROVE  rules.perUser > 0 /\ rules.start <= row'.starting
    BY <1>1 DEF StartingRight
  <2>1. ~restarted /\ starting # Unset
    BY <1>5, <1>6
  <2>2. starting = row.starting
    BY <1>1, <1>3, <2>1 DEF OwnInv, KnownEditor
  <2> QED BY <1>5, <2>1, <2>2 DEF OwnInv, StartingRight
<1> QED
  BY <1>1, <1>7, <1>8, <1>9, <1>10, OwnKept

\* The steps that change neither the starting time nor what is known of it.
LEMMA OwnOthers ==
    ASSUME SessionInv, OwnInv, SessionInv',
           \/ Tick \/ \E s \in Servers : onEvent(s)
           \/ \E c \in Clients, s \in Servers : handleLogin(c, s)
           \/ \E c \in Clients : \/ startSession(c) \/ startSessionUnbumped(c) \/ startSessionShared(c)
                                 \/ Answer(c) \/ handleToken(c)
           \/ \E disabled \in BOOLEAN : setUserDisabled(disabled)
    PROVE  OwnInv'
<1>1. DOMAIN req = Clients /\ DOMAIN cache = Servers /\ row \in Row
  BY DEF SessionInv, Shape, Requested
<1>2. UNCHANGED <<rules, restarted, rows, editor>>
  BY Zenon DEF Tick, onEvent, handleLogin, startSession, startSessionUnbumped, startSessionShared, Answer,
     handleToken, setUserDisabled
<1>3. row'.starting = row.starting /\ row'.extra = row.extra
  BY <1>1 DEF Tick, onEvent, handleLogin, startSession, startSessionUnbumped, startSessionShared, Answer,
     handleToken, setUserDisabled, BumpLoginNonce, SetUserDisabled, Row
<1>4. \A s \in Servers : cache'[s] \in {cache[s], Nothing}
  <2>1. \/ cache' = cache
        \/ \E s \in Servers : cache' = [cache EXCEPT ![s] = Nothing]
        \/ \E here : Announce(here)
    BY Zenon DEF Tick, onEvent, handleLogin, startSession, startSessionUnbumped, startSessionShared, Answer,
       handleToken, setUserDisabled
  <2> QED BY <1>1, <2>1 DEF Announce
<1>5. \A d \in Clients : req'[d] = req[d] \/ req'[d].pc \in {"idle", "login"}
  <2>1. \/ req' = req
        \/ \E c \in Clients : req' = [req EXCEPT ![c] = Idle]
        \/ \E c \in Clients, s \in Servers :
              req' = [req EXCEPT ![c] = [pc |-> "login", server |-> s, nonce |-> GetLoginCandidate.nonce]]
    BY Zenon DEF Tick, onEvent, handleLogin, startSession, startSessionUnbumped, startSessionShared, Answer,
       handleToken, setUserDisabled
  <2> QED BY <1>1, <2>1 DEF Idle
<1> QED
  BY <1>2, <1>3, <1>4, <1>5, OwnUntouched

\* Every step keeps the invariant.
LEMMA OwnStep == SessionInv /\ OwnInv /\ SessionInv' /\ [Next]_vars => OwnInv'
<1> SUFFICES ASSUME SessionInv, OwnInv, SessionInv', [Next]_vars PROVE OwnInv'
  OBVIOUS
<1>1. CASE UNCHANGED vars
  BY <1>1 DEF vars, OwnInv, KnownCaches, KnownRequests, KnownEditor, StartsRight, Accepted, StartingRight,
     OwnTime, OfficialTimes
<1>2. CASE Next
  BY <1>2, OwnOthers, OwnRequest, OwnLoaded, OwnLoad, OwnSubmit, OwnStore, OwnPressed, OwnEdit, OwnUpdate, Zenon DEF Next
<1> QED
  BY <1>1, <1>2

\* Official submissions lie inside the contest and inside the contestant's own
\* time counted from the first press of the start button, whichever servers
\* were pressed and however old what they remember of the participation,
\* unless the organizers took the starting time away (Compute,
\* StartParticipation).
THEOREM OwnTimeKept == Spec => []OwnTime
<1>1. Init => SessionInv /\ OwnInv
  BY SessionInit, OwnInit
<1>2. SessionInv /\ OwnInv /\ [Next]_vars => SessionInv' /\ OwnInv'
  BY SessionStep, OwnStep
<1>3. OwnInv => OwnTime
  BY DEF OwnInv
<1> QED
  BY <1>1, <1>2, <1>3, PTL DEF Spec

-----------------------------------------------------------------------------
(***************************************************************************)
(* The rankings.                                                           *)
(***************************************************************************)
\* What a browser holds, and what a server may send it.
RowsFrame ==
    [kind : {"rows"}, base : Nat, seq : Nat, changed : SUBSET Keys, rows : Rows, removed : SUBSET Keys,
     unfrozen : BOOLEAN]

Page ==
    [state : {"closed", "open", "reloading"}, at : RankingServers \cup {None}, name : Names \cup {None},
     seq : Nat, rows : Rows, sub : {"off", "on", "orphan"}, frames : Seq({Reload} \cup RowsFrame),
     reveal : SUBSET (Keys \X (Vals \cup {None})), overtaken : BOOLEAN]

\* The shape of the servers, their files and the pages: a page that is open
\* is of some server and name, and a page that is connected of a board that
\* is there.
WebShape ==
    /\ boards \in [RankingServers -> [Names -> Board \cup {None}]]
    /\ disk \in [RankingServers -> [Names -> Saved \cup {None}]]
    /\ saving \in [RankingServers -> [name : Names, b : Content, seq : Nat, key : BOOLEAN] \cup {None}]
    /\ pages \in [Pages -> Page]
    /\ \A g \in Pages :
         /\ pages[g].state = "open" => pages[g].at \in RankingServers /\ pages[g].name \in Names
         /\ pages[g].sub # "off" => pages[g].state = "open"
         /\ pages[g].sub = "on" => boards[pages[g].at][pages[g].name] # None

\* The requests of the pusher, and its jobs.
DeletePushes == [kind : {"delete"}, name : Names]

FullPushes == [kind : {"full"}, name : Names, seq : Nat, board : Content, key : BOOLEAN]

DeltaPushes ==
    [kind : {"delta"}, name : Names, seq : Nat, base : Nat, changed : SUBSET Keys, board : Content,
     removed : SUBSET Keys]

\* A request is one of the three.
Pushes == DeletePushes \cup FullPushes \cup DeltaPushes

\* A board being sent.
SendJob ==
    [phase : {"send"}, full : BOOLEAN, name : Names, key : BOOLEAN, next : Content,
     d : [changed : SUBSET Keys, removed : SUBSET Keys], todo : SUBSET RankingServers, failed : BOOLEAN]

\* The job is of its phase.
JobShape ==
    CASE job.phase = "idle" -> job = NoPush
      [] job.phase = "compute" -> job \in ComputeJob
      [] job.phase = "send" -> job \in SendJob /\ st.seq > 0
      [] job.phase = "delete" -> job \in DeleteJob(Then) /\ (job.then = None => ~db.exists)

\* What is about to be computed was not under the mark of the freeze while
\* the contest was running.
Computing == job.phase = "compute" \/ (job.phase = "delete" /\ job.then \in ComputeJob)

NotYetFrozen ==
    contestClock = "running" =>
        /\ job.phase = "compute" => ~job.frozen
        /\ job.phase = "delete" /\ job.then \in ComputeJob => ~job.then.frozen

\* The shape of the contest, the pusher and the requests given up.
PushShape ==
    /\ db \in [exists : BOOLEAN, name : Names, vis : {"public", "admins", "hidden"}, after : BOOLEAN,
               unfrozen : BOOLEAN, hdr : Hdrs, rows : Rows]
    /\ contestClock \in {"running", "frozen", "ended"} /\ atFreeze \in Rows
    /\ db.rows \in everRows /\ atFreeze \in everRows
    /\ st \in PusherState \cup {None}
    /\ st # None /\ st.listed => st.name \in Names
    /\ acked \in [RankingServers -> [Names -> Int]]
    /\ job.phase \in {"idle", "compute", "send", "delete"}
    /\ job.phase # "idle" => st # None /\ st.name \in Names
    /\ JobShape
    /\ NotYetFrozen
    /\ late \subseteq [to : RankingServers, m : Pushes]
    /\ count \in [changes : Nat, faults : Nat, crashes : Nat, restarts : Nat]

\* The shape of them all.
RankingShape == WebShape /\ PushShape

-----------------------------------------------------------------------------
\* A delta turns the rows r into those of a later board.
Turns(r, changed, new, removed) == Merged(r, changed, new, removed) = new

\* What the table shows once the rows put off are revealed.
Whole(page, r) ==
    \A k \in Keys : \/ \E x \in page.reveal : x[1] = k
                    \/ page.rows[k] = r[k]

\* What is put off are entries of those rows.
RevealsOf(page, r) == \A x \in page.reveal : x[2] = r[x[1]]

\* Everything the servers and the pages hold under the number n is of the
\* board b.
BoardsCarry(n, b) ==
    \A s \in RankingServers, m \in Names :
        boards[s][m] # None =>
            /\ boards[s][m].seq = n => boards[s][m].b = b
            /\ boards[s][m].shown = n => boards[s][m].b.rows = b.rows

\* So are the files, and the board being written.
FilesCarry(n, b) ==
    \A s \in RankingServers :
        /\ \A m \in Names : disk[s][m] # None /\ disk[s][m].seq = n => disk[s][m].b = b
        /\ saving[s] # None /\ saving[s].seq = n => saving[s].b = b

\* A frame of the number shows its rows, and one from it leads to its own.
FrameCarries(f, n, b) ==
    f.kind = "rows" =>
        /\ f.seq = n => f.rows = b.rows
        /\ f.base = n => Turns(b.rows, f.changed, f.rows, f.removed)

\* A page that no update overtook has the rows of its number, and its frames are of theirs.
PageCarries(page, n, b) ==
    /\ page.state = "open" /\ ~page.overtaken /\ page.seq = n => Whole(page, b.rows) /\ RevealsOf(page, b.rows)
    /\ \A i \in DOMAIN page.frames : FrameCarries(page.frames[i], n, b)

\* The servers and the pages.
WebCarries(n, b) ==
    BoardsCarry(n, b) /\ FilesCarry(n, b) /\ \A g \in Pages : PageCarries(pages[g], n, b)

\* So does the pusher, in its requests too.
PushCarries(m, n, b) ==
    m.kind # "delete" =>
        /\ m.seq = n => m.board = b
        /\ m.kind = "delta" /\ m.base = n =>
              Header(b) = Header(m.board) /\ Turns(b.rows, m.changed, m.board.rows, m.removed)

\* Whether another board may still be computed.
Live == db.exists \/ Computing \/ job.phase = "send"

\* The requests given up, the board pushed last and the one being sent.
PusherCarries(n, b) ==
    /\ \A r \in late : PushCarries(r.m, n, b)
    /\ Live /\ st # None /\ job.phase # "send" /\ st.board # None /\ st.seq = n => st.board = b
    /\ job.phase = "send" /\ st.seq = n => job.next = b
    /\ job.phase = "send" /\ ~job.full /\ st.seq - 1 = n =>
          Header(b) = Header(job.next) /\ Turns(b.rows, job.d.changed, job.next.rows, job.d.removed)

\* The board is of the contest: its rows are rows the contest had, those of
\* the freeze under its mark.
Genuine(b) ==
    b.rows \in everRows /\ (b.frozen => contestClock # "running" /\ b.rows = atFreeze)

\* No number is above N, the last one given out.
FrameBounded(f, N) == f.kind = "rows" => f.seq <= N /\ f.base <= N

\* A page and its frames.
PageBounded(page, N) ==
    /\ page.state = "open" => page.seq <= N
    /\ \A i \in DOMAIN page.frames : FrameBounded(page.frames[i], N)

\* The servers and the pages.
WebBounded(N) ==
    /\ \A s \in RankingServers, m \in Names :
         /\ boards[s][m] # None => boards[s][m].seq <= N /\ boards[s][m].shown <= N
         /\ disk[s][m] # None => disk[s][m].seq <= N
    /\ \A s \in RankingServers : saving[s] # None => saving[s].seq <= N
    /\ \A g \in Pages : PageBounded(pages[g], N)

\* A request.
PushBounded(m, N) == m.kind # "delete" => m.seq <= N /\ (m.kind = "delta" => m.base <= N)

\* The pusher, which has given out N while it may compute another board.
PusherBounded(N) ==
    /\ \A r \in late : PushBounded(r.m, N)
    /\ Live => N = state.seq

\* The number is of one board, which was computed from the contest.
OneBoard(n) == \E b \in Content : Genuine(b) /\ WebCarries(n, b) /\ PusherCarries(n, b)

\* So is every number up to the last.
Numbered(N) == WebBounded(N) /\ PusherBounded(N) /\ \A n \in 0 .. N : OneBoard(n)

\* The inductive invariant.
RankingInv == RankingShape /\ (count.restarts = 0 => \E N \in Nat : Numbered(N))

\* None is no record.
LEMMA Apart ==
    /\ None \notin Content /\ None \notin Board /\ None \notin Saved /\ None \notin PusherState
    /\ None \notin ComputeJob /\ None \notin DeleteJob({NoPush}) /\ None # NoPush
BY RankingWebAssumption, RankingPushAssumption

\* What Diff finds between two boards turns the rows of one into those of
\* the other, and it finds nothing only between equal rows.
LEMMA DiffTurns ==
    ASSUME NEW old \in Content, NEW new \in Content, NEW d, d = Diff(old, new)
    PROVE  /\ d.changed \subseteq Keys /\ d.removed \subseteq Keys
           /\ Turns(old.rows, d.changed, new.rows, d.removed)
           /\ d.changed = {} /\ d.removed = {} => new.rows = old.rows
<1>1. old # None
  BY Apart
<1>2. old.rows \in Rows /\ new.rows \in Rows
  BY DEF Content
<1>3. /\ d.changed = {k \in Keys : new.rows[k] # None /\ old.rows[k] # new.rows[k]}
      /\ d.removed = {k \in Keys : old.rows[k] # None /\ new.rows[k] = None}
  BY <1>1 DEF Diff
<1>4. \A k \in Keys : (IF k \in d.removed THEN None ELSE IF k \in d.changed THEN new.rows[k] ELSE old.rows[k]) = new.rows[k]
  BY <1>3
<1>5. Turns(old.rows, d.changed, new.rows, d.removed)
  BY <1>2, <1>4 DEF Turns, Merged, Rows
<1>6. d.changed = {} /\ d.removed = {} => new.rows = old.rows
  <2>1. d.changed = {} /\ d.removed = {} => \A k \in Keys : new.rows[k] = old.rows[k]
    BY <1>4
  <2>2. QED
    BY <2>1, <1>2 DEF Rows
<1>7. QED
  BY <1>3, <1>5, <1>6

\* What changed and what is gone are rows of the board.
LEMMA DiffKeys ==
    ASSUME NEW old, NEW new
    PROVE  Diff(old, new) \in [changed : SUBSET Keys, removed : SUBSET Keys]
BY DEF Diff

\* The four ways a change is announced: to nobody, by a call to reload, not
\* at all since nothing shows, and by the rows that turn the old into the new.
Announced(a, old, new, seq, shown) ==
    \/ a.frame = None /\ a.shown = seq
    \/ a.frame = Reload /\ a.shown = seq
    \/ a.frame = None /\ a.shown = shown /\ old # None /\ new.rows = old.rows
    \/ /\ a.frame \in RowsFrame /\ a.shown = seq /\ old # None
       /\ a.frame.seq = seq /\ a.frame.base = shown /\ a.frame.rows = new.rows
       /\ Turns(old.rows, a.frame.changed, a.frame.rows, a.frame.removed)

\* Announcement takes one of them.
LEMMA AnnouncedHow ==
    ASSUME NEW s, NEW m, NEW old \in Content \cup {None}, NEW new \in Content, NEW seq \in Nat, NEW shown \in Nat,
           NEW a, a = Announcement(s, m, old, new, seq, shown)
    PROVE  Announced(a, old, new, seq, shown)
<1> DEFINE unfrozen == old # None /\ old.frozen /\ ~new.frozen /\ old.hdr = new.hdr /\ old.name = new.name
           d == Diff(old, new)
           told == [kind |-> "rows", base |-> shown, seq |-> seq, changed |-> d.changed,
                    rows |-> new.rows, removed |-> d.removed, unfrozen |-> unfrozen]
<1>1. CASE Subscribed(s, m) = {}
  BY <1>1 DEF Announcement, Announced
<1>2. CASE Subscribed(s, m) # {} /\ ~unfrozen /\ (old = None \/ Header(old) # Header(new))
  <2>1. a = [shown |-> seq, frame |-> Reload]
    BY <1>2 DEF Announcement
  <2>2. QED
    BY <2>1 DEF Announced
<1>3. CASE Subscribed(s, m) # {} /\ ~(~unfrozen /\ (old = None \/ Header(old) # Header(new)))
  <2>1. old # None
    BY <1>3
  <2>2. /\ d.changed \subseteq Keys /\ d.removed \subseteq Keys
        /\ Turns(old.rows, d.changed, new.rows, d.removed)
        /\ d.changed = {} /\ d.removed = {} => new.rows = old.rows
    BY <2>1, DiffTurns
  <2>3. CASE d.changed = {} /\ d.removed = {} /\ ~unfrozen
    <3>1. a = [shown |-> shown, frame |-> None]
      BY <1>3, <2>3 DEF Announcement
    <3>2. QED
      BY <3>1, <2>1, <2>2, <2>3 DEF Announced
  <2>4. CASE ~(d.changed = {} /\ d.removed = {} /\ ~unfrozen)
    <3>1. a = [shown |-> seq, frame |-> told]
      BY <1>3, <2>4 DEF Announcement
    <3>2. unfrozen \in BOOLEAN
      OBVIOUS
    <3>3. new.rows \in Rows
      BY DEF Content
    <3> DEFINE u == unfrozen
    <3>4. told \in RowsFrame
      <4> SUFFICES ASSUME NEW v \in BOOLEAN
                   PROVE  [kind |-> "rows", base |-> shown, seq |-> seq, changed |-> d.changed,
                           rows |-> new.rows, removed |-> d.removed, unfrozen |-> v] \in RowsFrame
        BY <3>2
      <4> QED
        BY <2>2, <3>3 DEF RowsFrame
    <3>5. told.seq = seq /\ told.base = shown /\ told.rows = new.rows /\ told.changed = d.changed /\ told.removed = d.removed
      OBVIOUS
    <3> HIDE DEF told
    <3>6. a.frame = told /\ a.shown = seq
      BY <3>1
    <3>7. QED
      BY <3>4, <3>5, <3>6, <2>1, <2>2 DEF Announced
  <2>5. QED
    BY <2>3, <2>4
<1>4. QED
  BY <1>1, <1>2, <1>3

-----------------------------------------------------------------------------
\* A frame offered to a page joins its queue or is dropped.
LEMMA OfferedPage ==
    ASSUME NEW page \in Page, NEW f \in {Reload} \cup RowsFrame
    PROVE  /\ Offered(page, f) \in Page
           /\ Offered(page, f).state = page.state /\ Offered(page, f).at = page.at
           /\ Offered(page, f).name = page.name /\ Offered(page, f).sub = page.sub
           /\ Offered(page, f).seq = page.seq /\ Offered(page, f).rows = page.rows
           /\ Offered(page, f).reveal = page.reveal /\ Offered(page, f).overtaken = page.overtaken
           /\ \A i \in DOMAIN Offered(page, f).frames :
                \/ i \in DOMAIN page.frames /\ Offered(page, f).frames[i] = page.frames[i]
                \/ Offered(page, f).frames[i] = f
<1>1. page.frames \in Seq({Reload} \cup RowsFrame)
  BY DEF Page
<1> DEFINE q == Append(page.frames, f)
<1>2. q \in Seq({Reload} \cup RowsFrame)
  BY <1>1
<1>3. \A i \in DOMAIN q : (i \in DOMAIN page.frames /\ q[i] = page.frames[i]) \/ q[i] = f
  BY <1>1
<1> HIDE DEF q
<1>4. [page EXCEPT !.frames = q] \in Page
  BY <1>2 DEF Page
<1> DEFINE w == [page EXCEPT !.frames = q]
<1>5. /\ w.state = page.state /\ w.at = page.at /\ w.name = page.name /\ w.sub = page.sub /\ w.seq = page.seq
      /\ w.rows = page.rows /\ w.reveal = page.reveal /\ w.overtaken = page.overtaken /\ w.frames = q
  BY DEF Page
<1>6. Offered(page, f) = w \/ Offered(page, f) = page
  BY DEF Offered, q
<1>7. w \in Page
  BY <1>4
<1> HIDE DEF w
<1>8. CASE Offered(page, f) = w
  BY <1>8, <1>3, <1>5, <1>7
<1>9. CASE Offered(page, f) = page
  BY <1>9
<1>10. QED
  BY <1>6, <1>8, <1>9

\* A frame of the board of its number may be offered to a page.
LEMMA OfferedCarries ==
    ASSUME NEW page \in Page, NEW f \in {Reload} \cup RowsFrame, NEW n, NEW b,
           PageCarries(page, n, b), FrameCarries(f, n, b)
    PROVE  PageCarries(Offered(page, f), n, b)
<1> DEFINE q == Offered(page, f)
<1>1. /\ q.state = page.state /\ q.seq = page.seq /\ q.rows = page.rows
      /\ q.reveal = page.reveal /\ q.overtaken = page.overtaken
      /\ \A i \in DOMAIN q.frames : (i \in DOMAIN page.frames /\ q.frames[i] = page.frames[i]) \/ q.frames[i] = f
  BY OfferedPage
<1> HIDE DEF q
<1>2. \A i \in DOMAIN q.frames : FrameCarries(q.frames[i], n, b)
  BY <1>1 DEF PageCarries
<1>3. QED
  BY <1>1, <1>2 DEF PageCarries, Whole, RevealsOf, q

\* And so may a frame of numbers given out.
LEMMA OfferedBounded ==
    ASSUME NEW page \in Page, NEW f \in {Reload} \cup RowsFrame, NEW N, PageBounded(page, N), FrameBounded(f, N)
    PROVE  PageBounded(Offered(page, f), N)
<1> DEFINE q == Offered(page, f)
<1>1. /\ q.state = page.state /\ q.seq = page.seq
      /\ \A i \in DOMAIN q.frames : (i \in DOMAIN page.frames /\ q.frames[i] = page.frames[i]) \/ q.frames[i] = f
  BY OfferedPage
<1> HIDE DEF q
<1>2. QED
  BY <1>1 DEF PageBounded, q

-----------------------------------------------------------------------------
\* One entry of a table of tables changes.
LEMMA EntrySet ==
    ASSUME NEW S, NEW M, NEW V, NEW f \in [S -> [M -> V]], NEW s \in S, NEW m \in M, NEW v \in V,
           NEW h, h = [f EXCEPT ![s][m] = v]
    PROVE  /\ h \in [S -> [M -> V]]
           /\ h[s][m] = v
           /\ \A t \in S, q \in M : t # s \/ q # m => h[t][q] = f[t][q]
OBVIOUS

\* Who listens is offered the frame, or nobody is told.
Told(s, m, f) ==
    \/ pages' = pages
    \/ pages' = [g \in Pages |-> IF g \in Subscribed(s, m) THEN Offered(pages[g], f) ELSE pages[g]]

\* The pages offered a frame keep their shape.
LEMMA Broadcast ==
    ASSUME WebShape, NEW s \in RankingServers, NEW m \in Names, NEW f \in {Reload} \cup RowsFrame,
           boards'[s][m] # None,
           \A t \in RankingServers, q \in Names : t # s \/ q # m => boards'[t][q] = boards[t][q],
           Told(s, m, f)
    PROVE  /\ pages' \in [Pages -> Page]
           /\ \A g \in Pages : pages'[g] = pages[g] \/ pages'[g] = Offered(pages[g], f)
           /\ \A g \in Pages :
                /\ pages'[g].state = "open" => pages'[g].at \in RankingServers /\ pages'[g].name \in Names
                /\ pages'[g].sub # "off" => pages'[g].state = "open"
                /\ pages'[g].sub = "on" => boards'[pages'[g].at][pages'[g].name] # None
<1>1. pages \in [Pages -> Page]
  BY DEF WebShape
<1>2. \A g \in Pages : pages'[g] = pages[g] \/ pages'[g] = Offered(pages[g], f)
  BY DEF Told
<1>3. \A g \in Pages : Offered(pages[g], f) \in Page /\ pages[g] \in Page
  BY <1>1, OfferedPage
<1>4. pages' \in [Pages -> Page]
  BY <1>1, <1>3 DEF Told
<1>5. ASSUME NEW g \in Pages
      PROVE  /\ pages'[g].state = pages[g].state /\ pages'[g].at = pages[g].at
             /\ pages'[g].name = pages[g].name /\ pages'[g].sub = pages[g].sub
  BY <1>2, <1>1, OfferedPage
<1>6. ASSUME NEW g \in Pages, pages[g].sub = "on"
      PROVE  boards'[pages[g].at][pages[g].name] # None
  <2>1. /\ pages[g].at \in RankingServers /\ pages[g].name \in Names
        /\ boards[pages[g].at][pages[g].name] # None
    BY <1>6 DEF WebShape
  <2>2. QED
    BY <2>1
<1>7. QED
  BY <1>2, <1>4, <1>5, <1>6 DEF WebShape

\* What Rebuild does: the board is the new one, and shows its own number or,
\* since no row changed, still the old one; the frame the pages are offered,
\* if any, turns the rows that were shown into the new ones.
LEMMA RebuiltHow ==
    ASSUME WebShape, NEW s \in RankingServers, NEW m \in Names, NEW new \in Content, NEW seq \in Nat,
           NEW key \in BOOLEAN, Rebuild(s, m, new, seq, key)
    PROVE  \E shown \in Nat, f \in {Reload} \cup RowsFrame :
              /\ boards' = [boards EXCEPT ![s][m] = [b |-> new, seq |-> seq, shown |-> shown,
                                                     key |-> key, dirty |-> TRUE]]
              /\ disk' = disk /\ saving' = saving
              /\ Told(s, m, f)
              /\ \/ shown = seq
                 \/ boards[s][m] # None /\ shown = boards[s][m].shown /\ new.rows = boards[s][m].b.rows
              /\ f.kind = "rows" =>
                    /\ f.seq = seq /\ f.rows = new.rows
                    /\ boards[s][m] # None /\ f.base = boards[s][m].shown
                    /\ Turns(boards[s][m].b.rows, f.changed, f.rows, f.removed)
<1> DEFINE bd == boards[s][m]
           old == IF bd = None THEN None ELSE bd.b
           before == IF bd = None THEN 0 ELSE bd.shown
           a == Announcement(s, m, old, new, seq, before)
<1>1. bd \in Board \cup {None}
  BY DEF WebShape
<1>2. old \in Content \cup {None} /\ before \in Nat
  BY <1>1 DEF Board
<1> HIDE DEF a, old, before
<1>3. Announced(a, old, new, seq, before)
  <2>1. a = Announcement(s, m, old, new, seq, before)
    BY DEF a
  <2>2. QED
    BY <1>2, <2>1, AnnouncedHow
<1>4. old # None => bd # None /\ old = bd.b /\ before = bd.shown
  BY DEF old, before
<1>5. /\ boards' = [boards EXCEPT ![s][m] = [b |-> new, seq |-> seq, shown |-> a.shown, key |-> key, dirty |-> TRUE]]
      /\ IF a.frame = None THEN UNCHANGED pages ELSE broadcast(s, m, a.frame)
      /\ disk' = disk /\ saving' = saving
  BY DEF Rebuild, a, old, before
<1>6. Reload.kind # "rows"
  BY DEF Reload
<1>7. CASE a.frame = None
  <2>1. pages' = pages
    BY <1>7, <1>5
  <2>2. a.shown \in Nat
    BY <1>2, <1>3, <1>7 DEF Announced
  <2>3. a.shown = seq \/ (bd # None /\ a.shown = bd.shown /\ new.rows = bd.b.rows)
    BY <1>3, <1>4 DEF Announced
  <2>4. QED
    BY <1>5, <1>6, <2>1, <2>2, <2>3 DEF Told
<1>8. CASE a.frame # None /\ a.frame = Reload
  <2>1. pages' = [g \in Pages |-> IF g \in Subscribed(s, m) THEN Offered(pages[g], Reload) ELSE pages[g]]
    BY <1>8, <1>5 DEF broadcast
  <2>2. a.shown = seq
    BY <1>3, <1>8, <1>6 DEF RowsFrame, Announced
  <2>3. QED
    BY <1>5, <1>6, <2>1, <2>2 DEF Told
<1>9. CASE a.frame # None /\ a.frame # Reload
  <2>1. pages' = [g \in Pages |-> IF g \in Subscribed(s, m) THEN Offered(pages[g], a.frame) ELSE pages[g]]
    BY <1>9, <1>5 DEF broadcast
  <2>2. /\ a.frame \in RowsFrame /\ a.shown = seq /\ bd # None
        /\ a.frame.seq = seq /\ a.frame.base = bd.shown /\ a.frame.rows = new.rows
        /\ Turns(bd.b.rows, a.frame.changed, a.frame.rows, a.frame.removed)
    BY <1>3, <1>9, <1>4 DEF Announced
  <2>3. QED
    BY <1>5, <2>1, <2>2 DEF Told
<1>10. QED
  BY <1>7, <1>8, <1>9

\* So the servers and the pages keep their shape, and what is held under a
\* number stays of one board if the new one is that of its number.
LEMMA RebuildKeeps ==
    ASSUME WebShape, NEW s \in RankingServers, NEW m \in Names, NEW new \in Content, NEW seq \in Nat,
           NEW key \in BOOLEAN, Rebuild(s, m, new, seq, key)
    PROVE  /\ WebShape'
           /\ \A N \in Nat : WebBounded(N) /\ seq <= N => WebBounded(N)'
           /\ \A n, b : WebCarries(n, b) /\ (seq = n => new = b) => WebCarries(n, b)'
<1>1. PICK shown \in Nat, f \in {Reload} \cup RowsFrame :
              /\ boards' = [boards EXCEPT ![s][m] = [b |-> new, seq |-> seq, shown |-> shown,
                                                     key |-> key, dirty |-> TRUE]]
              /\ disk' = disk /\ saving' = saving
              /\ Told(s, m, f)
              /\ \/ shown = seq
                 \/ boards[s][m] # None /\ shown = boards[s][m].shown /\ new.rows = boards[s][m].b.rows
              /\ f.kind = "rows" =>
                    /\ f.seq = seq /\ f.rows = new.rows
                    /\ boards[s][m] # None /\ f.base = boards[s][m].shown
                    /\ Turns(boards[s][m].b.rows, f.changed, f.rows, f.removed)
  BY RebuiltHow
<1> DEFINE r == [b |-> new, seq |-> seq, shown |-> shown, key |-> key, dirty |-> TRUE]
<1>2. r \in Board /\ r # None
  <2>1. r \in Board
    BY DEF Board
  <2> HIDE DEF r
  <2>2. QED
    BY <2>1, Apart
<1>3. r.b = new /\ r.seq = seq /\ r.shown = shown
  OBVIOUS
<1>4. boards \in [RankingServers -> [Names -> Board \cup {None}]] /\ boards' = [boards EXCEPT ![s][m] = r]
  BY <1>1 DEF WebShape
<1> HIDE DEF r
<1>5. /\ boards' \in [RankingServers -> [Names -> Board \cup {None}]]
      /\ boards'[s][m] = r
      /\ \A t \in RankingServers, q \in Names : t # s \/ q # m => boards'[t][q] = boards[t][q]
  BY <1>2, <1>4, EntrySet
<1>6. /\ pages' \in [Pages -> Page]
      /\ \A g \in Pages : pages'[g] = pages[g] \/ pages'[g] = Offered(pages[g], f)
      /\ \A g \in Pages :
           /\ pages'[g].state = "open" => pages'[g].at \in RankingServers /\ pages'[g].name \in Names
           /\ pages'[g].sub # "off" => pages'[g].state = "open"
           /\ pages'[g].sub = "on" => boards'[pages'[g].at][pages'[g].name] # None
  <2>1. boards'[s][m] # None /\ Told(s, m, f)
    BY <1>1, <1>2, <1>5
  <2>2. \A t \in RankingServers, q \in Names : t # s \/ q # m => boards'[t][q] = boards[t][q]
    BY <1>5
  <2>3. QED
    BY <2>1, <2>2, Broadcast
<1>7. WebShape'
  BY <1>1, <1>5, <1>6 DEF WebShape
<1>8. boards[s][m] \in Board \cup {None} /\ pages \in [Pages -> Page]
  BY DEF WebShape
<1>9. ASSUME NEW N \in Nat, WebBounded(N), seq <= N
      PROVE  WebBounded(N)'
  <2>1. boards[s][m] # None => boards[s][m].shown <= N
    BY <1>9 DEF WebBounded
  <2>2. r.seq <= N /\ r.shown <= N
    BY <1>1, <1>3, <1>9, <2>1
  <2>3. FrameBounded(f, N)
    BY <1>1, <1>9, <2>1 DEF FrameBounded
  <2>4. \A g \in Pages : PageBounded(pages[g], N)
    BY <1>9 DEF WebBounded
  <2>5. \A g \in Pages : PageBounded(pages'[g], N)
    BY <1>6, <1>8, <2>3, <2>4, OfferedBounded
  <2>6. \A t \in RankingServers, q \in Names : boards'[t][q] # None => boards'[t][q].seq <= N /\ boards'[t][q].shown <= N
    BY <1>5, <1>9, <2>2 DEF WebBounded
  <2>7. QED
    BY <1>1, <1>9, <2>5, <2>6 DEF WebBounded, PageBounded, FrameBounded
<1>10. ASSUME NEW n, NEW b, WebCarries(n, b), seq = n => new = b
       PROVE  WebCarries(n, b)'
  <2>1. boards[s][m] # None /\ boards[s][m].shown = n => boards[s][m].b.rows = b.rows
    BY <1>10 DEF WebCarries, BoardsCarry
  <2>2. (r.seq = n => r.b = b) /\ (r.shown = n => r.b.rows = b.rows)
    BY <1>1, <1>3, <1>10, <2>1
  <2>3. FrameCarries(f, n, b)
    BY <1>1, <1>10, <2>1 DEF FrameCarries
  <2>4. \A g \in Pages : PageCarries(pages[g], n, b)
    BY <1>10 DEF WebCarries
  <2>5. \A g \in Pages : PageCarries(pages'[g], n, b)
    BY <1>6, <1>8, <2>3, <2>4, OfferedCarries
  <2>6. BoardsCarry(n, b)'
    BY <1>5, <1>10, <2>2 DEF WebCarries, BoardsCarry
  <2>7. FilesCarry(n, b)'
    BY <1>1, <1>10 DEF WebCarries, FilesCarry
  <2>8. QED
    BY <2>5, <2>6, <2>7 DEF WebCarries, PageCarries, FrameCarries, Turns, Merged, Whole, RevealsOf
<1>11. QED
  BY <1>7, <1>9, <1>10

-----------------------------------------------------------------------------
\* The rows of a board replaced.
LEMMA RowsReplaced ==
    ASSUME NEW b \in Content, NEW r \in Rows
    PROVE  /\ [b EXCEPT !.rows = r] \in Content
           /\ \A c \in Content : Header(b) = Header(c) /\ r = c.rows => [b EXCEPT !.rows = r] = c
<1>1. [b EXCEPT !.rows = r] \in Content
  BY DEF Content
<1>2. ASSUME NEW c \in Content, Header(b) = Header(c), r = c.rows
      PROVE  [b EXCEPT !.rows = r] = c
  <2>1. b.name = c.name /\ b.hdr = c.hdr /\ b.frozen = c.frozen
    BY <1>2 DEF Header
  <2>2. b = [name |-> b.name, hdr |-> b.hdr, frozen |-> b.frozen, rows |-> b.rows]
    BY DEF Content
  <2>3. c = [name |-> c.name, hdr |-> c.hdr, frozen |-> c.frozen, rows |-> c.rows]
    BY DEF Content
  <2>4. [b EXCEPT !.rows = r] = [name |-> b.name, hdr |-> b.hdr, frozen |-> b.frozen, rows |-> r]
    BY DEF Content
  <2>5. QED
    BY <1>2, <2>1, <2>3, <2>4
<1>3. QED
  BY <1>1, <1>2

\* Rows merged are rows.
LEMMA MergedRows ==
    ASSUME NEW r \in Rows, NEW q \in Rows, NEW changed, NEW removed
    PROVE  Merged(r, changed, q, removed) \in Rows
BY DEF Merged, Rows

\* Nothing is left of a deleted board but its pages, told to reload.
LEMMA DeleteKeeps ==
    ASSUME WebShape, NEW s \in RankingServers, NEW m \in Names, PushDelete(s, m)
    PROVE  /\ WebShape'
           /\ \A N \in Nat : WebBounded(N) => WebBounded(N)'
           /\ \A n, b : WebCarries(n, b) => WebCarries(n, b)'
<1> DEFINE orphan(g) == [Offered(pages[g], Reload) EXCEPT !.sub = "orphan"]
<1>1. /\ boards \in [RankingServers -> [Names -> Board \cup {None}]]
      /\ disk \in [RankingServers -> [Names -> Saved \cup {None}]]
      /\ pages \in [Pages -> Page]
  BY DEF WebShape
<1>2. /\ boards' = [boards EXCEPT ![s][m] = None] /\ disk' = [disk EXCEPT ![s][m] = None] /\ saving' = saving
      /\ pages' = [g \in Pages |-> IF g \in Subscribed(s, m) THEN orphan(g) ELSE pages[g]]
  BY DEF PushDelete
<1>3. /\ boards' \in [RankingServers -> [Names -> Board \cup {None}]]
      /\ boards'[s][m] = None
      /\ \A t \in RankingServers, q \in Names : t # s \/ q # m => boards'[t][q] = boards[t][q]
  BY <1>1, <1>2, EntrySet
<1>4. /\ disk' \in [RankingServers -> [Names -> Saved \cup {None}]]
      /\ disk'[s][m] = None
      /\ \A t \in RankingServers, q \in Names : t # s \/ q # m => disk'[t][q] = disk[t][q]
  BY <1>1, <1>2, EntrySet
<1>5. \A g \in Pages :
        /\ Offered(pages[g], Reload) \in Page
        /\ Offered(pages[g], Reload).state = pages[g].state /\ Offered(pages[g], Reload).at = pages[g].at
        /\ Offered(pages[g], Reload).name = pages[g].name
  BY <1>1, OfferedPage
<1>6. ASSUME NEW g \in Pages
      PROVE  /\ orphan(g) \in Page
             /\ orphan(g).state = pages[g].state /\ orphan(g).at = pages[g].at
             /\ orphan(g).name = pages[g].name /\ orphan(g).sub = "orphan"
             /\ orphan(g).seq = Offered(pages[g], Reload).seq
             /\ orphan(g).rows = Offered(pages[g], Reload).rows
             /\ orphan(g).frames = Offered(pages[g], Reload).frames
             /\ orphan(g).reveal = Offered(pages[g], Reload).reveal
             /\ orphan(g).overtaken = Offered(pages[g], Reload).overtaken
  <2> DEFINE o == Offered(pages[g], Reload)
  <2>1. o \in Page /\ o.state = pages[g].state /\ o.at = pages[g].at /\ o.name = pages[g].name
    BY <1>5
  <2> HIDE DEF o
  <2>2. LET w == [o EXCEPT !.sub = "orphan"]
        IN  /\ w \in Page /\ w.state = o.state /\ w.at = o.at /\ w.name = o.name /\ w.sub = "orphan"
            /\ w.seq = o.seq /\ w.rows = o.rows /\ w.frames = o.frames /\ w.reveal = o.reveal
            /\ w.overtaken = o.overtaken
    BY <2>1 DEF Page
  <2>3. QED
    BY <2>1, <2>2 DEF o
<1> HIDE DEF orphan
<1>7. pages' \in [Pages -> Page]
  BY <1>1, <1>2, <1>6
<1>8. \A g \in Pages : pages'[g] = IF g \in Subscribed(s, m) THEN orphan(g) ELSE pages[g]
  BY <1>2
<1>9. ASSUME NEW g \in Pages
      PROVE  /\ pages'[g].state = "open" => pages'[g].at \in RankingServers /\ pages'[g].name \in Names
             /\ pages'[g].sub # "off" => pages'[g].state = "open"
             /\ pages'[g].sub = "on" => boards'[pages'[g].at][pages'[g].name] # None
  <2>1. CASE g \in Subscribed(s, m)
    <3>1. pages'[g] = orphan(g) /\ pages[g].sub = "on"
      BY <1>8, <2>1 DEF Subscribed
    <3>2. QED
      BY <3>1, <1>6 DEF WebShape
  <2>2. CASE g \notin Subscribed(s, m)
    <3>1. pages'[g] = pages[g]
      BY <1>8, <2>2
    <3>2. ASSUME pages[g].sub = "on"
          PROVE  boards'[pages[g].at][pages[g].name] # None
      <4>1. /\ pages[g].at \in RankingServers /\ pages[g].name \in Names
            /\ boards[pages[g].at][pages[g].name] # None
        BY <3>2 DEF WebShape
      <4>2. pages[g].at # s \/ pages[g].name # m
        BY <2>2, <3>2 DEF Subscribed
      <4>3. QED
        BY <4>1, <4>2, <1>3
    <3>3. QED
      BY <3>1, <3>2 DEF WebShape
  <2>3. QED
    BY <2>1, <2>2
<1>10. WebShape'
  BY <1>2, <1>3, <1>4, <1>7, <1>9 DEF WebShape
<1>11. Reload.kind # "rows"
  BY DEF Reload
<1>12. ASSUME NEW N \in Nat, WebBounded(N)
       PROVE  WebBounded(N)'
  <2>1. ASSUME NEW g \in Pages PROVE PageBounded(pages'[g], N)
    <3>1. PageBounded(pages[g], N) /\ FrameBounded(Reload, N)
      BY <1>11, <1>12 DEF WebBounded, FrameBounded
    <3>2. PageBounded(Offered(pages[g], Reload), N)
      BY <3>1, <1>1, OfferedBounded
    <3>3. PageBounded(orphan(g), N)
      BY <3>2, <1>5, <1>6 DEF PageBounded
    <3>4. QED
      BY <3>1, <3>3, <1>8
  <2>2. \A t \in RankingServers, q \in Names :
          /\ boards'[t][q] # None => boards'[t][q].seq <= N /\ boards'[t][q].shown <= N
          /\ disk'[t][q] # None => disk'[t][q].seq <= N
    BY <1>3, <1>4, <1>12 DEF WebBounded
  <2>3. QED
    BY <1>2, <1>12, <2>1, <2>2 DEF WebBounded, PageBounded, FrameBounded
<1>13. ASSUME NEW n, NEW b, WebCarries(n, b)
       PROVE  WebCarries(n, b)'
  <2>1. ASSUME NEW g \in Pages PROVE PageCarries(pages'[g], n, b)
    <3>1. PageCarries(pages[g], n, b) /\ FrameCarries(Reload, n, b)
      BY <1>11, <1>13 DEF WebCarries, FrameCarries
    <3>2. PageCarries(Offered(pages[g], Reload), n, b)
      BY <3>1, <1>1, OfferedCarries
    <3>3. PageCarries(orphan(g), n, b)
      BY <3>2, <1>5, <1>6 DEF PageCarries, Whole, RevealsOf
    <3>4. QED
      BY <3>1, <3>3, <1>8
  <2>2. BoardsCarry(n, b)'
    BY <1>3, <1>13 DEF WebCarries, BoardsCarry
  <2>3. FilesCarry(n, b)'
    BY <1>2, <1>4, <1>13 DEF WebCarries, FilesCarry
  <2>4. QED
    BY <2>1, <2>2, <2>3 DEF WebCarries, PageCarries, FrameCarries, Turns, Merged, Whole, RevealsOf
<1>14. QED
  BY <1>10, <1>12, <1>13

\* Every number is of one board, on the servers and the pages.
WebNumbered(N) == WebBounded(N) /\ \A n \in 0 .. N : \E b \in Content : WebCarries(n, b)

\* The board of a number, and what a request says of it.
PushNumbered(m, N) ==
    PushBounded(m, N) /\ \A n \in 0 .. N : \E b \in Content : WebCarries(n, b) /\ PushCarries(m, n, b)

\* Whatever a server is asked, the shape stays; and what it takes in is the
\* board of its number.
LEMMA PushKeeps ==
    ASSUME WebShape, NEW s \in RankingServers, NEW m \in Pushes, handlePush(s, m)
    PROVE  /\ WebShape'
           /\ \A N \in Nat : WebBounded(N) /\ PushBounded(m, N) => WebBounded(N)'
           /\ \A N \in Nat : \A n \in 0 .. N, b \in Content :
                PushNumbered(m, N) /\ WebCarries(n, b) /\ PushCarries(m, n, b) => WebCarries(n, b)'
<1>1. CASE m.kind = "delete" /\ PushDelete(s, m.name)
  <2>1. m.name \in Names
    BY DEF Pushes, DeletePushes, FullPushes, DeltaPushes
  <2>2. QED
    BY <1>1, <2>1, DeleteKeeps
<1>2. CASE m.kind = "full" /\ PushFull(s, m)
  <2>1. m.name \in Names /\ m.seq \in Nat /\ m.board \in Content /\ m.key \in BOOLEAN
    BY <1>2 DEF Pushes, DeletePushes, FullPushes, DeltaPushes
  <2>2. Rebuild(s, m.name, m.board, m.seq, m.key)
    BY <1>2 DEF PushFull
  <2>3. /\ WebShape'
        /\ \A N \in Nat : WebBounded(N) /\ m.seq <= N => WebBounded(N)'
        /\ \A n, b : WebCarries(n, b) /\ (m.seq = n => m.board = b) => WebCarries(n, b)'
    BY <2>1, <2>2, RebuildKeeps
  <2>4. QED
    BY <1>2, <2>3 DEF PushBounded, PushCarries
<1>3. CASE Conflict(s, m) /\ UNCHANGED webVars
  <2>1. boards' = boards /\ disk' = disk /\ saving' = saving /\ pages' = pages
    BY <1>3 DEF webVars
  <2>2. WebShape'
    BY <2>1 DEF WebShape
  <2>3. \A N : WebBounded(N) => WebBounded(N)'
    BY <2>1 DEF WebBounded, PageBounded, FrameBounded
  <2>4. \A n, b : WebCarries(n, b) => WebCarries(n, b)'
    BY <2>1 DEF WebCarries, BoardsCarry, FilesCarry, PageCarries, FrameCarries, Turns, Merged, Whole, RevealsOf
  <2>5. QED
    BY <2>2, <2>3, <2>4
<1>4. CASE m.kind = "delta" /\ ~Conflict(s, m) /\ PushDelta(s, m)
  <2> DEFINE bd == boards[s][m.name]
             after == Merged(bd.b.rows, m.changed, m.board.rows, m.removed)
             new == [bd.b EXCEPT !.rows = after]
  <2>1. m.name \in Names /\ m.seq \in Nat /\ m.base \in Nat /\ m.board \in Content
    BY <1>4 DEF Pushes, DeletePushes, FullPushes, DeltaPushes
  <2>2. bd # None /\ bd.seq = m.base
    BY <1>4 DEF Conflict
  <2>3. bd \in Board
    BY <2>1, <2>2 DEF WebShape
  <2>4. bd.b \in Content /\ bd.key \in BOOLEAN
    BY <2>3 DEF Board
  <2>5. after \in Rows
    BY <2>1, <2>4, MergedRows DEF Content
  <2>6. new \in Content /\ \A c \in Content : Header(bd.b) = Header(c) /\ after = c.rows => new = c
    BY <2>4, <2>5, RowsReplaced
  <2>7. Rebuild(s, m.name, new, m.seq, bd.key)
    BY <1>4 DEF PushDelta
  <2> HIDE DEF new, after
  <2>8. /\ WebShape'
        /\ \A N \in Nat : WebBounded(N) /\ m.seq <= N => WebBounded(N)'
        /\ \A n, b : WebCarries(n, b) /\ (m.seq = n => new = b) => WebCarries(n, b)'
    BY <2>1, <2>4, <2>6, <2>7, RebuildKeeps
  <2>9. ASSUME NEW N \in Nat, PushNumbered(m, N)
        PROVE  new = m.board
    <3>1. m.base \in 0 .. N
      BY <1>4, <2>1, <2>9 DEF PushNumbered, PushBounded
    <3>2. PICK c \in Content : WebCarries(m.base, c) /\ PushCarries(m, m.base, c)
      BY <2>9, <3>1 DEF PushNumbered
    <3>3. bd.b = c
      BY <3>2, <2>1, <2>2 DEF WebCarries, BoardsCarry
    <3>4. Header(c) = Header(m.board) /\ Turns(c.rows, m.changed, m.board.rows, m.removed)
      BY <1>4, <3>2 DEF PushCarries
    <3>5. QED
      BY <2>1, <2>6, <3>3, <3>4 DEF Turns, after
  <2>10. QED
    BY <1>4, <2>8, <2>9 DEF PushBounded, PushCarries
<1>5. QED
  BY <1>1, <1>2, <1>3, <1>4 DEF handlePush

-----------------------------------------------------------------------------
\* Saving, and starting again from the files.

\* What a step that brings in no request keeps: numbers that are of one
\* board stay so.
WebKept ==
    /\ WebShape'
    /\ \A N \in Nat : WebNumbered(N) =>
          WebBounded(N)' /\ \A n \in 0 .. N, b \in Content : WebCarries(n, b) => WebCarries(n, b)'

\* The pages as they are, the servers changed.
LEMMA PagesSame ==
    ASSUME WebShape, pages' = pages
    PROVE  /\ \A N : WebBounded(N) => \A g \in Pages : PageBounded(pages[g], N)'
           /\ \A n, b : WebCarries(n, b) => \A g \in Pages : PageCarries(pages[g], n, b)'
<1>1. \A N : WebBounded(N) => \A g \in Pages : PageBounded(pages[g], N)'
  BY DEF WebBounded, PageBounded, FrameBounded
<1>2. \A n, b : WebCarries(n, b) => \A g \in Pages : PageCarries(pages[g], n, b)'
  BY DEF WebCarries, PageCarries, FrameCarries, Turns, Merged, Whole, RevealsOf
<1>3. QED
  BY <1>1, <1>2

\* The board being written is the one in memory.
LEMMA SaveBeginKeeps == ASSUME WebShape, NEW s \in RankingServers, NEW m \in Names, SaveBegin(s, m) PROVE WebKept
<1> DEFINE bd == boards[s][m]
           copy == [name |-> m, b |-> bd.b, seq |-> bd.seq, key |-> bd.key]
           clean == [bd EXCEPT !.dirty = FALSE]
<1>1. bd \in Board /\ bd # None
  BY DEF SaveBegin, WebShape
<1>2. clean \in Board /\ clean.b = bd.b /\ clean.seq = bd.seq /\ clean.shown = bd.shown
  BY <1>1 DEF Board
<1>3. clean # None
  <2> HIDE DEF clean
  <2>1. QED
    BY <1>2, Apart
<1>4. copy \in [name : Names, b : Content, seq : Nat, key : BOOLEAN] /\ copy.b = bd.b /\ copy.seq = bd.seq
  BY <1>1 DEF Board
<1>5. /\ boards \in [RankingServers -> [Names -> Board \cup {None}]]
      /\ saving \in [RankingServers -> [name : Names, b : Content, seq : Nat, key : BOOLEAN] \cup {None}]
  BY DEF WebShape
<1>6. boards' = [boards EXCEPT ![s][m] = clean]
  BY <1>1, <1>5 DEF SaveBegin
<1>7. saving' = [saving EXCEPT ![s] = copy] /\ disk' = disk /\ pages' = pages
  BY DEF SaveBegin
<1> HIDE DEF clean, copy
<1>8. /\ boards' \in [RankingServers -> [Names -> Board \cup {None}]]
      /\ boards'[s][m] = clean
      /\ \A t \in RankingServers, q \in Names : t # s \/ q # m => boards'[t][q] = boards[t][q]
  BY <1>2, <1>5, <1>6, EntrySet
<1>9. /\ saving' \in [RankingServers -> [name : Names, b : Content, seq : Nat, key : BOOLEAN] \cup {None}]
      /\ saving'[s] = copy
      /\ \A t \in RankingServers : t # s => saving'[t] = saving[t]
  BY <1>4, <1>5, <1>7
<1>10. \A t \in RankingServers, q \in Names : boards[t][q] # None => boards'[t][q] # None
  BY <1>3, <1>8
<1>11. WebShape'
  BY <1>7, <1>8, <1>9, <1>10 DEF WebShape
<1>12. ASSUME NEW N \in Nat, WebBounded(N) PROVE WebBounded(N)'
  <2>1. \A t \in RankingServers, q \in Names : boards'[t][q] # None => boards'[t][q].seq <= N /\ boards'[t][q].shown <= N
    BY <1>1, <1>2, <1>8, <1>12 DEF WebBounded
  <2>2. \A t \in RankingServers : saving'[t] # None => saving'[t].seq <= N
    BY <1>1, <1>4, <1>9, <1>12 DEF WebBounded
  <2>3. QED
    BY <1>7, <1>12, <2>1, <2>2, PagesSame DEF WebBounded
<1>13. ASSUME NEW n, NEW b, WebCarries(n, b) PROVE WebCarries(n, b)'
  <2>1. BoardsCarry(n, b)'
    BY <1>1, <1>2, <1>8, <1>13 DEF WebCarries, BoardsCarry
  <2>2. bd.seq = n => bd.b = b
    BY <1>1, <1>13 DEF WebCarries, BoardsCarry
  <2>3. FilesCarry(n, b)'
    BY <1>4, <1>7, <1>9, <1>13, <2>2 DEF WebCarries, FilesCarry
  <2>4. QED
    BY <1>7, <1>13, <2>1, <2>3, PagesSame DEF WebCarries
<1>14. QED
  BY <1>11, <1>12, <1>13 DEF WebKept, WebNumbered

\* The file is the board that was being written.
LEMMA SaveWriteKeeps == ASSUME WebShape, NEW s \in RankingServers, SaveWrite(s) PROVE WebKept
<1> DEFINE file == [b |-> saving[s].b, seq |-> saving[s].seq, key |-> saving[s].key]
           m == saving[s].name
<1>1. saving[s] # None /\ saving[s] \in [name : Names, b : Content, seq : Nat, key : BOOLEAN]
  BY DEF SaveWrite, WebShape
<1>2. file \in Saved /\ file.b = saving[s].b /\ file.seq = saving[s].seq /\ m \in Names
  BY <1>1 DEF Saved
<1>3. /\ disk \in [RankingServers -> [Names -> Saved \cup {None}]]
      /\ saving \in [RankingServers -> [name : Names, b : Content, seq : Nat, key : BOOLEAN] \cup {None}]
  BY DEF WebShape
<1>4. disk' = [disk EXCEPT ![s][m] = file] /\ saving' = [saving EXCEPT ![s] = None] /\ boards' = boards /\ pages' = pages
  BY DEF SaveWrite
<1> HIDE DEF file, m
<1>5. /\ disk' \in [RankingServers -> [Names -> Saved \cup {None}]]
      /\ disk'[s][m] = file
      /\ \A t \in RankingServers, q \in Names : t # s \/ q # m => disk'[t][q] = disk[t][q]
  BY <1>2, <1>3, <1>4, EntrySet
<1>6. /\ saving' \in [RankingServers -> [name : Names, b : Content, seq : Nat, key : BOOLEAN] \cup {None}]
      /\ saving'[s] = None
      /\ \A t \in RankingServers : t # s => saving'[t] = saving[t]
  BY <1>3, <1>4
<1>7. WebShape'
  BY <1>4, <1>5, <1>6 DEF WebShape
<1>8. ASSUME NEW N \in Nat, WebBounded(N) PROVE WebBounded(N)'
  <2>1. \A t \in RankingServers, q \in Names : disk'[t][q] # None => disk'[t][q].seq <= N
    BY <1>1, <1>2, <1>5, <1>8 DEF WebBounded
  <2>2. \A t \in RankingServers : saving'[t] # None => saving'[t].seq <= N
    BY <1>6, <1>8 DEF WebBounded
  <2>3. QED
    BY <1>4, <1>8, <2>1, <2>2, PagesSame DEF WebBounded
<1>9. ASSUME NEW n, NEW b, WebCarries(n, b) PROVE WebCarries(n, b)'
  <2>1. BoardsCarry(n, b)'
    BY <1>4, <1>9 DEF WebCarries, BoardsCarry
  <2>2. file.seq = n => file.b = b
    BY <1>1, <1>2, <1>9 DEF WebCarries, FilesCarry
  <2>3. \A t \in RankingServers, q \in Names : disk'[t][q] # None /\ disk'[t][q].seq = n => disk'[t][q].b = b
    BY <1>5, <1>9, <2>2 DEF WebCarries, FilesCarry
  <2>4. \A t \in RankingServers : saving'[t] # None /\ saving'[t].seq = n => saving'[t].b = b
    BY <1>6, <1>9 DEF WebCarries, FilesCarry
  <2>5. FilesCarry(n, b)'
    BY <2>3, <2>4 DEF FilesCarry
  <2>6. QED
    BY <1>4, <1>9, <2>1, <2>5, PagesSame DEF WebCarries
<1>10. QED
  BY <1>7, <1>8, <1>9 DEF WebKept, WebNumbered

\* A write that fails leaves the files.
LEMMA SaveFailsKeeps == ASSUME WebShape, NEW s \in RankingServers, SaveFails(s) PROVE WebKept
<1>1. saving' = [saving EXCEPT ![s] = None] /\ boards' = boards /\ disk' = disk /\ pages' = pages
  BY DEF SaveFails
<1>2. saving \in [RankingServers -> [name : Names, b : Content, seq : Nat, key : BOOLEAN] \cup {None}]
  BY DEF WebShape
<1>3. /\ saving' \in [RankingServers -> [name : Names, b : Content, seq : Nat, key : BOOLEAN] \cup {None}]
      /\ saving'[s] = None
      /\ \A t \in RankingServers : t # s => saving'[t] = saving[t]
  BY <1>1, <1>2
<1>4. WebShape'
  BY <1>1, <1>3 DEF WebShape
<1>5. ASSUME NEW N \in Nat, WebBounded(N) PROVE WebBounded(N)'
  <2>1. \A t \in RankingServers : saving'[t] # None => saving'[t].seq <= N
    BY <1>3, <1>5 DEF WebBounded
  <2>2. QED
    BY <1>1, <1>5, <2>1, PagesSame DEF WebBounded
<1>6. ASSUME NEW n, NEW b, WebCarries(n, b) PROVE WebCarries(n, b)'
  <2>1. BoardsCarry(n, b)' /\ FilesCarry(n, b)'
    BY <1>1, <1>3, <1>6 DEF WebCarries, BoardsCarry, FilesCarry
  <2>2. QED
    BY <1>1, <1>6, <2>1, PagesSame DEF WebCarries
<1>7. QED
  BY <1>4, <1>5, <1>6 DEF WebKept, WebNumbered

\* A page whose stream ended.
Ended(page) == [page EXCEPT !.sub = "off", !.frames = <<>>]

\* It holds no more frames, and the rest stays.
LEMMA StreamEnded ==
    ASSUME NEW page \in Page, NEW p, p = Ended(page)
    PROVE  /\ p \in Page /\ p.state = page.state /\ p.at = page.at /\ p.name = page.name /\ p.sub = "off"
           /\ \A N : PageBounded(page, N) => PageBounded(p, N)
           /\ \A n, b : PageCarries(page, n, b) => PageCarries(p, n, b)
<1>1. <<>> \in Seq({Reload} \cup RowsFrame) /\ DOMAIN <<>> = {}
  OBVIOUS
<1>2. /\ p \in Page /\ p.state = page.state /\ p.at = page.at /\ p.name = page.name /\ p.sub = "off"
      /\ p.seq = page.seq /\ p.rows = page.rows /\ p.frames = <<>> /\ p.reveal = page.reveal
      /\ p.overtaken = page.overtaken
  BY <1>1 DEF Page, Ended
<1>3. DOMAIN p.frames = {}
  BY <1>1, <1>2
<1>4. \A N : PageBounded(page, N) => PageBounded(p, N)
  BY <1>2, <1>3 DEF PageBounded
<1>5. \A n, b : PageCarries(page, n, b) => PageCarries(p, n, b)
  BY <1>2, <1>3 DEF PageCarries, Whole, RevealsOf
<1>6. QED
  BY <1>2, <1>4, <1>5

\* A server that restarts has the boards of its files.
LEMMA RestartKeeps == ASSUME WebShape, NEW s \in RankingServers, ServerRestart(s) PROVE WebKept
<1> DEFINE again == [m \in Names |-> load(disk[s][m])]
<1>1. /\ boards \in [RankingServers -> [Names -> Board \cup {None}]]
      /\ disk \in [RankingServers -> [Names -> Saved \cup {None}]]
      /\ saving \in [RankingServers -> [name : Names, b : Content, seq : Nat, key : BOOLEAN] \cup {None}]
      /\ pages \in [Pages -> Page]
  BY DEF WebShape
<1>2. /\ boards' = [boards EXCEPT ![s] = again] /\ saving' = [saving EXCEPT ![s] = None] /\ disk' = disk
      /\ pages' = [g \in Pages |-> IF pages[g].at = s THEN Ended(pages[g]) ELSE pages[g]]
  BY DEF ServerRestart, Ended
<1>3. ASSUME NEW m \in Names
      PROVE  /\ again[m] \in Board \cup {None}
             /\ again[m] # None => /\ disk[s][m] # None /\ again[m].b = disk[s][m].b
                                   /\ again[m].seq = disk[s][m].seq /\ again[m].shown = disk[s][m].seq
  <2>1. again[m] = load(disk[s][m])
    OBVIOUS
  <2>2. CASE disk[s][m] = None
    BY <2>1, <2>2 DEF load
  <2>3. CASE disk[s][m] # None
    <3>1. disk[s][m] \in Saved
      BY <1>1, <2>3
    <3>2. again[m] = [b |-> disk[s][m].b, seq |-> disk[s][m].seq, shown |-> disk[s][m].seq, key |-> disk[s][m].key,
                      dirty |-> FALSE]
      BY <2>1, <2>3 DEF load
    <3>3. disk[s][m].b \in Content /\ disk[s][m].seq \in Nat /\ disk[s][m].key \in BOOLEAN
      BY <3>1 DEF Saved
    <3> DEFINE r == [b |-> disk[s][m].b, seq |-> disk[s][m].seq, shown |-> disk[s][m].seq, key |-> disk[s][m].key,
                     dirty |-> FALSE]
    <3>4. r \in Board
      BY <3>3 DEF Board
    <3>5. r.b = disk[s][m].b /\ r.seq = disk[s][m].seq /\ r.shown = disk[s][m].seq
      OBVIOUS
    <3>6. again[m] = r
      BY <3>2
    <3> HIDE DEF r, again
    <3>7. QED
      BY <2>3, <3>4, <3>5, <3>6
  <2>4. QED
    BY <2>2, <2>3
<1> HIDE DEF again
<1>4. again \in [Names -> Board \cup {None}]
  <2>1. again = [m \in Names |-> again[m]]
    BY DEF again
  <2>2. QED
    BY <2>1, <1>3
<1>5. /\ boards' \in [RankingServers -> [Names -> Board \cup {None}]]
      /\ boards'[s] = again
      /\ \A t \in RankingServers : t # s => boards'[t] = boards[t]
  BY <1>1, <1>2, <1>4
<1>6. /\ saving' \in [RankingServers -> [name : Names, b : Content, seq : Nat, key : BOOLEAN] \cup {None}]
      /\ saving'[s] = None
      /\ \A t \in RankingServers : t # s => saving'[t] = saving[t]
  BY <1>1, <1>2
<1>7. ASSUME NEW g \in Pages
      PROVE  /\ Ended(pages[g]) \in Page /\ Ended(pages[g]).state = pages[g].state /\ Ended(pages[g]).at = pages[g].at
             /\ Ended(pages[g]).name = pages[g].name /\ Ended(pages[g]).sub = "off"
             /\ \A N : PageBounded(pages[g], N) => PageBounded(Ended(pages[g]), N)
             /\ \A n, b : PageCarries(pages[g], n, b) => PageCarries(Ended(pages[g]), n, b)
  BY <1>1, StreamEnded
<1>8. \A g \in Pages : pages'[g] = IF pages[g].at = s THEN Ended(pages[g]) ELSE pages[g]
  BY <1>2
<1>9. pages' \in [Pages -> Page]
  BY <1>1, <1>2, <1>7
<1>10. ASSUME NEW g \in Pages
       PROVE  /\ pages'[g].state = "open" => pages'[g].at \in RankingServers /\ pages'[g].name \in Names
              /\ pages'[g].sub # "off" => pages'[g].state = "open"
              /\ pages'[g].sub = "on" => boards'[pages'[g].at][pages'[g].name] # None
  <2>1. CASE pages[g].at = s
    BY <2>1, <1>7, <1>8 DEF WebShape
  <2>2. CASE pages[g].at # s
    <3>1. pages'[g] = pages[g]
      BY <1>8, <2>2
    <3>2. pages[g].sub = "on" => boards'[pages[g].at][pages[g].name] # None
      <4>1. pages[g].sub = "on" => pages[g].at \in RankingServers /\ boards[pages[g].at][pages[g].name] # None
        BY DEF WebShape
      <4>2. QED
        BY <4>1, <1>5, <2>2
    <3>3. QED
      BY <3>1, <3>2 DEF WebShape
  <2>3. QED
    BY <2>1, <2>2
<1>11. WebShape'
  BY <1>2, <1>1, <1>5, <1>6, <1>9, <1>10 DEF WebShape
<1>12. ASSUME NEW N \in Nat, WebBounded(N) PROVE WebBounded(N)'
  <2>1. \A t \in RankingServers, q \in Names : boards'[t][q] # None => boards'[t][q].seq <= N /\ boards'[t][q].shown <= N
    BY <1>3, <1>5, <1>12 DEF WebBounded
  <2>2. \A t \in RankingServers : saving'[t] # None => saving'[t].seq <= N
    BY <1>6, <1>12 DEF WebBounded
  <2>3. \A g \in Pages : PageBounded(pages'[g], N)
    BY <1>7, <1>8, <1>12 DEF WebBounded
  <2>4. QED
    BY <1>2, <1>12, <2>1, <2>2, <2>3 DEF WebBounded, PageBounded, FrameBounded
<1>13. ASSUME NEW n, NEW b, WebCarries(n, b) PROVE WebCarries(n, b)'
  <2>1. BoardsCarry(n, b)'
    BY <1>3, <1>5, <1>13 DEF WebCarries, BoardsCarry, FilesCarry
  <2>2. FilesCarry(n, b)'
    BY <1>2, <1>6, <1>13 DEF WebCarries, FilesCarry
  <2>3. \A g \in Pages : PageCarries(pages'[g], n, b)
    BY <1>7, <1>8, <1>13 DEF WebCarries
  <2>4. QED
    BY <2>1, <2>2, <2>3 DEF WebCarries, PageCarries, FrameCarries, Turns, Merged, Whole, RevealsOf
<1>14. QED
  BY <1>11, <1>12, <1>13 DEF WebKept, WebNumbered

-----------------------------------------------------------------------------
\* One page changes.
LEMMA PageKeeps ==
    ASSUME WebShape, NEW g \in Pages, NEW p \in Page,
           boards' = boards, disk' = disk, saving' = saving, pages' = [pages EXCEPT ![g] = p],
           p.state = "open" => p.at \in RankingServers /\ p.name \in Names,
           p.sub # "off" => p.state = "open",
           p.sub = "on" => boards[p.at][p.name] # None,
           \A N \in Nat : WebNumbered(N) =>
              PageBounded(p, N) /\ \A n \in 0 .. N, b \in Content : WebCarries(n, b) => PageCarries(p, n, b)
    PROVE  WebKept
<1>1. pages \in [Pages -> Page]
  BY DEF WebShape
<1>2. /\ pages' \in [Pages -> Page] /\ pages'[g] = p
      /\ \A h \in Pages : h # g => pages'[h] = pages[h]
  BY <1>1
<1>3. \A h \in Pages :
         /\ pages'[h].state = "open" => pages'[h].at \in RankingServers /\ pages'[h].name \in Names
         /\ pages'[h].sub # "off" => pages'[h].state = "open"
         /\ pages'[h].sub = "on" => boards'[pages'[h].at][pages'[h].name] # None
  <2> SUFFICES ASSUME NEW h \in Pages
               PROVE  /\ pages'[h].state = "open" => pages'[h].at \in RankingServers /\ pages'[h].name \in Names
                      /\ pages'[h].sub # "off" => pages'[h].state = "open"
                      /\ pages'[h].sub = "on" => boards'[pages'[h].at][pages'[h].name] # None
    OBVIOUS
  <2>1. CASE h = g
    BY <2>1, <1>2
  <2>2. CASE h # g
    BY <2>2, <1>2 DEF WebShape
  <2>3. QED
    BY <2>1, <2>2
<1>4. WebShape'
  BY <1>2, <1>3 DEF WebShape
<1>5. ASSUME NEW N \in Nat, WebNumbered(N)
      PROVE  WebBounded(N)' /\ \A n \in 0 .. N, b \in Content : WebCarries(n, b) => WebCarries(n, b)'
  <2>1. PageBounded(p, N) /\ \A n \in 0 .. N, b \in Content : WebCarries(n, b) => PageCarries(p, n, b)
    BY <1>5
  <2>2. WebBounded(N)
    BY <1>5 DEF WebNumbered
  <2>3. \A h \in Pages : PageBounded(pages'[h], N)
    BY <1>2, <2>1, <2>2 DEF WebBounded
  <2>4. WebBounded(N)'
    BY <2>2, <2>3 DEF WebBounded, PageBounded, FrameBounded
  <2>5. ASSUME NEW n \in 0 .. N, NEW b \in Content, WebCarries(n, b) PROVE WebCarries(n, b)'
    <3>1. \A h \in Pages : PageCarries(pages'[h], n, b)
      BY <1>2, <2>1, <2>5 DEF WebCarries
    <3>2. BoardsCarry(n, b)' /\ FilesCarry(n, b)'
      BY <2>5 DEF WebCarries, BoardsCarry, FilesCarry
    <3>3. QED
      BY <3>1, <3>2 DEF WebCarries, PageCarries, FrameCarries, Turns, Merged, Whole, RevealsOf
  <2>6. QED
    BY <2>4, <2>5
<1>6. QED
  BY <1>4, <1>5 DEF WebKept

\* The frames of a page that just opened.
LEMMA NoFrames == <<>> \in Seq({Reload} \cup RowsFrame) /\ DOMAIN <<>> = {}
OBVIOUS

\* A page opened shows the rows of the board under its number.
LEMMA OpenKeeps ==
    ASSUME WebShape, NEW g \in Pages, NEW s \in RankingServers, NEW m \in Names, handleBoard(g, s, m)
    PROVE  WebKept
<1> DEFINE bd == boards[s][m]
           p == [state |-> "open", at |-> s, name |-> m, seq |-> bd.shown, rows |-> bd.b.rows,
                 sub |-> "off", frames |-> <<>>, reveal |-> {}, overtaken |-> FALSE]
<1>1. bd # None /\ bd \in Board
  BY DEF handleBoard, Visible, WebShape
<1>2. bd.shown \in Nat /\ bd.b.rows \in Rows
  BY <1>1 DEF Board, Content
<1>3. p \in Page
  BY <1>2, NoFrames DEF Page
<1>4. /\ p.state = "open" /\ p.at = s /\ p.name = m /\ p.sub = "off" /\ p.seq = bd.shown /\ p.rows = bd.b.rows
      /\ DOMAIN p.frames = {} /\ p.reveal = {}
  BY NoFrames
<1>5. /\ pages' = [pages EXCEPT ![g] = p] /\ boards' = boards /\ disk' = disk /\ saving' = saving
  BY DEF handleBoard
<1> HIDE DEF p
<1>6. \A N : WebBounded(N) => PageBounded(p, N)
  BY <1>1, <1>4 DEF WebBounded, PageBounded
<1>7. ASSUME NEW n, NEW b, WebCarries(n, b) PROVE PageCarries(p, n, b)
  <2>1. bd.shown = n => bd.b.rows = b.rows
    BY <1>1, <1>7 DEF WebCarries, BoardsCarry
  <2>2. QED
    BY <1>4, <2>1 DEF PageCarries, Whole, RevealsOf
<1>8. QED
  BY <1>3, <1>4, <1>5, <1>6, <1>7, PageKeeps DEF WebNumbered

\* Connecting, and losing the stream.
LEMMA StreamKeeps ==
    ASSUME WebShape, NEW g \in Pages, handleEvents(g) \/ Disconnect(g)
    PROVE  WebKept
<1> DEFINE page == pages[g]
<1>1. page \in Page /\ page.state = "open" /\ page.at \in RankingServers /\ page.name \in Names
  BY DEF WebShape, handleEvents, Disconnect
<1>2. ASSUME NEW sub \in {"on", "off"}, pages' = [pages EXCEPT ![g].sub = sub, ![g].frames = <<>>],
             boards' = boards, disk' = disk, saving' = saving,
             sub = "on" => boards[page.at][page.name] # None
      PROVE  WebKept
  <2> DEFINE p == [page EXCEPT !.sub = sub, !.frames = <<>>]
  <2>1. pages' = [pages EXCEPT ![g] = p]
    BY <1>2 DEF WebShape
  <2>2. /\ p \in Page /\ p.state = "open" /\ p.at = page.at /\ p.name = page.name /\ p.sub = sub
        /\ p.seq = page.seq /\ p.rows = page.rows /\ DOMAIN p.frames = {} /\ p.reveal = page.reveal
        /\ p.overtaken = page.overtaken
    BY <1>1, NoFrames DEF Page
  <2> HIDE DEF p
  <2>3. \A N : WebBounded(N) => PageBounded(p, N)
    BY <1>1, <2>2 DEF WebBounded, PageBounded
  <2>4. \A n, b : WebCarries(n, b) => PageCarries(p, n, b)
    BY <1>1, <2>2 DEF WebCarries, PageCarries, Whole, RevealsOf
  <2>5. QED
    BY <1>1, <1>2, <2>1, <2>2, <2>3, <2>4, PageKeeps DEF WebNumbered
<1>3. CASE handleEvents(g)
  BY <1>2, <1>3 DEF handleEvents, Visible
<1>4. CASE Disconnect(g)
  BY <1>2, <1>4 DEF Disconnect
<1>5. QED
  BY <1>3, <1>4

\* What is left of the queue.
LEMMA TailFrames ==
    ASSUME NEW q \in Seq({Reload} \cup RowsFrame), q # <<>>
    PROVE  /\ Head(q) \in {Reload} \cup RowsFrame /\ 1 \in DOMAIN q /\ Head(q) = q[1]
           /\ Tail(q) \in Seq({Reload} \cup RowsFrame)
           /\ \A i \in DOMAIN Tail(q) : i + 1 \in DOMAIN q /\ Tail(q)[i] = q[i + 1]
OBVIOUS

\* A page that reloads: nothing is on its way to it.
LEMMA ReloadingPage ==
    ASSUME NEW page \in Page, NEW p, p = Reloading(page)
    PROVE  /\ p \in Page /\ p.state = "reloading" /\ p.sub = "off"
           /\ \A N : PageBounded(p, N)
           /\ \A n, b : PageCarries(p, n, b)
<1>1. /\ p \in Page /\ p.state = "reloading" /\ p.sub = "off" /\ DOMAIN p.frames = {}
  BY NoFrames DEF Page, Reloading
<1>2. QED
  BY <1>1 DEF PageBounded, PageCarries

\* A page that applies a frame to the rows it was made for.
LEMMA UpdatedPage ==
    ASSUME NEW page \in Page, page.frames # <<>>, NEW f \in RowsFrame, f = Head(page.frames),
           NEW p, p = Updated(page, f)
    PROVE  /\ p \in Page /\ p.state = page.state /\ p.at = page.at /\ p.name = page.name /\ p.sub = page.sub
           /\ \A N : PageBounded(page, N) => PageBounded(p, N)
           /\ \A n, b, c : /\ PageCarries(page, n, b) /\ b \in Content
                           /\ PageCarries(page, f.base, c) /\ c \in Content /\ f.base = page.seq
                           => PageCarries(p, n, b)
<1> DEFINE after == Merged(page.rows, IF f.unfrozen THEN {} ELSE f.changed, f.rows, f.removed)
           put == {<<k, f.rows[k]>> : k \in f.changed}
           reveal == IF f.unfrozen THEN page.reveal \cup put ELSE page.reveal
           over == page.overtaken \/ page.reveal # {}
<1>1. /\ f.kind = "rows" /\ f.base \in Nat /\ f.seq \in Nat /\ f.changed \subseteq Keys /\ f.rows \in Rows
      /\ f.removed \subseteq Keys /\ f.unfrozen \in BOOLEAN
  BY DEF RowsFrame
<1>2. /\ page.frames \in Seq({Reload} \cup RowsFrame) /\ page.rows \in Rows
      /\ page.reveal \subseteq Keys \X (Vals \cup {None}) /\ page.overtaken \in BOOLEAN
  BY DEF Page
<1>3. /\ 1 \in DOMAIN page.frames /\ f = page.frames[1]
      /\ Tail(page.frames) \in Seq({Reload} \cup RowsFrame)
      /\ \A i \in DOMAIN Tail(page.frames) : i + 1 \in DOMAIN page.frames /\ Tail(page.frames)[i] = page.frames[i + 1]
  BY <1>2, TailFrames
<1>4. after \in Rows
  BY <1>1, <1>2, MergedRows
<1>5. put \subseteq Keys \X (Vals \cup {None})
  BY <1>1 DEF Rows
<1>6. reveal \in SUBSET (Keys \X (Vals \cup {None}))
  BY <1>2, <1>5
<1>7. over \in BOOLEAN
  OBVIOUS
<1> HIDE DEF after, reveal, over
<1>8. p = [page EXCEPT !.seq = f.seq, !.frames = Tail(@), !.overtaken = over, !.rows = after, !.reveal = reveal]
  BY DEF Updated, after, reveal, over, put
<1>9. /\ p \in Page /\ p.state = page.state /\ p.at = page.at /\ p.name = page.name /\ p.sub = page.sub
      /\ p.seq = f.seq /\ p.frames = Tail(page.frames) /\ p.rows = after /\ p.reveal = reveal
  BY <1>1, <1>3, <1>4, <1>6, <1>7, <1>8 DEF Page
<1>10. p.overtaken = over
  BY <1>8 DEF Page
<1>11. \A N : PageBounded(page, N) => PageBounded(p, N)
  BY <1>1, <1>3, <1>9 DEF PageBounded, FrameBounded
<1>12. ASSUME NEW n, NEW b \in Content, NEW c \in Content, PageCarries(page, n, b), PageCarries(page, f.base, c),
              f.base = page.seq
       PROVE  PageCarries(p, n, b)
  <2>1. \A i \in DOMAIN p.frames : FrameCarries(p.frames[i], n, b)
    BY <1>3, <1>9, <1>12 DEF PageCarries
  <2>2. ASSUME p.state = "open", ~p.overtaken, p.seq = n
        PROVE  Whole(p, b.rows) /\ RevealsOf(p, b.rows)
    <3>1. ~page.overtaken /\ page.reveal = {}
      BY <2>2, <1>10 DEF over
    <3>2. f.rows = b.rows /\ Turns(c.rows, f.changed, f.rows, f.removed)
      BY <1>1, <1>3, <1>9, <1>12, <2>2 DEF PageCarries, FrameCarries
    <3>3. \A k \in Keys : page.rows[k] = c.rows[k]
      BY <3>1, <1>9, <1>12, <2>2 DEF PageCarries, Whole
    <3>4. \A k \in Keys : (IF k \in f.removed THEN None ELSE IF k \in f.changed THEN f.rows[k] ELSE c.rows[k]) = f.rows[k]
      BY <3>2 DEF Turns, Merged
    <3>5. CASE f.unfrozen
      <4>1. \A k \in Keys : p.rows[k] = IF k \in f.removed THEN None ELSE page.rows[k]
        BY <1>9, <3>5 DEF after, Merged
      <4>2. p.reveal = put
        BY <1>9, <3>1, <3>5 DEF reveal
      <4>3. \A x \in p.reveal : x[2] = b.rows[x[1]]
        BY <4>2, <3>2
      <4>4. ASSUME NEW k \in Keys
            PROVE  (\E x \in p.reveal : x[1] = k) \/ p.rows[k] = b.rows[k]
        <5>1. CASE k \in f.changed
          <6>1. <<k, f.rows[k]>> \in p.reveal
            BY <5>1, <4>2
          <6>2. QED
            BY <6>1
        <5>2. CASE k \notin f.changed
          BY <5>2, <4>1, <3>2, <3>3, <3>4
        <5>3. QED
          BY <5>1, <5>2
      <4>5. QED
        BY <4>3, <4>4 DEF Whole, RevealsOf
    <3>6. CASE ~f.unfrozen
      <4>1. \A k \in Keys :
              p.rows[k] = IF k \in f.removed THEN None ELSE IF k \in f.changed THEN f.rows[k] ELSE page.rows[k]
        BY <1>9, <3>6 DEF after, Merged
      <4>2. p.reveal = {}
        BY <1>9, <3>1, <3>6 DEF reveal
      <4>3. \A k \in Keys : p.rows[k] = b.rows[k]
        BY <4>1, <3>2, <3>3, <3>4
      <4>4. QED
        BY <4>2, <4>3 DEF Whole, RevealsOf
    <3>7. QED
      BY <3>5, <3>6
  <2>3. QED
    BY <2>1, <2>2 DEF PageCarries
<1>13. QED
  BY <1>9, <1>11, <1>12

\* A page takes a frame that starts from its number, or reloads itself.
LEMMA ReceiveKeeps == ASSUME WebShape, NEW g \in Pages, Receive(g) PROVE WebKept
<1> DEFINE page == pages[g]
           f == Head(page.frames)
<1>1. page \in Page /\ page.state = "open" /\ page.frames # <<>> /\ page.at \in RankingServers /\ page.name \in Names
  BY DEF WebShape, Receive
<1>2. boards' = boards /\ disk' = disk /\ saving' = saving
  BY DEF Receive
<1>3. f \in {Reload} \cup RowsFrame /\ 1 \in DOMAIN page.frames /\ f = page.frames[1]
  BY <1>1, TailFrames DEF Page
<1>4. CASE f.kind = "reload" \/ f.base # page.seq
  <2> DEFINE p == Reloading(page)
  <2>1. pages' = [pages EXCEPT ![g] = p]
    BY <1>4 DEF Receive
  <2>2. /\ p \in Page /\ p.state = "reloading" /\ p.sub = "off"
        /\ \A N : PageBounded(p, N)
        /\ \A n, b : PageCarries(p, n, b)
    BY <1>1, ReloadingPage
  <2> HIDE DEF p
  <2>3. QED
    BY <1>2, <2>1, <2>2, PageKeeps
<1>5. CASE ~(f.kind = "reload" \/ f.base # page.seq)
  <2> DEFINE p == Updated(page, f)
  <2>1. pages' = [pages EXCEPT ![g] = p]
    BY <1>5 DEF Receive
  <2>2. f \in RowsFrame /\ f.base = page.seq
    BY <1>3, <1>5 DEF Reload
  <2>3. /\ p \in Page /\ p.state = page.state /\ p.at = page.at /\ p.name = page.name /\ p.sub = page.sub
        /\ \A N : PageBounded(page, N) => PageBounded(p, N)
        /\ \A n, b, c : /\ PageCarries(page, n, b) /\ b \in Content
                        /\ PageCarries(page, f.base, c) /\ c \in Content /\ f.base = page.seq
                        => PageCarries(p, n, b)
    BY <1>1, <2>2, UpdatedPage
  <2> HIDE DEF p
  <2>4. ASSUME NEW N \in Nat, WebNumbered(N)
        PROVE  PageBounded(p, N) /\ \A n \in 0 .. N, b \in Content : WebCarries(n, b) => PageCarries(p, n, b)
    <3>1. PageBounded(page, N)
      BY <2>4 DEF WebNumbered, WebBounded
    <3>2. f.base \in 0 .. N
      BY <3>1, <1>1, <2>2 DEF PageBounded, Page
    <3>3. PICK c \in Content : WebCarries(f.base, c)
      BY <2>4, <3>2 DEF WebNumbered
    <3>4. PageCarries(page, f.base, c)
      BY <3>3 DEF WebCarries
    <3>5. \A n, b : WebCarries(n, b) => PageCarries(page, n, b)
      BY DEF WebCarries
    <3>6. QED
      BY <2>2, <2>3, <3>1, <3>4, <3>5
  <2>5. p.sub = "on" => boards[p.at][p.name] # None
    BY <2>3 DEF WebShape
  <2>6. QED
    BY <1>1, <1>2, <2>1, <2>3, <2>4, <2>5, PageKeeps
<1>6. QED
  BY <1>4, <1>5

\* A row put off is revealed: it is the one of the number.
LEMMA RevealKeeps == ASSUME WebShape, NEW g \in Pages, RevealRow(g) PROVE WebKept
<1> DEFINE page == pages[g]
<1>1. page \in Page /\ page.state = "open" /\ page.at \in RankingServers /\ page.name \in Names
  BY DEF WebShape, RevealRow
<1>2. PICK r \in page.reveal : pages' = [pages EXCEPT ![g].rows[r[1]] = r[2], ![g].reveal = @ \ {r}]
  BY DEF RevealRow
<1>3. boards' = boards /\ disk' = disk /\ saving' = saving
  BY DEF RevealRow
<1>4. r[1] \in Keys /\ r[2] \in Vals \cup {None} /\ page.rows \in Rows
  BY <1>1, <1>2 DEF Page
<1> DEFINE after == [page.rows EXCEPT ![r[1]] = r[2]]
           p == [page EXCEPT !.rows = after, !.reveal = page.reveal \ {r}]
<1>5. after \in Rows /\ after[r[1]] = r[2] /\ \A k \in Keys : k # r[1] => after[k] = page.rows[k]
  BY <1>4 DEF Rows
<1>6. pages' = [pages EXCEPT ![g] = p]
  BY <1>1, <1>2 DEF WebShape, Page
<1> HIDE DEF after
<1>7. /\ p \in Page /\ p.state = "open" /\ p.at = page.at /\ p.name = page.name /\ p.sub = page.sub
      /\ p.seq = page.seq /\ p.rows = after /\ p.frames = page.frames /\ p.reveal = page.reveal \ {r}
      /\ p.overtaken = page.overtaken
  BY <1>1, <1>5 DEF Page
<1> HIDE DEF p
<1>8. \A N : WebBounded(N) => PageBounded(p, N)
  BY <1>1, <1>7 DEF WebBounded, PageBounded
<1>9. ASSUME NEW n, NEW b, WebCarries(n, b)
      PROVE  PageCarries(p, n, b)
  <2>1. PageCarries(page, n, b)
    BY <1>9 DEF WebCarries
  <2>2. ASSUME ~page.overtaken, page.seq = n
        PROVE  Whole(p, b.rows) /\ RevealsOf(p, b.rows)
    <3>1. Whole(page, b.rows) /\ RevealsOf(page, b.rows)
      BY <1>1, <2>1, <2>2 DEF PageCarries
    <3>2. RevealsOf(p, b.rows)
      BY <1>7, <3>1 DEF RevealsOf
    <3>3. ASSUME NEW k \in Keys PROVE (\E x \in p.reveal : x[1] = k) \/ p.rows[k] = b.rows[k]
      <4>1. CASE k = r[1]
        BY <4>1, <1>2, <1>5, <1>7, <3>1 DEF RevealsOf
      <4>2. CASE k # r[1]
        BY <4>2, <1>5, <1>7, <3>1 DEF Whole
      <4>3. QED
        BY <4>1, <4>2
    <3>4. QED
      BY <3>2, <3>3 DEF Whole
  <2>3. QED
    BY <1>7, <2>1, <2>2 DEF PageCarries
<1>10. p.sub = "on" => boards[p.at][p.name] # None
  BY <1>7 DEF WebShape
<1>11. QED
  BY <1>1, <1>3, <1>6, <1>7, <1>8, <1>9, <1>10, PageKeeps DEF WebNumbered

-----------------------------------------------------------------------------
\* The pusher's side of a step: what it gives out stays within the numbers,
\* and of one board each; and so the servers' side.
PusherKept(N) ==
    PusherBounded(N)' /\ \A n \in 0 .. N, b \in Content :
        Genuine(b) /\ PusherCarries(n, b) => Genuine(b)' /\ PusherCarries(n, b)'

\* What the servers take in is of one board for each number.
WebSide(N) ==
    WebBounded(N)' /\ \A n \in 0 .. N, b \in Content : WebCarries(n, b) /\ PusherCarries(n, b) => WebCarries(n, b)'

\* Both sides of a step together keep the numbers.
LEMMA BothSides ==
    ASSUME NEW N \in Nat, Numbered(N), PusherKept(N), WebSide(N)
    PROVE  Numbered(N)'
<1>1. ASSUME NEW n \in 0 .. N PROVE OneBoard(n)'
  <2>1. PICK b \in Content : Genuine(b) /\ WebCarries(n, b) /\ PusherCarries(n, b)
    BY DEF Numbered, OneBoard
  <2>2. Genuine(b)' /\ PusherCarries(n, b)'
    BY <2>1 DEF PusherKept
  <2>3. WebCarries(n, b)'
    BY <2>1 DEF WebSide
  <2>4. Content' = Content
    OBVIOUS
  <2>5. QED
    BY <2>2, <2>3 DEF OneBoard
<1>2. QED
  BY <1>1 DEF Numbered, PusherKept, WebSide

\* What the numbers say of the servers alone.
LEMMA NumberedWeb == ASSUME NEW N \in Nat, Numbered(N) PROVE WebNumbered(N)
BY DEF Numbered, OneBoard, WebNumbered

\* A step that brings in no request keeps the side of the servers.
LEMMA WebKeptSide == ASSUME NEW N \in Nat, Numbered(N), WebKept PROVE WebSide(N)
BY NumberedWeb DEF WebKept, WebSide

\* A step away from the servers.
LEMMA WebSame ==
    ASSUME WebShape, UNCHANGED webVars
    PROVE  WebKept
<1>1. boards' = boards /\ disk' = disk /\ saving' = saving /\ pages' = pages
  BY DEF webVars
<1>2. WebShape'
  BY <1>1 DEF WebShape
<1>3. \A N \in Nat : WebBounded(N) => WebBounded(N)'
  BY <1>1 DEF WebBounded, PageBounded, FrameBounded
<1>4. \A n, b : WebCarries(n, b) => WebCarries(n, b)'
  BY <1>1 DEF WebCarries, BoardsCarry, FilesCarry, PageCarries, FrameCarries, Turns, Merged, Whole, RevealsOf
<1>5. QED
  BY <1>2, <1>3, <1>4 DEF WebKept, WebNumbered

\* A step away from the pusher and the contest, but for the bounds.
LEMMA PusherSame ==
    ASSUME PushShape, UNCHANGED dbVars, UNCHANGED pushVars, late' \subseteq late,
           count' \in [changes : Nat, faults : Nat, crashes : Nat, restarts : Nat]
    PROVE  PushShape' /\ \A N \in Nat : Numbered(N) => PusherKept(N)
<1>1. /\ db' = db /\ contestClock' = contestClock /\ atFreeze' = atFreeze /\ everRows' = everRows
      /\ st' = st /\ acked' = acked /\ job' = job
  BY DEF dbVars, pushVars
<1>2. PushShape'
  BY <1>1 DEF PushShape, JobShape, NotYetFrozen
<1>3. \A N : PusherBounded(N) => PusherBounded(N)'
  BY <1>1 DEF PusherBounded, PushBounded, Live, Computing, state
<1>4. \A n, b : PusherCarries(n, b) => PusherCarries(n, b)'
  BY <1>1 DEF PusherCarries, PushCarries, Live, Computing, Turns, Merged, Header
<1>5. \A b : Genuine(b) => Genuine(b)'
  BY <1>1 DEF Genuine
<1>6. QED
  BY <1>2, <1>3, <1>4, <1>5 DEF Numbered, PusherKept

-----------------------------------------------------------------------------
\* A step of the model keeps the shape, and unless the pusher restarted the
\* numbers.
Keeps == RankingShape' /\ (count'.restarts = 0 => count.restarts = 0 /\ \A N \in Nat : Numbered(N) => \E M \in Nat : Numbered(M)')

\* A fault is no restart.
LEMMA FaultCounts ==
    ASSUME PushShape, Fault
    PROVE  count' \in [changes : Nat, faults : Nat, crashes : Nat, restarts : Nat] /\ count'.restarts = count.restarts
BY DEF PushShape, Fault

\* The servers' own steps, and those of the pages.
LEMMA ServerKeeps ==
    ASSUME RankingShape, \/ \E s \in RankingServers : ServerFault(s) \/ Saves(s)
                         \/ Browser
    PROVE  Keeps
<1>1. WebShape /\ PushShape
  BY DEF RankingShape
<1>2. WebKept
  <2>1. CASE \E s \in RankingServers : ServerFault(s)
    BY <1>1, <2>1, SaveFailsKeeps, RestartKeeps DEF ServerFault
  <2>2. CASE \E s \in RankingServers : Saves(s)
    BY <1>1, <2>2, SaveBeginKeeps, SaveWriteKeeps DEF Saves, ServerSide
  <2>3. CASE Browser
    <3>1. FirstName \in Names
      BY RankingPushAssumption DEF FirstName
    <3>2. QED
      BY <1>1, <2>3, <3>1, OpenKeeps, StreamKeeps, ReceiveKeeps, RevealKeeps DEF Browser
  <2>4. QED
    BY <2>1, <2>2, <2>3
<1>3. UNCHANGED dbVars /\ UNCHANGED pushVars /\ late' = late
  BY DEF ServerFault, Saves, Browser
<1>4. count' \in [changes : Nat, faults : Nat, crashes : Nat, restarts : Nat] /\ count'.restarts = count.restarts
  <2>1. CASE count' = count
    BY <2>1, <1>1 DEF PushShape
  <2>2. CASE Fault
    BY <2>2, <1>1, FaultCounts
  <2>3. CASE count' = [count EXCEPT !.crashes = @ + 1]
    BY <2>3, <1>1 DEF PushShape
  <2>4. QED
    BY <2>1, <2>2, <2>3 DEF ServerFault, Saves, Browser
<1>5. PushShape' /\ \A N \in Nat : Numbered(N) => PusherKept(N)
  BY <1>1, <1>3, <1>4, PusherSame
<1>6. \A N \in Nat : Numbered(N) => Numbered(N)'
  BY <1>2, <1>5, WebKeptSide, BothSides
<1>7. QED
  BY <1>2, <1>4, <1>5, <1>6 DEF Keeps, RankingShape, WebKept

\* The contest changes, or the clock moves.
LEMMA ContestKeeps ==
    ASSUME RankingShape, ScoreChanges \/ ContestChanges \/ ClockTick
    PROVE  Keeps
<1>1. WebShape /\ PushShape
  BY DEF RankingShape
<1> DEFINE Db == [exists : BOOLEAN, name : Names, vis : {"public", "admins", "hidden"}, after : BOOLEAN,
                  unfrozen : BOOLEAN, hdr : Hdrs, rows : Rows]
<1>2. db \in Db
  BY <1>1 DEF PushShape
<1>3. ASSUME NEW new \in Db, NEW ev, Change(new, ev), db.exists
      PROVE  Keeps
  <2>1. /\ db' = new /\ everRows' = everRows \cup {new.rows} /\ contestClock' = contestClock /\ atFreeze' = atFreeze
        /\ st' = st /\ acked' = acked /\ job' = job /\ late' = late /\ UNCHANGED webVars
    BY <1>3 DEF Change, pushVars
  <2>2. count' \in [changes : Nat, faults : Nat, crashes : Nat, restarts : Nat] /\ count'.restarts = count.restarts
    <3>1. count \in [changes : Nat, faults : Nat, crashes : Nat, restarts : Nat]
      BY <1>1 DEF PushShape
    <3>2. \/ count' = [count EXCEPT !.changes = @ + 1]
          \/ count' = [count EXCEPT !.changes = @ + 1, !.faults = @ + 1]
      BY <1>3 DEF Change
    <3>3. CASE count' = [count EXCEPT !.changes = @ + 1]
      BY <3>1, <3>3
    <3>4. CASE count' = [count EXCEPT !.changes = @ + 1, !.faults = @ + 1]
      <4>1. count.changes + 1 \in Nat /\ count.faults + 1 \in Nat
        BY <3>1
      <4>2. count' = [changes |-> count.changes + 1, faults |-> count.faults + 1, crashes |-> count.crashes,
                      restarts |-> count.restarts]
        BY <3>1, <3>4
      <4>3. QED
        BY <3>1, <4>1, <4>2
    <3>5. QED
      BY <3>2, <3>3, <3>4
  <2>3. PushShape'
    <3>1. db'.rows \in everRows' /\ atFreeze' \in everRows'
      BY <1>1, <2>1 DEF PushShape
    <3>2. JobShape'
      BY <1>1, <1>3, <2>1 DEF PushShape, JobShape
    <3>3. NotYetFrozen'
      BY <1>1, <2>1 DEF PushShape, NotYetFrozen
    <3>4. QED
      BY <1>1, <1>3, <2>1, <2>2, <3>1, <3>2, <3>3 DEF PushShape
  <2>4. Live
    BY <1>3 DEF Live
  <2>5. \A N : PusherBounded(N) => PusherBounded(N)'
    BY <2>1, <2>4 DEF PusherBounded, PushBounded, state
  <2>6. \A n, b : PusherCarries(n, b) => PusherCarries(n, b)'
    BY <2>1, <2>4 DEF PusherCarries, PushCarries, Turns, Merged, Header
  <2>7. \A b : Genuine(b) => Genuine(b)'
    BY <2>1 DEF Genuine
  <2>8. \A N \in Nat : Numbered(N) => PusherKept(N)
    BY <2>5, <2>6, <2>7 DEF Numbered, PusherKept
  <2>9. WebKept
    BY <1>1, <2>1, WebSame
  <2>10. \A N \in Nat : Numbered(N) => Numbered(N)'
    BY <2>8, <2>9, WebKeptSide, BothSides
  <2>11. QED
    BY <2>2, <2>3, <2>9, <2>10 DEF Keeps, RankingShape, WebKept
<1>4. CASE ScoreChanges
  <2>1. PICK k \in Keys, v \in Vals \cup {None} : db.exists /\ Change([db EXCEPT !.rows[k] = v], "score")
    BY <1>4 DEF ScoreChanges
  <2>2. [db EXCEPT !.rows[k] = v] \in Db
    BY <1>2 DEF Rows
  <2>3. QED
    BY <1>3, <2>1, <2>2
<1>5. CASE ContestChanges
  <2>1. db.exists
    BY <1>5 DEF ContestChanges
  <2>2. PICK new \in {[db EXCEPT !.hdr = h] : h \in Hdrs} \cup {[db EXCEPT !.name = n] : n \in Names}
                       \cup {[db EXCEPT !.vis = v] : v \in Visibilities}
                       \cup {[db EXCEPT !.unfrozen = contestClock # "running"], [db EXCEPT !.exists = FALSE]} :
          Change(new, "contest")
    BY <1>5 DEF ContestChanges
  <2>3. CASE \E h \in Hdrs : new = [db EXCEPT !.hdr = h]
    <3>1. new \in Db
      BY <1>2, <2>3
    <3>2. QED
      BY <1>3, <2>1, <2>2, <3>1
  <2>4. CASE \E n \in Names : new = [db EXCEPT !.name = n]
    <3>1. new \in Db
      BY <1>2, <2>4
    <3>2. QED
      BY <1>3, <2>1, <2>2, <3>1
  <2>5. CASE \E v \in Visibilities : new = [db EXCEPT !.vis = v]
    <3>1. new \in Db
      BY <1>2, <2>5, RankingPushAssumption
    <3>2. QED
      BY <1>3, <2>1, <2>2, <3>1
  <2>6. CASE new = [db EXCEPT !.unfrozen = contestClock # "running"]
    <3>1. \A u \in BOOLEAN : [db EXCEPT !.unfrozen = u] \in Db
      BY <1>2
    <3>2. (contestClock # "running") \in BOOLEAN
      OBVIOUS
    <3>3. new \in Db
      BY <2>6, <3>1, <3>2
    <3>4. QED
      BY <1>3, <2>1, <2>2, <3>3
  <2>7. CASE new = [db EXCEPT !.exists = FALSE]
    <3>1. new \in Db
      BY <1>2, <2>7
    <3>2. QED
      BY <1>3, <2>1, <2>2, <3>1
  <2>8. QED
    BY <2>2, <2>3, <2>4, <2>5, <2>6, <2>7
<1>6. CASE ClockTick
  <2>1. /\ db' = db /\ everRows' = everRows /\ st' = st /\ acked' = acked /\ job' = job /\ late' = late
        /\ UNCHANGED webVars /\ contestClock' \in {"frozen", "ended"}
        /\ contestClock # "running" => atFreeze' = atFreeze
        /\ contestClock = "running" => atFreeze' = db.rows
    BY <1>6 DEF ClockTick, pushVars
  <2>2. count' \in [changes : Nat, faults : Nat, crashes : Nat, restarts : Nat] /\ count'.restarts = count.restarts
    BY <1>1, <1>6 DEF ClockTick, PushShape
  <2>3. atFreeze' \in Rows /\ atFreeze' \in everRows'
    BY <1>1, <2>1 DEF PushShape
  <2>4. PushShape'
    <3>1. JobShape' /\ NotYetFrozen'
      BY <1>1, <2>1 DEF PushShape, JobShape, NotYetFrozen
    <3>2. QED
      BY <1>1, <2>1, <2>2, <2>3, <3>1 DEF PushShape
  <2>5. \A N : PusherBounded(N) => PusherBounded(N)'
    BY <2>1 DEF PusherBounded, PushBounded, state, Live, Computing
  <2>6. \A n, b : PusherCarries(n, b) => PusherCarries(n, b)'
    BY <2>1 DEF PusherCarries, PushCarries, Turns, Merged, Header, Live, Computing
  <2>7. \A b : Genuine(b) => Genuine(b)'
    BY <2>1 DEF Genuine
  <2>8. \A N \in Nat : Numbered(N) => PusherKept(N)
    BY <2>5, <2>6, <2>7 DEF Numbered, PusherKept
  <2>9. WebKept
    BY <1>1, <2>1, WebSame
  <2>10. \A N \in Nat : Numbered(N) => Numbered(N)'
    BY <2>8, <2>9, WebKeptSide, BothSides
  <2>11. QED
    BY <2>2, <2>4, <2>9, <2>10 DEF Keeps, RankingShape, WebKept
<1>7. QED
  BY <1>4, <1>5, <1>6

-----------------------------------------------------------------------------
\* Marking the contest: what is known of it, or nothing yet.
LEMMA StateShape ==
    ASSUME PushShape
    PROVE  /\ state \in PusherState /\ (state.listed => state.name \in Names)
           /\ st # None => state = st
           /\ st = None => state.board = None /\ state.seq = 0 /\ job.phase = "idle"
<1>1. NewState \in PusherState /\ NewState.board = None /\ NewState.seq = 0 /\ ~NewState.listed
  BY DEF NewState, PusherState
<1>2. QED
  BY <1>1 DEF state, PushShape

\* An event or the loop marks the contest.
LEMMA MarkKeeps ==
    ASSUME RankingShape, Watch \/ discover
    PROVE  Keeps
<1>1. WebShape /\ PushShape
  BY DEF RankingShape
<1>2. /\ db' = db /\ contestClock' = contestClock /\ atFreeze' = atFreeze /\ everRows' = everRows
      /\ acked' = acked /\ job' = job /\ late' = late /\ count' = count /\ UNCHANGED webVars
  BY DEF Watch, discover, dbVars
<1>3. state \in PusherState /\ (state.listed => state.name \in Names)
  BY <1>1, StateShape
<1>4. PICK full \in BOOLEAN : st' = [state EXCEPT !.dirty = TRUE, !.full = full]
  <2>1. CASE Watch
    <3>1. PICK e : st' = [state EXCEPT !.dirty = TRUE, !.full = @ \/ e = "contest"]
      BY <2>1 DEF Watch
    <3>2. (state.full \/ e = "contest") \in BOOLEAN
      OBVIOUS
    <3>3. QED
      BY <3>1, <3>2
  <2>2. CASE discover
    BY <2>2 DEF discover
  <2>3. QED
    BY <2>1, <2>2
<1>5. /\ st' \in PusherState /\ st'.board = state.board /\ st'.seq = state.seq /\ st'.listed = state.listed
      /\ st'.name = state.name
  BY <1>3, <1>4 DEF PusherState
<1>6. st' # None
  BY <1>5, Apart
<1>7. JobShape'
  <2>1. job.phase = "send" => st'.seq > 0
    BY <1>1, <1>5, StateShape DEF PushShape, JobShape
  <2>2. QED
    BY <1>1, <1>2, <2>1 DEF PushShape, JobShape
<1>8. PushShape'
  <2>1. job.phase # "idle" => st'.name \in Names
    BY <1>1, <1>5, StateShape DEF PushShape
  <2>2. NotYetFrozen'
    BY <1>1, <1>2 DEF PushShape, NotYetFrozen
  <2>3. QED
    BY <1>1, <1>2, <1>3, <1>5, <1>6, <1>7, <2>1, <2>2 DEF PushShape
<1>9. state'.seq = state.seq
  BY <1>5, <1>6 DEF state
<1>10. \A N : PusherBounded(N) => PusherBounded(N)'
  BY <1>2, <1>9 DEF PusherBounded, PushBounded, Live, Computing
<1>11. \A n, b : PusherCarries(n, b) => PusherCarries(n, b)'
  <2> SUFFICES ASSUME NEW n, NEW b, PusherCarries(n, b) PROVE PusherCarries(n, b)'
    OBVIOUS
  <2>1. \A r \in late : PushCarries(r.m, n, b)'
    BY <1>2 DEF PusherCarries, PushCarries, Turns, Merged, Header
  <2>2. st'.board # None => st # None /\ st'.board = st.board /\ st'.seq = st.seq
    BY <1>1, <1>5, StateShape
  <2>3. job.phase = "send" => st'.seq = st.seq
    BY <1>1, <1>5, StateShape
  <2>4. QED
    BY <1>2, <2>1, <2>2, <2>3 DEF PusherCarries, Live, Computing, Turns, Merged, Header
<1>12. \A b : Genuine(b) => Genuine(b)'
  BY <1>2 DEF Genuine
<1>13. \A N \in Nat : Numbered(N) => PusherKept(N)
  BY <1>10, <1>11, <1>12 DEF Numbered, PusherKept
<1>14. WebKept
  BY <1>1, <1>2, WebSame
<1>15. \A N \in Nat : Numbered(N) => Numbered(N)'
  BY <1>13, <1>14, WebKeptSide, BothSides
<1>16. QED
  BY <1>2, <1>8, <1>14, <1>15 DEF Keeps, RankingShape, WebKept

-----------------------------------------------------------------------------
\* A failed push: its marks are back.
LEMMA RequeuedShape ==
    ASSUME NEW s \in PusherState
    PROVE  /\ requeued(s) \in PusherState /\ requeued(s).board = s.board /\ requeued(s).seq = s.seq
           /\ requeued(s).listed = s.listed /\ requeued(s).name = s.name
BY DEF requeued, PusherState

\* The push ends, with or without its marks: the pusher knows board under
\* its number.
LEMMA EndKeeps ==
    ASSUME PushShape, st # None, st' \in PusherState, st'.seq = st.seq, st'.listed => st'.name \in Names,
           job' = NoPush, UNCHANGED dbVars, acked' \in [RankingServers -> [Names -> Int]],
           late' \subseteq [to : RankingServers, m : Pushes],
           count' \in [changes : Nat, faults : Nat, crashes : Nat, restarts : Nat]
    PROVE  /\ PushShape'
           /\ Live' => db.exists
           /\ st' # None /\ state' = st'
           /\ \A b : Genuine(b) => Genuine(b)'
<1>1. db' = db /\ contestClock' = contestClock /\ atFreeze' = atFreeze /\ everRows' = everRows
  BY DEF dbVars
<1>2. job'.phase = "idle"
  BY DEF NoPush
<1>3. JobShape' /\ NotYetFrozen'
  BY <1>2 DEF JobShape, NotYetFrozen
<1>4. st' # None
  BY Apart
<1>5. PushShape'
  BY <1>1, <1>2, <1>3, <1>4 DEF PushShape
<1>6. QED
  BY <1>1, <1>2, <1>4, <1>5 DEF Live, Computing, state, Genuine

\* The contest or its rows cannot be read: the contest is marked again.
LEMMA FailKeeps ==
    ASSUME RankingShape, readFails \/ computeFails
    PROVE  Keeps
<1>1. WebShape /\ PushShape
  BY DEF RankingShape
<1>2. /\ UNCHANGED dbVars /\ acked' = acked /\ late' = late /\ UNCHANGED webVars
      /\ st' = requeued(st) /\ job' = NoPush /\ job.phase \in {"idle", "compute"}
  BY DEF readFails, computeFails, Due
<1>3. count' \in [changes : Nat, faults : Nat, crashes : Nat, restarts : Nat] /\ count'.restarts = count.restarts
  BY <1>1, FaultCounts DEF readFails, computeFails
<1>4. st # None /\ st \in PusherState
  BY <1>1 DEF readFails, computeFails, Due, PushShape
<1>5. /\ st' \in PusherState /\ st'.board = st.board /\ st'.seq = st.seq
      /\ st'.listed = st.listed /\ st'.name = st.name
  BY <1>2, <1>4, RequeuedShape
<1>6. /\ PushShape' /\ (Live' => db.exists) /\ st' # None /\ state' = st'
      /\ \A b : Genuine(b) => Genuine(b)'
  <2>1. st'.listed => st'.name \in Names
    BY <1>1, <1>4, <1>5 DEF PushShape
  <2>2. acked' \in [RankingServers -> [Names -> Int]] /\ late' \subseteq [to : RankingServers, m : Pushes]
    BY <1>1, <1>2 DEF PushShape
  <2>3. QED
    BY <1>1, <1>2, <1>3, <1>4, <1>5, <2>1, <2>2, EndKeeps
<1>7. \A N : PusherBounded(N) => PusherBounded(N)'
  BY <1>2, <1>4, <1>5, <1>6 DEF PusherBounded, PushBounded, Live, state
<1>8. job'.phase = "idle"
  BY <1>2 DEF NoPush
<1>9. \A n, b : PusherCarries(n, b) => PusherCarries(n, b)'
  BY <1>2, <1>4, <1>5, <1>6, <1>8 DEF PusherCarries, PushCarries, Turns, Merged, Header, Live
<1>10. \A N \in Nat : Numbered(N) => PusherKept(N)
  BY <1>6, <1>7, <1>9 DEF Numbered, PusherKept
<1>11. WebKept
  BY <1>1, <1>2, WebSame
<1>12. \A N \in Nat : Numbered(N) => Numbered(N)'
  BY <1>10, <1>11, WebKeptSide, BothSides
<1>13. QED
  BY <1>3, <1>6, <1>11, <1>12 DEF Keeps, RankingShape, WebKept

\* What the pusher sends is a request.
LEMMA MessageShape ==
    ASSUME PushShape, job.phase \in {"send", "delete"}, NEW s \in RankingServers
    PROVE  Message(s) \in Pushes
<1>1. CASE job.phase = "delete"
  <2>1. job \in DeleteJob(Then)
    BY <1>1 DEF PushShape, JobShape
  <2>2. job.name \in Names
    BY <2>1 DEF DeleteJob
  <2>3. QED
    BY <1>1, <2>2 DEF Message, Pushes, DeletePushes
<1>2. CASE job.phase = "send"
  <2>1. job \in SendJob /\ st.seq > 0 /\ st \in PusherState
    BY <1>2 DEF PushShape, JobShape
  <2>2. /\ job.name \in Names /\ job.key \in BOOLEAN /\ job.next \in Content
        /\ job.d.changed \subseteq Keys /\ job.d.removed \subseteq Keys
    BY <2>1 DEF SendJob
  <2>3. st.seq \in Nat /\ st.seq - 1 \in Nat
    BY <2>1 DEF PusherState
  <2>4. CASE job.full \/ acked[s][job.name] # st.seq - 1
    BY <1>2, <2>2, <2>3, <2>4 DEF Message, Pushes, FullPushes
  <2>5. CASE ~(job.full \/ acked[s][job.name] # st.seq - 1)
    BY <1>2, <2>2, <2>3, <2>5 DEF Message, Pushes, DeltaPushes
  <2>6. QED
    BY <2>4, <2>5
<1>3. QED
  BY <1>1, <1>2

\* Another process is the pusher: the numbers start over.
LEMMA PusherRestartKeeps ==
    ASSUME RankingShape, PusherRestart
    PROVE  Keeps
<1>1. WebShape /\ PushShape
  BY DEF RankingShape
<1>2. /\ UNCHANGED dbVars /\ UNCHANGED webVars /\ st' = None /\ job' = NoPush
      /\ acked' = [s \in RankingServers |-> [n \in Names |-> 0]]
      /\ count' = [count EXCEPT !.restarts = @ + 1]
  BY DEF PusherRestart
<1>3. count' \in [changes : Nat, faults : Nat, crashes : Nat, restarts : Nat] /\ count'.restarts # 0
  BY <1>1, <1>2 DEF PushShape
<1>4. \A s \in RankingServers : job.phase = "send" => Message(s) \in Pushes
  BY <1>1, MessageShape
<1>5. late' \subseteq [to : RankingServers, m : Pushes]
  <2>1. late \subseteq [to : RankingServers, m : Pushes]
    BY <1>1 DEF PushShape
  <2>2. CASE job.phase = "send"
    <3>1. late' = late \cup {[to |-> s, m |-> Message(s)] : s \in job.todo}
      BY <2>2 DEF PusherRestart
    <3>2. job.todo \subseteq RankingServers
      BY <1>1, <2>2 DEF PushShape, JobShape, SendJob
    <3>3. QED
      BY <2>1, <2>2, <3>1, <3>2, <1>4
  <2>3. CASE job.phase # "send"
    BY <2>1, <2>3 DEF PusherRestart
  <2>4. QED
    BY <2>2, <2>3
<1>6. PushShape'
  <2>1. db' = db /\ contestClock' = contestClock /\ atFreeze' = atFreeze /\ everRows' = everRows
    BY <1>2 DEF dbVars
  <2>2. job'.phase = "idle"
    BY <1>2 DEF NoPush
  <2>3. JobShape' /\ NotYetFrozen'
    BY <1>2, <2>2 DEF JobShape, NotYetFrozen
  <2>4. acked' \in [RankingServers -> [Names -> Int]]
    BY <1>2
  <2>5. QED
    BY <1>1, <1>2, <1>3, <1>5, <2>1, <2>2, <2>3, <2>4 DEF PushShape
<1>7. WebShape'
  BY <1>1, <1>2, WebSame DEF WebKept
<1>8. QED
  BY <1>3, <1>6, <1>7 DEF Keeps, RankingShape

-----------------------------------------------------------------------------
\* Reading the contest: it is computed, its board is deleted, or nothing.
LEMMA JobParts ==
    /\ \A j \in ComputeJob : j.phase = "compute" /\ j \in Then /\ j # None /\ j # NoPush
    /\ \A then : \A j \in DeleteJob(then) : j.phase = "delete" /\ j.then \in then /\ j.name \in Names /\ j.todo \subseteq RankingServers
    /\ NoPush.phase = "idle" /\ NoPush \in Then /\ None \in Then /\ NoPush \notin ComputeJob /\ None \notin ComputeJob
    /\ \A j \in DeleteJob({NoPush}) : j \in Then /\ j # None /\ j \notin ComputeJob
<1>1. \A j \in ComputeJob : j.phase = "compute"
  BY DEF ComputeJob
<1>2. \A then : \A j \in DeleteJob(then) : j.phase = "delete" /\ j.then \in then /\ j.name \in Names /\ j.todo \subseteq RankingServers
  BY DEF DeleteJob
<1>3. NoPush.phase = "idle"
  BY DEF NoPush
<1>4. QED
  BY <1>1, <1>2, <1>3, Apart DEF Then

\* A board about to be deleted.
LEMMA DeleteBoardIs ==
    ASSUME NEW n \in Names, NEW S, NEW then \in S
    PROVE  /\ deleteBoard(n, then) \in DeleteJob(S) /\ deleteBoard(n, then).then = then
           /\ deleteBoard(n, then).phase = "delete"
BY DEF deleteBoard, DeleteJob

\* The contest is read, and its board to be deleted, computed or left.
LEMMA ReadKeeps ==
    ASSUME RankingShape, readContest
    PROVE  Keeps
<1>1. WebShape /\ PushShape
  BY DEF RankingShape
<1>2. /\ UNCHANGED dbVars /\ acked' = acked /\ late' = late /\ UNCHANGED webVars /\ count' = count
      /\ job.phase = "idle" /\ st # None /\ st \in PusherState
  BY <1>1 DEF readContest, Due, PushShape
<1>3. db' = db /\ contestClock' = contestClock /\ atFreeze' = atFreeze /\ everRows' = everRows
  BY <1>2 DEF dbVars
<1>4. \A b : Genuine(b) => Genuine(b)'
  BY <1>3 DEF Genuine
<1>5. WebKept
  BY <1>1, <1>2, WebSame
<1>6. \A n, b : (\A r \in late : PushCarries(r.m, n, b)) => \A r \in late' : PushCarries(r.m, n, b)'
  BY <1>2 DEF PushCarries, Turns, Merged, Header
<1>7. \A N : (\A r \in late : PushBounded(r.m, N)) => \A r \in late' : PushBounded(r.m, N)'
  BY <1>2 DEF PushBounded
<1>8. CASE ~db.exists /\ remove
  <2>1. \/ job' = NoPush /\ st' = None
        \/ st.listed /\ job' = deleteBoard(st.name, None) /\ st' = st
    BY <1>8 DEF remove
  <2>2. /\ PushShape' /\ ~Live'
    <3>1. CASE job' = NoPush /\ st' = None
      <4>1. job'.phase = "idle"
        BY <3>1, JobParts
      <4>2. JobShape' /\ NotYetFrozen'
        BY <3>1, <4>1 DEF JobShape, NotYetFrozen
      <4>3. ~Live'
        BY <1>3, <1>8, <4>1 DEF Live, Computing
      <4>4. PushShape'
        BY <1>1, <1>2, <1>3, <3>1, <4>1, <4>2 DEF PushShape
      <4>5. QED
        BY <4>3, <4>4
    <3>2. CASE st.listed /\ job' = deleteBoard(st.name, None) /\ st' = st
      <4>1. st.name \in Names
        BY <1>1, <1>2, <3>2 DEF PushShape
      <4>2. job' \in DeleteJob(Then) /\ job'.then = None /\ job'.phase = "delete"
        BY <3>2, <4>1, JobParts, DeleteBoardIs
      <4>3. JobShape'
        BY <1>3, <1>8, <4>2 DEF JobShape
      <4>4. NotYetFrozen'
        BY <4>2, JobParts DEF NotYetFrozen
      <4>5. ~Live'
        BY <1>3, <1>8, <4>2, JobParts DEF Live, Computing
      <4>6. PushShape'
        BY <1>1, <1>2, <1>3, <3>2, <4>1, <4>2, <4>3, <4>4 DEF PushShape
      <4>7. QED
        BY <4>5, <4>6
    <3>3. QED
      BY <2>1, <3>1, <3>2
  <2>3. \A N : PusherBounded(N) => PusherBounded(N)'
    BY <1>7, <2>2 DEF PusherBounded
  <2>4. job'.phase # "send"
    BY <2>2 DEF Live
  <2>5. \A n, b : PusherCarries(n, b) => PusherCarries(n, b)'
    BY <1>6, <2>2, <2>4 DEF PusherCarries
  <2>6. \A N \in Nat : Numbered(N) => PusherKept(N)
    BY <1>4, <2>3, <2>5 DEF Numbered, PusherKept
  <2>7. \A N \in Nat : Numbered(N) => Numbered(N)'
    BY <1>5, <2>6, WebKeptSide, BothSides
  <2>8. QED
    BY <1>2, <1>5, <2>2, <2>7 DEF Keeps, RankingShape, WebKept
<1>9. CASE db.exists
  <2> DEFINE renamed == st.listed /\ st.name # db.name
             listed == st.listed /\ ~renamed
             unlist == ~published /\ (listed \/ Full)
             next == [phase |-> "compute", full |-> Full, name |-> db.name,
                      frozen |-> Frozen(db.unfrozen), key |-> db.vis = "admins"]
             rest == IF published THEN next
                     ELSE IF unlist THEN deleteBoard(db.name, NoPush) ELSE NoPush
  <2>1. /\ st' = [st EXCEPT !.dirty = FALSE, !.full = FALSE, !.name = db.name,
                            !.unfrozen = db.unfrozen, !.after = db.after,
                            !.listed = listed /\ ~unlist,
                            !.board = IF unlist THEN None ELSE @]
        /\ job' = IF renamed THEN deleteBoard(st.name, rest) ELSE rest
    BY <1>9 DEF readContest
  <2>2. db.name \in Names /\ db.unfrozen \in BOOLEAN /\ db.after \in BOOLEAN
    BY <1>1 DEF PushShape
  <2>3. /\ st' \in PusherState /\ st'.seq = st.seq /\ st'.name = db.name
        /\ st'.board = None \/ st'.board = st.board
    <3> DEFINE l == listed /\ ~unlist
               bo == IF unlist THEN None ELSE st.board
    <3>1. l \in BOOLEAN /\ bo \in Content \cup {None} /\ (bo = None \/ bo = st.board)
      BY <1>2 DEF PusherState
    <3>2. st' = [st EXCEPT !.dirty = FALSE, !.full = FALSE, !.name = db.name, !.unfrozen = db.unfrozen,
                           !.after = db.after, !.listed = l, !.board = bo]
      BY <2>1
    <3> HIDE DEF l, bo
    <3>3. QED
      BY <1>2, <2>2, <3>1, <3>2 DEF PusherState
  <2>4. next \in ComputeJob /\ (contestClock = "running" => ~next.frozen)
    <3> SUFFICES ASSUME NEW fu \in BOOLEAN, NEW fr \in BOOLEAN, NEW ke \in BOOLEAN,
                        contestClock = "running" => ~fr
                 PROVE  LET x == [phase |-> "compute", full |-> fu, name |-> db.name, frozen |-> fr, key |-> ke]
                        IN x \in ComputeJob /\ (contestClock = "running" => ~x.frozen)
      <4>1. Full \in BOOLEAN /\ Frozen(db.unfrozen) \in BOOLEAN /\ (db.vis = "admins") \in BOOLEAN
        BY DEF Full, Frozen, clockMarks
      <4>2. contestClock = "running" => ~Frozen(db.unfrozen)
        BY DEF Frozen
      <4>3. QED
        BY <4>1, <4>2
    <3>1. QED
      BY <2>2 DEF ComputeJob
  <2> HIDE DEF next
  <2>5. /\ rest \in Then /\ rest # None
        /\ rest \in ComputeJob \/ rest = NoPush \/ rest \in DeleteJob({NoPush})
        /\ rest \in ComputeJob => rest = next
    <3>1. CASE published
      BY <3>1, <2>4, JobParts
    <3>2. CASE ~published /\ unlist
      BY <3>2, <2>2, JobParts, DeleteBoardIs
    <3>3. CASE ~published /\ ~unlist
      BY <3>3, JobParts, Apart
    <3>4. QED
      BY <3>1, <3>2, <3>3
  <2> HIDE DEF rest
  <2>6. job'.phase \in {"idle", "compute", "delete"} /\ JobShape' /\ NotYetFrozen'
    <3>1. CASE renamed
      <4>1. st.name \in Names
        BY <1>1, <1>2, <3>1 DEF PushShape
      <4>2. job' \in DeleteJob(Then) /\ job'.then = rest /\ job'.phase = "delete"
        BY <2>1, <2>5, <3>1, <4>1, DeleteBoardIs
      <4>3. JobShape' /\ NotYetFrozen'
        BY <1>3, <2>4, <2>5, <4>2 DEF JobShape, NotYetFrozen
      <4>4. QED
        BY <4>2, <4>3
    <3>2. CASE ~renamed
      <4>1. job' = rest
        BY <2>1, <3>2
      <4>2. job'.phase \in {"idle", "compute", "delete"}
        BY <2>5, <4>1, JobParts
      <4>3. CASE rest \in ComputeJob
        <5>1. job'.phase = "compute" /\ job' \in ComputeJob /\ (contestClock = "running" => ~job'.frozen)
          BY <2>4, <2>5, <4>1, <4>3, JobParts
        <5>2. QED
          BY <1>3, <5>1 DEF JobShape, NotYetFrozen
      <4>4. CASE rest = NoPush
        <5>1. job'.phase = "idle" /\ job' = NoPush
          BY <4>1, <4>4, JobParts
        <5>2. QED
          BY <5>1 DEF JobShape, NotYetFrozen
      <4>5. CASE rest \in DeleteJob({NoPush})
        <5>1. job'.phase = "delete" /\ job' \in DeleteJob(Then) /\ job'.then = NoPush /\ NoPush # None /\ NoPush \notin ComputeJob
          BY <4>1, <4>5, JobParts, Apart DEF DeleteJob
        <5>2. QED
          BY <5>1 DEF JobShape, NotYetFrozen
      <4>6. QED
        BY <2>5, <4>2, <4>3, <4>4, <4>5
    <3>3. QED
      BY <3>1, <3>2
  <2>7. st' # None
    BY <2>3, Apart
  <2>8. PushShape'
    BY <1>1, <1>2, <1>3, <2>2, <2>3, <2>6, <2>7 DEF PushShape
  <2>9. Live
    BY <1>9 DEF Live
  <2>10. \A N : PusherBounded(N) => PusherBounded(N)'
    BY <1>2, <1>7, <2>3, <2>7, <2>9 DEF PusherBounded, state
  <2>11. \A n, b : PusherCarries(n, b) => PusherCarries(n, b)'
    BY <1>2, <1>6, <2>3, <2>6, <2>9 DEF PusherCarries
  <2>12. \A N \in Nat : Numbered(N) => PusherKept(N)
    BY <1>4, <2>10, <2>11 DEF Numbered, PusherKept
  <2>13. \A N \in Nat : Numbered(N) => Numbered(N)'
    BY <1>5, <2>12, WebKeptSide, BothSides
  <2>14. QED
    BY <1>2, <1>5, <2>8, <2>13 DEF Keeps, RankingShape, WebKept
<1>10. QED
  BY <1>8, <1>9 DEF readContest

-----------------------------------------------------------------------------
\* Nothing has the number after the last one.
LEMMA NextNumberFree ==
    ASSUME WebShape, NEW N \in Nat, WebBounded(N), NEW n, n = N + 1, NEW b
    PROVE  WebCarries(n, b)
<1>1. ASSUME NEW s \in RankingServers, NEW m \in Names, boards[s][m] # None
      PROVE  boards[s][m].seq # n /\ boards[s][m].shown # n
  <2>1. boards[s][m] \in Board /\ boards[s][m].seq <= N /\ boards[s][m].shown <= N
    BY <1>1 DEF WebShape, WebBounded
  <2>2. QED
    BY <2>1 DEF Board
<1>2. ASSUME NEW s \in RankingServers
      PROVE  /\ \A m \in Names : disk[s][m] # None => disk[s][m].seq # n
             /\ saving[s] # None => saving[s].seq # n
  <2>1. ASSUME NEW m \in Names, disk[s][m] # None PROVE disk[s][m].seq # n
    <3>1. disk[s][m] \in Saved /\ disk[s][m].seq <= N
      BY <2>1 DEF WebShape, WebBounded
    <3>2. QED
      BY <3>1 DEF Saved
  <2>2. ASSUME saving[s] # None PROVE saving[s].seq # n
    <3>1. saving[s] \in [name : Names, b : Content, seq : Nat, key : BOOLEAN] /\ saving[s].seq <= N
      BY <2>2 DEF WebShape, WebBounded
    <3>2. QED
      BY <3>1
  <2>3. QED
    BY <2>1, <2>2
<1>3. ASSUME NEW g \in Pages PROVE PageCarries(pages[g], n, b)
  <2>1. pages[g] \in Page /\ PageBounded(pages[g], N)
    BY DEF WebShape, WebBounded
  <2>2. pages[g].state = "open" => pages[g].seq # n
    BY <2>1 DEF Page, PageBounded
  <2>3. ASSUME NEW i \in DOMAIN pages[g].frames PROVE FrameCarries(pages[g].frames[i], n, b)
    <3> DEFINE f == pages[g].frames[i]
    <3>1. f \in {Reload} \cup RowsFrame
      BY <2>1 DEF Page
    <3>2. FrameBounded(f, N)
      BY <2>1 DEF PageBounded
    <3>3. f.kind = "rows" => f.seq \in Nat /\ f.base \in Nat
      BY <3>1 DEF Reload, RowsFrame
    <3>4. QED
      BY <3>2, <3>3 DEF FrameBounded, FrameCarries
  <2>4. QED
    BY <2>2, <2>3 DEF PageCarries
<1>4. QED
  BY <1>1, <1>2, <1>3 DEF WebCarries, BoardsCarry, FilesCarry

\* A number more may be given out.
LEMMA WebBoundedMore == ASSUME WebShape, NEW N \in Nat, WebBounded(N) PROVE WebBounded(N + 1)
<1>1. ASSUME NEW s \in RankingServers, NEW m \in Names
      PROVE  /\ boards[s][m] # None => boards[s][m].seq <= N + 1 /\ boards[s][m].shown <= N + 1
             /\ disk[s][m] # None => disk[s][m].seq <= N + 1
  <2>1. boards[s][m] \in Board \cup {None} /\ disk[s][m] \in Saved \cup {None}
    BY DEF WebShape
  <2>2. QED
    BY <2>1 DEF WebBounded, Board, Saved
<1>2. ASSUME NEW s \in RankingServers, saving[s] # None PROVE saving[s].seq <= N + 1
  <2>1. saving[s] \in [name : Names, b : Content, seq : Nat, key : BOOLEAN]
    BY <1>2 DEF WebShape
  <2>2. QED
    BY <1>2, <2>1 DEF WebBounded
<1>3. ASSUME NEW g \in Pages PROVE PageBounded(pages[g], N + 1)
  <2>1. pages[g] \in Page /\ PageBounded(pages[g], N)
    BY DEF WebShape, WebBounded
  <2>2. pages[g].seq \in Nat /\ \A i \in DOMAIN pages[g].frames : pages[g].frames[i] \in {Reload} \cup RowsFrame
    BY <2>1 DEF Page
  <2>3. ASSUME NEW i \in DOMAIN pages[g].frames PROVE FrameBounded(pages[g].frames[i], N + 1)
    <3>1. pages[g].frames[i] \in {Reload} \cup RowsFrame /\ FrameBounded(pages[g].frames[i], N)
      BY <2>1, <2>2 DEF PageBounded
    <3>2. pages[g].frames[i].kind = "rows" => pages[g].frames[i].seq \in Nat /\ pages[g].frames[i].base \in Nat
      BY <3>1 DEF Reload, RowsFrame
    <3>3. QED
      BY <3>1, <3>2 DEF FrameBounded
  <2>4. QED
    BY <2>1, <2>2, <2>3 DEF PageBounded
<1>4. QED
  BY <1>1, <1>2, <1>3 DEF WebBounded

\* The requests that may still arrive are of earlier numbers too.
LEMMA LateNumbers ==
    ASSUME PushShape, NEW N \in Nat, PusherBounded(N), NEW r \in late
    PROVE  /\ PushBounded(r.m, N + 1)
           /\ \A b : PushCarries(r.m, N + 1, b)
<1>1. r.m \in Pushes /\ PushBounded(r.m, N)
  BY DEF PushShape, PusherBounded
<1>2. r.m.kind # "delete" => r.m.seq \in Nat /\ (r.m.kind = "delta" => r.m.base \in Nat)
  BY <1>1 DEF Pushes, DeletePushes, FullPushes, DeltaPushes
<1>3. QED
  BY <1>1, <1>2 DEF PushBounded, PushCarries

\* A board computed gets a number of its own.
LEMMA ComputeKeeps ==
    ASSUME RankingShape, compute
    PROVE  Keeps
<1>1. WebShape /\ PushShape
  BY DEF RankingShape
<1> DEFINE next == [name |-> job.name, hdr |-> db.hdr, frozen |-> job.frozen,
                    rows |-> IF job.frozen THEN atFreeze ELSE db.rows]
           d == Diff(st.board, next)
           headerChanged == st.board = None \/ Header(st.board) # Header(next)
<1>2. /\ UNCHANGED dbVars /\ acked' = acked /\ late' = late /\ UNCHANGED webVars /\ count' = count
      /\ job.phase = "compute"
  BY DEF compute
<1>3. db' = db /\ contestClock' = contestClock /\ atFreeze' = atFreeze /\ everRows' = everRows
  BY <1>2 DEF dbVars
<1>4. /\ job \in ComputeJob /\ st # None /\ st \in PusherState /\ st.name \in Names
      /\ st.board \in Content \cup {None} /\ st.seq \in Nat
  BY <1>1, <1>2 DEF PushShape, JobShape, PusherState
<1>5. job.name \in Names /\ job.full \in BOOLEAN /\ job.key \in BOOLEAN /\ job.frozen \in BOOLEAN
  BY <1>4 DEF ComputeJob
<1>6. next \in Content
  <2>1. db.hdr \in Hdrs /\ (IF job.frozen THEN atFreeze ELSE db.rows) \in Rows
    BY <1>1 DEF PushShape
  <2>2. QED
    BY <1>5, <2>1 DEF Content
<1>7. Genuine(next) /\ Header(next) = <<job.name, db.hdr, job.frozen>>
  <2>1. next.rows = (IF job.frozen THEN atFreeze ELSE db.rows) /\ next.frozen = job.frozen
    OBVIOUS
  <2>2. job.frozen => contestClock # "running"
    BY <1>1, <1>2 DEF PushShape, NotYetFrozen
  <2>3. QED
    BY <1>1, <2>1, <2>2 DEF Genuine, PushShape, Header
<1>8. \A b : Genuine(b) => Genuine(b)'
  BY <1>3 DEF Genuine
<1>9. WebKept
  BY <1>1, <1>2, WebSame
<1>10. Live /\ state = st
  BY <1>2, <1>4 DEF Live, Computing, state
<1>11. CASE ~job.full /\ ~headerChanged /\ d.changed = {} /\ d.removed = {}
  <2>1. job' = NoPush /\ st' = st
    BY <1>11 DEF compute
  <2>2. /\ PushShape' /\ (Live' => db.exists) /\ st' # None /\ state' = st'
    <3>1. late' \subseteq [to : RankingServers, m : Pushes] /\ acked' \in [RankingServers -> [Names -> Int]]
          /\ count' \in [changes : Nat, faults : Nat, crashes : Nat, restarts : Nat]
      BY <1>1, <1>2 DEF PushShape
    <3>2. QED
      BY <1>1, <1>2, <1>4, <2>1, <3>1, EndKeeps
  <2>3. job'.phase = "idle"
    BY <2>1, JobParts
  <2>4. \A N : PusherBounded(N) => PusherBounded(N)'
    BY <1>2, <1>10, <2>1, <2>2 DEF PusherBounded, PushBounded
  <2>5. \A n, b : PusherCarries(n, b) => PusherCarries(n, b)'
    BY <1>2, <1>10, <2>1, <2>3 DEF PusherCarries, PushCarries, Turns, Merged, Header
  <2>6. \A N \in Nat : Numbered(N) => PusherKept(N)
    BY <1>8, <2>4, <2>5 DEF Numbered, PusherKept
  <2>7. \A N \in Nat : Numbered(N) => Numbered(N)'
    BY <1>9, <2>6, WebKeptSide, BothSides
  <2>8. QED
    BY <1>2, <1>9, <2>2, <2>7 DEF Keeps, RankingShape, WebKept
<1>12. CASE ~(~job.full /\ ~headerChanged /\ d.changed = {} /\ d.removed = {})
  <2> DEFINE full == job.full \/ headerChanged
             sent == [phase |-> "send", full |-> full, name |-> job.name, key |-> job.key, next |-> next,
                      d |-> d, todo |-> RankingServers, failed |-> FALSE]
  <2>1. st' = [st EXCEPT !.seq = @ + 1] /\ job' = sent
    BY <1>12 DEF compute
  <2>2. /\ st' \in PusherState /\ st'.seq = st.seq + 1 /\ st'.name = st.name /\ st'.listed = st.listed
        /\ st'.board = st.board
    BY <1>4, <2>1 DEF PusherState
  <2>3. st' # None
    BY <2>2, Apart
  <2>4. d \in [changed : SUBSET Keys, removed : SUBSET Keys]
    BY DiffKeys
  <2>5. full \in BOOLEAN
    OBVIOUS
  <2>6. ~full => /\ st.board \in Content /\ Header(st.board) = Header(next)
                 /\ Turns(st.board.rows, d.changed, next.rows, d.removed)
    <3> HIDE DEF next
    <3>1. \A old \in Content : LET x == Diff(old, next) IN Turns(old.rows, x.changed, next.rows, x.removed)
      BY <1>6, DiffTurns
    <3>2. QED
      BY <1>4, <3>1
  <2> HIDE DEF next, d, full
  <2>7. /\ sent \in SendJob /\ sent.phase = "send" /\ sent.next = next /\ sent.full = full
        /\ sent.d = d
    BY <1>5, <1>6, <2>4, <2>5 DEF SendJob
  <2> HIDE DEF sent
  <2>8. JobShape' /\ NotYetFrozen'
    BY <1>4, <2>1, <2>2, <2>7 DEF JobShape, NotYetFrozen
  <2>9. PushShape'
    BY <1>1, <1>2, <1>3, <1>4, <2>1, <2>2, <2>3, <2>7, <2>8 DEF PushShape
  <2>10. job'.phase = "send"
    BY <2>1, <2>7
  <2>11. PICK c \in Content : c = next
    BY <1>6
  <2>12. job'.next = c /\ job'.full = full /\ job'.d = d
    BY <2>1, <2>7, <2>11
  <2>13. ASSUME NEW N \in Nat, Numbered(N)
         PROVE  Numbered(N + 1)'
    <3> DEFINE M == N + 1
    <3>1. N = st.seq /\ M \in Nat /\ M = st'.seq
      BY <1>10, <2>2, <2>13 DEF Numbered, PusherBounded
    <3>2. boards' = boards /\ disk' = disk /\ saving' = saving /\ pages' = pages
      BY <1>2 DEF webVars
    <3>3. WebBounded(M)'
      <4>1. WebBounded(M)
        BY <1>1, <2>13, WebBoundedMore DEF Numbered
      <4> HIDE DEF M
      <4>2. QED
        BY <3>2, <4>1 DEF WebBounded, PageBounded, FrameBounded
    <3>4. PusherBounded(M)'
      <4>1. \A r \in late : PushBounded(r.m, M)
        BY <1>1, <2>13, LateNumbers DEF Numbered
      <4>2. state'.seq = M
        BY <2>3, <3>1 DEF state
      <4> HIDE DEF M
      <4>3. QED
        BY <1>2, <4>1, <4>2 DEF PusherBounded, PushBounded
    <3>5. \A n, b : WebCarries(n, b) => WebCarries(n, b)'
      BY <3>2 DEF WebCarries, BoardsCarry, FilesCarry, PageCarries, FrameCarries, Turns, Merged, Whole, RevealsOf
    <3>6. \A n, b : (\A r \in late : PushCarries(r.m, n, b)) => (\A r \in late' : PushCarries(r.m, n, b)')
      BY <1>2 DEF PushCarries, Turns, Merged, Header
    <3>7. OneBoard(M)'
      <4>1. WebCarries(M, c)'
        BY <1>1, <2>13, <3>5, NextNumberFree DEF Numbered
      <4>2. \A r \in late' : PushCarries(r.m, M, c)'
        BY <1>1, <2>13, <3>6, LateNumbers DEF Numbered
      <4>3. Genuine(c)'
        BY <1>7, <1>8, <2>11
      <4>4. st'.seq - 1 # M
        BY <3>1
      <4> HIDE DEF M
      <4>5. PusherCarries(M, c)'
        BY <2>10, <2>12, <4>2, <4>4 DEF PusherCarries
      <4>6. QED
        BY <4>1, <4>3, <4>5 DEF OneBoard
    <3>8. ASSUME NEW n \in 0 .. N PROVE OneBoard(n)'
      <4>1. PICK b \in Content : Genuine(b) /\ WebCarries(n, b) /\ PusherCarries(n, b)
        BY <2>13 DEF Numbered, OneBoard
      <4>2. Genuine(b)' /\ WebCarries(n, b)'
        BY <1>8, <3>5, <4>1
      <4>3. \A r \in late' : PushCarries(r.m, n, b)'
        BY <3>6, <4>1 DEF PusherCarries
      <4>4. st'.seq # n
        BY <3>1
      <4>5. ASSUME ~full, st'.seq - 1 = n
            PROVE  Header(b) = Header(c) /\ Turns(b.rows, d.changed, c.rows, d.removed)
        <5>1. st.seq = n
          BY <1>4, <2>2, <4>5
        <5>2. st.board # None
          BY <2>6, <4>5, Apart
        <5>3. st.board = b
          BY <1>2, <1>4, <1>10, <4>1, <5>1, <5>2 DEF PusherCarries
        <5>4. QED
          BY <2>6, <2>11, <4>5, <5>3
      <4>6. ASSUME ~job'.full, st'.seq - 1 = n
            PROVE  Header(b) = Header(job'.next) /\ Turns(b.rows, job'.d.changed, job'.next.rows, job'.d.removed)
        BY <2>12, <4>5, <4>6
      <4>7. PusherCarries(n, b)'
        BY <2>10, <4>3, <4>4, <4>6 DEF PusherCarries, Header, Turns, Merged
      <4>8. QED
        BY <4>2, <4>7 DEF OneBoard
    <3>9. \A n \in 0 .. M : n = M \/ n \in 0 .. N
      OBVIOUS
    <3>10. QED
      BY <3>3, <3>4, <3>7, <3>8, <3>9 DEF Numbered
  <2>14. QED
    BY <1>2, <1>9, <2>9, <2>13 DEF Keeps, RankingShape, WebKept
<1>13. QED
  BY <1>11, <1>12

-----------------------------------------------------------------------------
\* What the pusher sends is the board of its number, or what leads to it.
LEMMA MessageNumbers ==
    ASSUME PushShape, job.phase \in {"send", "delete"}, NEW s \in RankingServers
    PROVE  /\ \A N \in Nat : PusherBounded(N) => PushBounded(Message(s), N)
           /\ \A n, b : PusherCarries(n, b) => PushCarries(Message(s), n, b)
<1>1. CASE job.phase = "delete"
  <2>1. Message(s).kind = "delete"
    BY <1>1 DEF Message
  <2>2. QED
    BY <2>1 DEF PushBounded, PushCarries
<1>2. CASE job.phase = "send"
  <2>1. st \in PusherState /\ st # None /\ st.seq \in Nat
    BY <1>2 DEF PushShape, PusherState
  <2>2. Live /\ state = st
    BY <1>2, <2>1 DEF Live, state
  <2>3. CASE job.full \/ acked[s][job.name] # st.seq - 1
    <3>1. Message(s).kind = "full" /\ Message(s).seq = st.seq /\ Message(s).board = job.next
      BY <1>2, <2>3 DEF Message
    <3>2. QED
      BY <1>2, <2>1, <2>2, <3>1 DEF PusherBounded, PushBounded, PusherCarries, PushCarries
  <2>4. CASE ~(job.full \/ acked[s][job.name] # st.seq - 1)
    <3>1. /\ Message(s).kind = "delta" /\ Message(s).seq = st.seq /\ Message(s).base = st.seq - 1
          /\ Message(s).board = job.next /\ Message(s).changed = job.d.changed /\ Message(s).removed = job.d.removed
      BY <1>2, <2>4 DEF Message
    <3>2. \A N \in Nat : PusherBounded(N) => PushBounded(Message(s), N)
      BY <2>1, <2>2, <3>1 DEF PusherBounded, PushBounded
    <3>3. \A n, b : PusherCarries(n, b) => PushCarries(Message(s), n, b)
      BY <1>2, <2>4, <3>1 DEF PusherCarries, PushCarries
    <3>4. QED
      BY <3>2, <3>3
  <2>5. QED
    BY <2>3, <2>4
<1>3. QED
  BY <1>1, <1>2

\* A request that reaches a server.
LEMMA HandledSide ==
    ASSUME WebShape, NEW s \in RankingServers, NEW m \in Pushes, handlePush(s, m), NEW N \in Nat, Numbered(N),
           PushBounded(m, N), \A n, b : PusherCarries(n, b) => PushCarries(m, n, b)
    PROVE  WebSide(N)
<1>1. PushNumbered(m, N)
  BY DEF PushNumbered, Numbered, OneBoard
<1>2. WebBounded(N)
  BY DEF Numbered
<1>3. QED
  BY <1>1, <1>2, PushKeeps DEF WebSide

\* The pusher after a server was tried: only the last one ends the push.
LEMMA TriedKeeps ==
    ASSUME PushShape, job.phase \in {"send", "delete"}, NEW s \in RankingServers, NEW ok \in BOOLEAN,
           IF job.phase = "delete" THEN Deleted(s) ELSE Answered(s, ok),
           UNCHANGED dbVars, late' \subseteq [to : RankingServers, m : Pushes],
           count' \in [changes : Nat, faults : Nat, crashes : Nat, restarts : Nat]
    PROVE  /\ PushShape'
           /\ \A N : PusherBounded(N) /\ (\A r \in late' : PushBounded(r.m, N)) => PusherBounded(N)'
           /\ \A n, b : PusherCarries(n, b) /\ (\A r \in late' : PushCarries(r.m, n, b)) => PusherCarries(n, b)'
           /\ \A b : Genuine(b) => Genuine(b)'
<1>1. db' = db /\ contestClock' = contestClock /\ atFreeze' = atFreeze /\ everRows' = everRows
  BY DEF dbVars
<1>2. \A b : Genuine(b) => Genuine(b)'
  BY <1>1 DEF Genuine
<1>3. st # None /\ st \in PusherState /\ st.name \in Names /\ st.seq \in Nat /\ state = st
  BY DEF PushShape, PusherState, state
<1>4. \A N : (\A r \in late' : PushBounded(r.m, N)) => (\A r \in late' : PushBounded(r.m, N)')
  BY DEF PushBounded
<1>5. \A n, b : (\A r \in late' : PushCarries(r.m, n, b)) => (\A r \in late' : PushCarries(r.m, n, b)')
  BY DEF PushCarries, Turns, Merged, Header
<1>6. CASE job.phase = "delete"
  <2>1. job \in DeleteJob(Then) /\ (job.then = None => ~db.exists)
    BY <1>6 DEF PushShape, JobShape
  <2>2. job.name \in Names /\ job.then \in Then /\ job.todo \subseteq RankingServers
    BY <2>1, JobParts
  <2>3. acked' \in [RankingServers -> [Names -> Int]]
    <3>1. acked' = [acked EXCEPT ![s][job.name] = 0]
      BY <1>6 DEF Deleted
    <3>2. acked \in [RankingServers -> [Names -> Int]] /\ 0 \in Int
      BY DEF PushShape
    <3>3. QED
      BY <2>2, <3>1, <3>2, EntrySet
  <2>4. \/ job' = [job EXCEPT !.todo = @ \ {s}] /\ st' = st
        \/ job.then = None /\ job' = NoPush /\ st' = None
        \/ job.then # None /\ job' = job.then /\ st' = st
    BY <1>6 DEF Deleted
  <2>5. CASE job' = [job EXCEPT !.todo = @ \ {s}] /\ st' = st
    <3>1. /\ job' \in DeleteJob(Then) /\ job'.phase = "delete" /\ job'.then = job.then
      BY <1>6, <2>1, <2>5 DEF DeleteJob
    <3>2. JobShape' /\ NotYetFrozen'
      BY <1>1, <1>6, <2>1, <3>1 DEF JobShape, NotYetFrozen, PushShape
    <3>3. PushShape'
      BY <1>1, <1>3, <2>3, <2>5, <3>1, <3>2 DEF PushShape
    <3>4. Live' => Live
      BY <1>1, <1>6, <3>1 DEF Live, Computing
    <3>5. \A N : PusherBounded(N) /\ (\A r \in late' : PushBounded(r.m, N)) => PusherBounded(N)'
      BY <1>4, <2>5, <3>4 DEF PusherBounded, state
    <3>6. \A n, b : PusherCarries(n, b) /\ (\A r \in late' : PushCarries(r.m, n, b)) => PusherCarries(n, b)'
      BY <1>5, <1>6, <2>5, <3>1, <3>4 DEF PusherCarries
    <3>7. QED
      BY <1>2, <3>3, <3>5, <3>6
  <2>6. CASE job.then = None /\ job' = NoPush /\ st' = None
    <3>1. job'.phase = "idle"
      BY <2>6, JobParts
    <3>2. JobShape' /\ NotYetFrozen'
      BY <2>6, <3>1 DEF JobShape, NotYetFrozen
    <3>3. PushShape'
      BY <1>1, <2>3, <2>6, <3>1, <3>2 DEF PushShape
    <3>4. ~Live'
      BY <1>1, <2>1, <2>6, <3>1 DEF Live, Computing
    <3>5. \A N : PusherBounded(N) /\ (\A r \in late' : PushBounded(r.m, N)) => PusherBounded(N)'
      BY <1>4, <3>4 DEF PusherBounded
    <3>6. \A n, b : PusherCarries(n, b) /\ (\A r \in late' : PushCarries(r.m, n, b)) => PusherCarries(n, b)'
      BY <1>5, <3>1, <3>4 DEF PusherCarries
    <3>7. QED
      BY <1>2, <3>3, <3>5, <3>6
  <2>7. CASE job.then # None /\ job' = job.then /\ st' = st
    <3>1. /\ job'.phase \in {"idle", "compute", "delete"} /\ JobShape' /\ NotYetFrozen'
          /\ Computing' => Computing
      <4>1. CASE job.then = NoPush
        <5>1. job' = NoPush /\ job'.phase = "idle"
          BY <2>7, <4>1, JobParts
        <5>2. QED
          BY <5>1 DEF JobShape, NotYetFrozen, Computing
      <4>2. CASE job.then \in ComputeJob
        <5>1. job' \in ComputeJob /\ job'.phase = "compute"
          BY <2>7, <4>2, JobParts
        <5>2. JobShape'
          BY <5>1 DEF JobShape
        <5>3. NotYetFrozen'
          BY <1>1, <1>6, <2>7, <4>2, <5>1 DEF NotYetFrozen, PushShape
        <5>4. Computing
          BY <1>6, <4>2 DEF Computing
        <5>5. QED
          BY <5>1, <5>2, <5>3, <5>4
      <4>3. CASE job.then \in DeleteJob({NoPush})
        <5>1. /\ job' \in DeleteJob({NoPush}) /\ job'.phase = "delete" /\ job'.then = NoPush
              /\ NoPush # None /\ NoPush \notin ComputeJob
          BY <2>7, <4>3, JobParts, Apart
        <5>2. job' \in DeleteJob(Then)
          BY <5>1, JobParts DEF DeleteJob
        <5>3. QED
          BY <5>1, <5>2 DEF JobShape, NotYetFrozen, Computing
      <4>4. QED
        BY <2>2, <2>7, <4>1, <4>2, <4>3 DEF Then
    <3>2. PushShape'
      BY <1>1, <1>3, <2>3, <2>7, <3>1 DEF PushShape
    <3>3. Live' => Live
      BY <1>1, <3>1 DEF Live
    <3>4. \A N : PusherBounded(N) /\ (\A r \in late' : PushBounded(r.m, N)) => PusherBounded(N)'
      BY <1>4, <2>7, <3>3 DEF PusherBounded, state
    <3>5. \A n, b : PusherCarries(n, b) /\ (\A r \in late' : PushCarries(r.m, n, b)) => PusherCarries(n, b)'
      BY <1>5, <1>6, <2>7, <3>1, <3>3 DEF PusherCarries
    <3>6. QED
      BY <1>2, <3>2, <3>4, <3>5
  <2>8. QED
    BY <2>4, <2>5, <2>6, <2>7
<1>7. CASE job.phase = "send"
  <2>1. job \in SendJob /\ st.seq > 0 /\ job.next \in Content /\ job.name \in Names
    BY <1>7 DEF PushShape, JobShape, SendJob
  <2>2. acked' \in [RankingServers -> [Names -> Int]]
    <3>1. acked' = [acked EXCEPT ![s][job.name] = IF ok THEN st.seq ELSE -1]
      BY <1>7 DEF Answered
    <3>2. acked \in [RankingServers -> [Names -> Int]] /\ (IF ok THEN st.seq ELSE -1) \in Int
      BY <1>3 DEF PushShape
    <3>3. QED
      BY <2>1, <3>1, <3>2, EntrySet
  <2>3. CASE job.todo = {s}
    <3> DEFINE e == [st EXCEPT !.board = job.next, !.listed = TRUE]
    <3>1. job' = NoPush /\ (st' = e \/ st' = requeued(e))
      BY <1>7, <2>3 DEF Answered, pushEnd
    <3>2. e \in PusherState /\ e.board = job.next /\ e.seq = st.seq /\ e.name = st.name
      BY <1>3, <2>1 DEF PusherState
    <3> HIDE DEF e
    <3>3. st' \in PusherState /\ st'.board = job.next /\ st'.seq = st.seq /\ st'.name = st.name
      BY <3>1, <3>2, RequeuedShape
    <3>4. /\ PushShape' /\ (Live' => db.exists) /\ st' # None /\ state' = st'
      BY <1>3, <2>2, <3>1, <3>3, EndKeeps
    <3>5. job'.phase = "idle" /\ Live
      BY <1>7, <3>1, JobParts DEF Live
    <3>6. \A N : PusherBounded(N) /\ (\A r \in late' : PushBounded(r.m, N)) => PusherBounded(N)'
      BY <1>3, <1>4, <3>3, <3>4, <3>5 DEF PusherBounded
    <3>7. \A n, b : PusherCarries(n, b) /\ (\A r \in late' : PushCarries(r.m, n, b)) => PusherCarries(n, b)'
      BY <1>5, <1>7, <3>3, <3>5 DEF PusherCarries
    <3>8. QED
      BY <1>2, <3>4, <3>6, <3>7
  <2>4. CASE job.todo # {s}
    <3> DEFINE f == job.failed \/ ~ok
    <3>1. job' = [job EXCEPT !.todo = @ \ {s}, !.failed = f] /\ st' = st
      BY <1>7, <2>4 DEF Answered
    <3>2. f \in BOOLEAN
      OBVIOUS
    <3> HIDE DEF f
    <3>3. /\ job' \in SendJob /\ job'.phase = "send" /\ job'.next = job.next /\ job'.full = job.full /\ job'.d = job.d
      BY <1>7, <2>1, <3>1, <3>2 DEF SendJob
    <3>4. JobShape' /\ NotYetFrozen'
      BY <2>1, <3>1, <3>3 DEF JobShape, NotYetFrozen
    <3>5. PushShape'
      BY <1>1, <1>3, <2>2, <3>1, <3>3, <3>4 DEF PushShape
    <3>6. Live
      BY <1>7 DEF Live
    <3>7. \A N : PusherBounded(N) /\ (\A r \in late' : PushBounded(r.m, N)) => PusherBounded(N)'
      BY <1>4, <3>1, <3>6 DEF PusherBounded, state
    <3>8. \A n, b : PusherCarries(n, b) /\ (\A r \in late' : PushCarries(r.m, n, b)) => PusherCarries(n, b)'
      BY <1>5, <1>7, <3>1, <3>3, <3>6 DEF PusherCarries, Turns, Merged, Header
    <3>9. QED
      BY <1>2, <3>5, <3>7, <3>8
  <2>5. QED
    BY <2>3, <2>4
<1>8. QED
  BY <1>6, <1>7

\* What both sides keep, a step keeps.
LEMMA SidesKeep ==
    ASSUME WebShape', PushShape', count'.restarts = count.restarts,
           \A N \in Nat : Numbered(N) => PusherKept(N) /\ WebSide(N)
    PROVE  Keeps
<1>1. \A N \in Nat : Numbered(N) => Numbered(N)'
  BY BothSides
<1>2. QED
  BY <1>1 DEF Keeps, RankingShape

\* The request reaches its server and the answer the pusher.
LEMMA SendKeeps ==
    ASSUME RankingShape, NEW s \in RankingServers, send(s)
    PROVE  Keeps
<1>1. WebShape /\ PushShape
  BY DEF RankingShape
<1>2. /\ job.phase \in {"send", "delete"} /\ handlePush(s, Message(s)) /\ UNCHANGED dbVars
      /\ late' = late /\ count' = count
      /\ IF job.phase = "delete" THEN Deleted(s) ELSE Answered(s, ~Conflict(s, Message(s)))
  BY DEF send
<1>3. PICK m \in Pushes : m = Message(s)
  BY <1>1, <1>2, MessageShape
<1>4. /\ \A N \in Nat : PusherBounded(N) => PushBounded(m, N)
      /\ \A n, b : PusherCarries(n, b) => PushCarries(m, n, b)
  BY <1>1, <1>2, <1>3, MessageNumbers
<1>5. handlePush(s, m)
  BY <1>2, <1>3
<1>6. WebShape'
  BY <1>1, <1>5, PushKeeps
<1>7. PICK ok \in BOOLEAN : IF job.phase = "delete" THEN Deleted(s) ELSE Answered(s, ok)
  <2>1. PICK ok \in BOOLEAN : ok = ~Conflict(s, Message(s))
    OBVIOUS
  <2>2. CASE job.phase = "delete"
    BY <1>2, <2>2
  <2>3. CASE job.phase # "delete"
    <3>1. Answered(s, ok)
      BY <1>2, <2>1, <2>3
    <3>2. QED
      BY <2>3, <3>1
  <2>4. QED
    BY <2>2, <2>3
<1>8. /\ late' \subseteq [to : RankingServers, m : Pushes]
      /\ count' \in [changes : Nat, faults : Nat, crashes : Nat, restarts : Nat]
      /\ count'.restarts = count.restarts
  BY <1>1, <1>2 DEF PushShape
<1>9. /\ PushShape'
      /\ \A N : PusherBounded(N) /\ (\A r \in late' : PushBounded(r.m, N)) => PusherBounded(N)'
      /\ \A n, b : PusherCarries(n, b) /\ (\A r \in late' : PushCarries(r.m, n, b)) => PusherCarries(n, b)'
      /\ \A b : Genuine(b) => Genuine(b)'
  BY <1>1, <1>2, <1>7, <1>8, TriedKeeps
<1>10. ASSUME NEW N \in Nat, Numbered(N) PROVE PusherKept(N) /\ WebSide(N)
  <2>1. PusherBounded(N)'
    BY <1>2, <1>9, <1>10 DEF Numbered, PusherBounded
  <2>2. \A n, b : PusherCarries(n, b) => PusherCarries(n, b)'
    BY <1>2, <1>9 DEF PusherCarries
  <2>3. PusherKept(N)
    BY <1>9, <2>1, <2>2 DEF PusherKept
  <2>4. PushBounded(m, N)
    BY <1>4, <1>10 DEF Numbered
  <2>5. WebSide(N)
    BY <1>1, <1>4, <1>5, <1>10, <2>4, HandledSide
  <2>6. QED
    BY <2>3, <2>5
<1>11. QED
  BY <1>6, <1>8, <1>9, <1>10, SidesKeep

\* The request or its answer is lost, or the request arrives later.
LEMMA SendFailsKeeps ==
    ASSUME RankingShape, NEW s \in RankingServers, sendFails(s)
    PROVE  Keeps
<1>1. WebShape /\ PushShape
  BY DEF RankingShape
<1>2. /\ job.phase \in {"send", "delete"} /\ Fault /\ UNCHANGED dbVars
      /\ IF job.phase = "delete" THEN Deleted(s) ELSE Answered(s, FALSE)
      /\ \/ UNCHANGED webVars /\ late' = late
         \/ handlePush(s, Message(s)) /\ late' = late
         \/ late' = late \cup {[to |-> s, m |-> Message(s)]} /\ UNCHANGED webVars
  BY DEF sendFails
<1>3. PICK m \in Pushes : m = Message(s)
  BY <1>1, <1>2, MessageShape
<1>4. /\ \A N \in Nat : PusherBounded(N) => PushBounded(m, N)
      /\ \A n, b : PusherCarries(n, b) => PushCarries(m, n, b)
  BY <1>1, <1>2, <1>3, MessageNumbers
<1>5. \/ UNCHANGED webVars
      \/ handlePush(s, m)
  BY <1>2, <1>3
<1>6. late' = late \/ late' = late \cup {[to |-> s, m |-> m]}
  BY <1>2, <1>3
<1>7. WebShape'
  BY <1>1, <1>5, PushKeeps, WebSame DEF WebKept
<1>8. /\ late' \subseteq [to : RankingServers, m : Pushes]
      /\ count' \in [changes : Nat, faults : Nat, crashes : Nat, restarts : Nat]
      /\ count'.restarts = count.restarts
  <2>1. late \subseteq [to : RankingServers, m : Pushes]
    BY <1>1 DEF PushShape
  <2>2. [to |-> s, m |-> m] \in [to : RankingServers, m : Pushes]
    OBVIOUS
  <2>3. QED
    BY <1>1, <1>2, <1>6, <2>1, <2>2, FaultCounts
<1>9. \A r \in late' : r \in late \/ r.m = m
  BY <1>6
<1>10. /\ PushShape'
       /\ \A N : PusherBounded(N) /\ (\A r \in late' : PushBounded(r.m, N)) => PusherBounded(N)'
       /\ \A n, b : PusherCarries(n, b) /\ (\A r \in late' : PushCarries(r.m, n, b)) => PusherCarries(n, b)'
       /\ \A b : Genuine(b) => Genuine(b)'
  <2>1. FALSE \in BOOLEAN
    OBVIOUS
  <2>2. QED
    BY <1>1, <1>2, <1>8, <2>1, TriedKeeps
<1>11. ASSUME NEW N \in Nat, Numbered(N) PROVE PusherKept(N) /\ WebSide(N)
  <2>1. PushBounded(m, N) /\ PusherBounded(N)
    BY <1>4, <1>11 DEF Numbered
  <2>2. \A r \in late' : PushBounded(r.m, N)
    BY <1>9, <2>1 DEF PusherBounded
  <2>3. \A n, b : PusherCarries(n, b) => \A r \in late' : PushCarries(r.m, n, b)
    <3>1. SUFFICES ASSUME NEW n, NEW b, PusherCarries(n, b), NEW r \in late'
                   PROVE  PushCarries(r.m, n, b)
      OBVIOUS
    <3>2. CASE r \in late
      BY <3>1, <3>2 DEF PusherCarries
    <3>3. CASE r.m = m
      BY <1>4, <3>1, <3>3
    <3>4. QED
      BY <1>9, <3>2, <3>3
  <2>4. PusherKept(N)
    BY <1>10, <2>1, <2>2, <2>3 DEF PusherKept
  <2>5. WebSide(N)
    <3>1. CASE UNCHANGED webVars
      BY <1>1, <1>11, <3>1, WebSame, WebKeptSide
    <3>2. CASE handlePush(s, m)
      BY <1>1, <1>4, <1>11, <2>1, <3>2, HandledSide
    <3>3. QED
      BY <1>5, <3>1, <3>2
  <2>6. QED
    BY <2>4, <2>5
<1>12. QED
  BY <1>7, <1>8, <1>10, <1>11, SidesKeep

\* A request given up arrives: it is of its number all the same.
LEMMA LateKeeps ==
    ASSUME RankingShape, lateArrives
    PROVE  Keeps
<1>1. WebShape /\ PushShape
  BY DEF RankingShape
<1>2. PICK r \in late : late' = late \ {r} /\ handlePush(r.to, r.m)
  BY DEF lateArrives
<1>3. UNCHANGED dbVars /\ UNCHANGED pushVars /\ count' = count
  BY DEF lateArrives
<1>4. r.to \in RankingServers /\ r.m \in Pushes
  BY <1>1 DEF PushShape
<1>5. WebShape'
  BY <1>1, <1>2, <1>4, PushKeeps
<1>6. PushShape' /\ \A N \in Nat : Numbered(N) => PusherKept(N)
  <2>1. late' \subseteq late /\ count' \in [changes : Nat, faults : Nat, crashes : Nat, restarts : Nat]
    BY <1>1, <1>2, <1>3 DEF PushShape
  <2>2. QED
    BY <1>1, <1>3, <2>1, PusherSame
<1>7. ASSUME NEW N \in Nat, Numbered(N) PROVE WebSide(N)
  <2>1. PushBounded(r.m, N)
    BY <1>7 DEF Numbered, PusherBounded
  <2>2. \A n, b : PusherCarries(n, b) => PushCarries(r.m, n, b)
    BY DEF PusherCarries
  <2>3. QED
    BY <1>1, <1>2, <1>4, <1>7, <2>1, <2>2, HandledSide
<1>8. QED
  BY <1>3, <1>5, <1>6, <1>7, SidesKeep

-----------------------------------------------------------------------------
\* Nothing is there at first but the contest: the number 0 is of a board
\* nobody has.
LEMMA RankingStart == RankingInit => RankingInv
<1> SUFFICES ASSUME RankingInit PROVE RankingInv
  OBVIOUS
<1>1. /\ WebInit /\ contestClock \in {"running", "frozen"} /\ atFreeze = NoRows
      /\ st = None /\ acked = [s \in RankingServers |-> [n \in Names |-> 0]] /\ job = NoPush
      /\ late = {} /\ everRows = {db.rows}
      /\ count = [changes |-> 0, faults |-> 0, crashes |-> 0, restarts |-> 0]
  BY DEF RankingInit
<1>2. /\ db.rows = NoRows
      /\ db \in [exists : BOOLEAN, name : Names, vis : {"public", "admins", "hidden"}, after : BOOLEAN,
                 unfrozen : BOOLEAN, hdr : Hdrs, rows : Rows]
  <2>1. NoRows \in Rows /\ FirstName \in Names
    BY RankingPushAssumption DEF NoRows, Rows, FirstName
  <2>2. db \in [exists : {TRUE}, name : {FirstName}, vis : Visibilities \ {"hidden"}, after : BOOLEAN,
                unfrozen : {FALSE}, hdr : Hdrs, rows : {NoRows}]
    BY DEF RankingInit
  <2>3. QED
    BY <2>1, <2>2, RankingPushAssumption
<1>3. WebShape
  <2>1. <<>> \in Seq({Reload} \cup RowsFrame)
    BY NoFrames
  <2>2. NoRows \in Rows
    BY DEF NoRows, Rows
  <2>3. \A g \in Pages : pages[g] \in Page
    BY <1>1, <2>1, <2>2 DEF WebInit, Page
  <2>4. pages \in [Pages -> Page]
    BY <1>1, <2>3 DEF WebInit
  <2>5. \A g \in Pages : pages[g].state # "open" /\ pages[g].sub = "off"
    BY <1>1 DEF WebInit
  <2>6. QED
    BY <1>1, <2>4, <2>5 DEF WebInit, WebShape
<1>4. job.phase = "idle"
  BY <1>1, JobParts
<1>5. PushShape
  <2>1. JobShape /\ NotYetFrozen
    BY <1>1, <1>4 DEF JobShape, NotYetFrozen
  <2>2. NoRows \in Rows /\ acked \in [RankingServers -> [Names -> Int]]
    BY <1>1 DEF NoRows, Rows
  <2>3. count \in [changes : Nat, faults : Nat, crashes : Nat, restarts : Nat]
    BY <1>1
  <2>4. QED
    BY <1>1, <1>2, <1>4, <2>1, <2>2, <2>3 DEF PushShape
<1>6. Numbered(0)
  <2> DEFINE first == [name |-> db.name, hdr |-> db.hdr, frozen |-> FALSE, rows |-> NoRows]
  <2>1. PICK b \in Content : b = first
    <3>1. NoRows \in Rows /\ FALSE \in BOOLEAN /\ db.name \in Names /\ db.hdr \in Hdrs
      BY <1>2 DEF NoRows, Rows
    <3>2. QED
      BY <3>1 DEF Content
  <2>2. b.rows = NoRows /\ b.frozen = FALSE
    BY <2>1
  <2>3. Genuine(b)
    BY <1>1, <1>2, <2>2 DEF Genuine
  <2>4. /\ \A s \in RankingServers, m \in Names : boards[s][m] = None /\ disk[s][m] = None
        /\ \A s \in RankingServers : saving[s] = None
        /\ \A g \in Pages : pages[g].frames = <<>> /\ pages[g].state # "open"
    BY <1>1 DEF WebInit
  <2>5. DOMAIN <<>> = {}
    BY NoFrames
  <2>6. WebBounded(0) /\ WebCarries(0, b)
    BY <2>4, <2>5 DEF WebBounded, WebCarries, BoardsCarry, FilesCarry, PageBounded, PageCarries
  <2>7. state.seq = 0
    BY <1>1 DEF state, NewState
  <2>8. PusherBounded(0) /\ PusherCarries(0, b)
    BY <1>1, <1>4, <2>7 DEF PusherBounded, PusherCarries
  <2>9. \A n \in 0 .. 0 : n = 0
    OBVIOUS
  <2>10. QED
    BY <2>3, <2>6, <2>8, <2>9 DEF Numbered, OneBoard
<1>7. QED
  BY <1>3, <1>5, <1>6 DEF RankingInv, RankingShape

\* Every step keeps the numbers.
LEMMA RankingStep == RankingInv /\ [RankingNext]_rankingVars => RankingInv'
<1> SUFFICES ASSUME RankingInv, [RankingNext]_rankingVars PROVE RankingInv'
  OBVIOUS
<1>1. RankingShape
  BY DEF RankingInv
<1>2. Keeps
  <2>1. CASE ScoreChanges \/ ContestChanges \/ ClockTick
    BY <1>1, <2>1, ContestKeeps
  <2>2. CASE Watch \/ discover
    BY <1>1, <2>2, MarkKeeps
  <2>3. CASE readContest
    BY <1>1, <2>3, ReadKeeps
  <2>4. CASE readFails \/ computeFails
    BY <1>1, <2>4, FailKeeps
  <2>5. CASE compute
    BY <1>1, <2>5, ComputeKeeps
  <2>6. CASE \E s \in RankingServers : send(s)
    BY <1>1, <2>6, SendKeeps
  <2>7. CASE \E s \in RankingServers : sendFails(s)
    BY <1>1, <2>7, SendFailsKeeps
  <2>8. CASE (\E s \in RankingServers : ServerFault(s) \/ Saves(s)) \/ Browser
    BY <1>1, <2>8, ServerKeeps
  <2>9. CASE lateArrives
    BY <1>1, <2>9, LateKeeps
  <2>10. CASE PusherRestart
    BY <1>1, <2>10, PusherRestartKeeps
  <2>11. CASE UNCHANGED rankingVars
    <3>1. UNCHANGED webVars /\ UNCHANGED dbVars /\ UNCHANGED pushVars /\ late' = late /\ count' = count
      BY <2>11 DEF rankingVars
    <3>2. WebShape /\ PushShape
      BY <1>1 DEF RankingShape
    <3>3. WebKept
      BY <3>1, <3>2, WebSame
    <3>4. late' \subseteq late /\ count' \in [changes : Nat, faults : Nat, crashes : Nat, restarts : Nat]
          /\ count'.restarts = count.restarts
      BY <3>1, <3>2 DEF PushShape
    <3>5. PushShape' /\ \A N \in Nat : Numbered(N) => PusherKept(N)
      BY <3>1, <3>2, <3>4, PusherSame
    <3>6. \A N \in Nat : Numbered(N) => WebSide(N)
      BY <3>3, WebKeptSide
    <3>7. WebShape'
      BY <3>3 DEF WebKept
    <3>8. QED
      BY <3>4, <3>5, <3>6, <3>7, SidesKeep
  <2>12. QED
    BY <2>1, <2>2, <2>3, <2>4, <2>5, <2>6, <2>7, <2>8, <2>9, <2>10, <2>11 DEF RankingNext
<1>3. QED
  BY <1>2 DEF Keeps, RankingInv

\* A board shown is the board of its number, and a page that has reached
\* the number of its board has the rows of it.
LEMMA RankingFaithful == RankingInv => PagesFaithful
<1> SUFFICES ASSUME RankingInv, count.restarts = 0 PROVE PagesFaithful
  BY DEF PagesFaithful, RowsGenuine, PagesFollow
<1>1. WebShape
  BY DEF RankingInv, RankingShape
<1>2. PICK N \in Nat : Numbered(N)
  BY DEF RankingInv
<1>3. ASSUME NEW s \in RankingServers, NEW n \in Names, boards[s][n] # None
      PROVE  /\ boards[s][n] \in Board /\ boards[s][n].seq \in 0 .. N /\ boards[s][n].shown \in 0 .. N
  <2>1. boards[s][n] \in Board
    BY <1>1, <1>3 DEF WebShape
  <2>2. boards[s][n].seq \in Nat /\ boards[s][n].shown \in Nat
    BY <2>1 DEF Board
  <2>3. boards[s][n].seq <= N /\ boards[s][n].shown <= N
    BY <1>2, <1>3 DEF Numbered, WebBounded
  <2>4. QED
    BY <2>1, <2>2, <2>3
<1>4. ASSUME NEW s \in RankingServers, NEW n \in Names, boards[s][n] # None
      PROVE  Genuine(boards[s][n].b)
  <2>1. PICK b \in Content : Genuine(b) /\ WebCarries(boards[s][n].seq, b)
    BY <1>2, <1>3, <1>4 DEF Numbered, OneBoard
  <2>2. boards[s][n].b = b
    BY <1>4, <2>1 DEF WebCarries, BoardsCarry
  <2>3. QED
    BY <2>1, <2>2
<1>5. ASSUME NEW g \in Pages, ~pages[g].overtaken PROVE Agrees(g)
  <2> DEFINE p == pages[g]
             bd == boards[p.at][p.name]
  <2> SUFFICES ASSUME p.state = "open", p.sub = "on", p.reveal = {}, p.seq = bd.shown
               PROVE  p.rows = bd.b.rows
    BY DEF Agrees
  <2>1. p.at \in RankingServers /\ p.name \in Names /\ bd # None /\ p.rows \in Rows
    BY <1>1 DEF WebShape, Page
  <2>2. bd \in Board /\ bd.shown \in 0 .. N
    BY <1>3, <2>1
  <2>3. PICK b \in Content : WebCarries(bd.shown, b)
    BY <1>2, <2>2 DEF Numbered, OneBoard
  <2>4. bd.b.rows = b.rows
    BY <2>1, <2>3 DEF WebCarries, BoardsCarry
  <2>5. Whole(p, b.rows)
    BY <1>5, <2>3 DEF WebCarries, PageCarries
  <2>6. \A k \in Keys : p.rows[k] = b.rows[k]
    BY <2>5 DEF Whole
  <2>7. b.rows \in Rows
    BY DEF Content
  <2>8. p.rows = b.rows
    <3>1. \A x, y \in Rows : (\A k \in Keys : x[k] = y[k]) => x = y
      BY DEF Rows
    <3>2. QED
      BY <2>1, <2>6, <2>7, <3>1
  <2>9. QED
    BY <2>4, <2>8
<1>6. QED
  BY <1>4, <1>5 DEF PagesFaithful, RowsGenuine, PagesFollow, Genuine

\* While the pusher has not restarted, no server shows and no page applies
\* rows that were never computed together, whatever requests, answers,
\* frames and files are lost, late or old.
THEOREM RankingKept == RankingSpec => []PagesFaithful
<1>1. RankingInit => RankingInv
  BY RankingStart
<1>2. RankingInv /\ [RankingNext]_rankingVars => RankingInv'
  BY RankingStep
<1>3. RankingInv => PagesFaithful
  BY RankingFaithful
<1>4. QED
  BY <1>1, <1>2, <1>3, PTL DEF RankingSpec
=============================================================================
