----------------------------- MODULE RankingWeb -----------------------------
(***************************************************************************)
(* The ranking web servers (internal/rankingweb) and the pages that watch  *)
(* them (web/static/rws.js).                                               *)
(*                                                                         *)
(* A server keeps one board per contest name in memory, replaces it by a   *)
(* full push and merges a delta into it when the delta starts from the     *)
(* sequence number the board has.  It writes changed boards to disk every  *)
(* few seconds and reads them back when it starts.  An open page holds the *)
(* rows it was rendered with and the sequence number they belong to, and   *)
(* applies the frames the server broadcasts; it reloads itself when a      *)
(* frame starts from another number.                                       *)
(*                                                                         *)
(* A row is the value a key shows: content, rank and medal at once.  The   *)
(* score history, the images and the rendering are left out.               *)
(***************************************************************************)
EXTENDS Integers, Sequences, FiniteSets

CONSTANTS
    RankingServers,
    Names,     \* contest names
    Keys,      \* rows of a board
    Vals,      \* what a row can show
    Hdrs,      \* titles, tasks and settings of a board
    None,
    Pages,     \* open browsers, without the key of a private board
    Buffer     \* frames a slow client may be behind

VARIABLES
    boards,    \* for each server and name, the board in memory or None
    disk,      \* for each server and name, the saved board or None
    saving,    \* for each server, the board being written to disk or None
    pages      \* the open pages

webVars == <<boards, disk, saving, pages>>

Rows == [Keys -> Vals \cup {None}]
Content == [name : Names, hdr : Hdrs, frozen : BOOLEAN, rows : Rows]

\* A board in memory, and one on disk.
Board == [b : Content, seq : Nat, shown : Nat, key : BOOLEAN, dirty : BOOLEAN]
Saved == [b : Content, seq : Nat, key : BOOLEAN]

ASSUME RankingWebAssumption ==
    /\ Buffer \in Nat \ {0}
    /\ None \notin Vals \cup Content \cup Board \cup Saved

Header(b) == <<b.name, b.hdr, b.frozen>>

\* Rows of next that are new or changed, and the keys that are gone.
Diff(prev, next) ==
    [changed |-> {k \in Keys : next.rows[k] # None
                                /\ (prev = None \/ prev.rows[k] # next.rows[k])},
     removed |-> {k \in Keys : prev # None /\ prev.rows[k] # None /\ next.rows[k] = None}]

\* The rows after a delta; removed keys go last.
Merged(rows, changed, new, removed) ==
    [k \in Keys |-> IF k \in removed THEN None
                    ELSE IF k \in changed THEN new[k] ELSE rows[k]]

(***************************************************************************)
(* Telling the spectators.                                                 *)
(***************************************************************************)
Subscribed(s, n) ==
    {g \in Pages : pages[g].sub = "on" /\ pages[g].at = s /\ pages[g].name = n}

\* A frame is dropped for a page whose channel is full.
Offered(page, frame) ==
    IF Len(page.frames) < Buffer THEN [page EXCEPT !.frames = Append(@, frame)] ELSE page

broadcast(s, n, frame) ==
    pages' = [g \in Pages |-> IF g \in Subscribed(s, n) THEN Offered(pages[g], frame)
                              ELSE pages[g]]

Reload == [kind |-> "reload"]

\* What the board shows after announcing the change from old to new, and the
\* frame the spectators get (None: nothing).
Announcement(s, n, old, new, seq, shown) ==
    LET unfrozen == old # None /\ old.frozen /\ ~new.frozen /\ old.hdr = new.hdr /\ old.name = new.name
        d == Diff(old, new)
    IN  IF Subscribed(s, n) = {} THEN [shown |-> seq, frame |-> None]
        ELSE IF ~unfrozen /\ (old = None \/ Header(old) # Header(new))
             THEN [shown |-> seq, frame |-> Reload]
        ELSE IF d.changed = {} /\ d.removed = {} /\ ~unfrozen
             THEN [shown |-> shown, frame |-> None]
        ELSE [shown |-> seq,
              frame |-> [kind |-> "rows", base |-> shown, seq |-> seq, changed |-> d.changed,
                         rows |-> new.rows, removed |-> d.removed, unfrozen |-> unfrozen]]

\* The board in memory becomes new, with the caches rebuilt and the
\* spectators told.
Rebuild(s, n, new, seq, key) ==
    LET bd == boards[s][n]
        a == Announcement(s, n, IF bd = None THEN None ELSE bd.b, new, seq,
                          IF bd = None THEN 0 ELSE bd.shown)
    IN  /\ boards' = [boards EXCEPT ![s][n] = [b |-> new, seq |-> seq, shown |-> a.shown,
                                               key |-> key, dirty |-> TRUE]]
        /\ IF a.frame = None THEN UNCHANGED pages ELSE broadcast(s, n, a.frame)
        /\ UNCHANGED <<disk, saving>>

(***************************************************************************)
(* POST /push.                                                             *)
(***************************************************************************)
\* The board, its file and the subscriptions of its pages are gone; the
\* pages are told to reload.
PushDelete(s, n) ==
    /\ boards' = [boards EXCEPT ![s][n] = None]
    /\ disk' = [disk EXCEPT ![s][n] = None]
    /\ pages' = [g \in Pages |-> IF g \in Subscribed(s, n)
                                 THEN [Offered(pages[g], Reload) EXCEPT !.sub = "orphan"]
                                 ELSE pages[g]]
    /\ UNCHANGED saving

\* A full board replaces whatever the server has, later or not.
PushFull(s, m) == Rebuild(s, m.name, m.board, m.seq, m.key)

\* Mutant: a delta is merged into whatever board there is.
ConflictNever(s, m) == m.kind = "delta" /\ boards[s][m.name] = None

Conflict(s, m) ==
    /\ m.kind = "delta"
    /\ boards[s][m.name] # None => boards[s][m.name].seq # m.base

\* The delta leaves the header and the key of the board as they are.
PushDelta(s, m) ==
    LET bd == boards[s][m.name]
    IN  Rebuild(s, m.name,
                [bd.b EXCEPT !.rows = Merged(@, m.changed, m.board.rows, m.removed)],
                m.seq, bd.key)

handlePush(s, m) ==
    \/ m.kind = "delete" /\ PushDelete(s, m.name)
    \/ m.kind = "full" /\ PushFull(s, m)
    \/ Conflict(s, m) /\ UNCHANGED webVars
    \/ m.kind = "delta" /\ ~Conflict(s, m) /\ PushDelta(s, m)

(***************************************************************************)
(* Persistence.                                                            *)
(***************************************************************************)
\* saveAll takes a copy of a changed board under its lock ...
SaveBegin(s, n) ==
    /\ saving[s] = None
    /\ boards[s][n] # None /\ boards[s][n].dirty
    /\ saving' = [saving EXCEPT ![s] = [name |-> n, b |-> boards[s][n].b,
                                        seq |-> boards[s][n].seq, key |-> boards[s][n].key]]
    /\ boards' = [boards EXCEPT ![s][n].dirty = FALSE]
    /\ UNCHANGED <<disk, pages>>

\* ... and writes it without: the board may have changed or gone meanwhile.
SaveWrite(s) ==
    /\ saving[s] # None
    /\ disk' = [disk EXCEPT ![s][saving[s].name] =
                  [b |-> saving[s].b, seq |-> saving[s].seq, key |-> saving[s].key]]
    /\ saving' = [saving EXCEPT ![s] = None]
    /\ UNCHANGED <<boards, pages>>

\* Disk full: the error is logged and the board counts as saved.
SaveFails(s) ==
    /\ saving[s] # None
    /\ saving' = [saving EXCEPT ![s] = None]
    /\ UNCHANGED <<boards, disk, pages>>

load(f) == IF f = None THEN None
           ELSE [b |-> f.b, seq |-> f.seq, shown |-> f.seq, key |-> f.key, dirty |-> FALSE]

\* The server dies and starts again from its disk; every stream ends.
ServerRestart(s) ==
    /\ boards' = [boards EXCEPT ![s] = [n \in Names |-> load(disk[s][n])]]
    /\ saving' = [saving EXCEPT ![s] = None]
    /\ pages' = [g \in Pages |-> IF pages[g].at = s
                                 THEN [pages[g] EXCEPT !.sub = "off", !.frames = <<>>]
                                 ELSE pages[g]]
    /\ UNCHANGED disk

(***************************************************************************)
(* Pages.                                                                  *)
(***************************************************************************)
\* withBoard: a visitor without the key sees no private board.
Visible(s, n) == boards[s][n] # None /\ ~boards[s][n].key

\* Opening or reloading the page of a board.
handleBoard(g, s, n) ==
    /\ pages[g].state # "open" /\ Visible(s, n)
    /\ pages' = [pages EXCEPT ![g] = [state |-> "open", at |-> s, name |-> n,
                                      seq |-> boards[s][n].shown, rows |-> boards[s][n].b.rows,
                                      sub |-> "off", frames |-> <<>>,
                                      reveal |-> {}, overtaken |-> FALSE]]
    /\ UNCHANGED <<boards, disk, saving>>

\* The page's EventSource connects, or connects again.
handleEvents(g) ==
    /\ pages[g].state = "open" /\ pages[g].sub = "off"
    /\ Visible(pages[g].at, pages[g].name)
    /\ pages' = [pages EXCEPT ![g].sub = "on", ![g].frames = <<>>]
    /\ UNCHANGED <<boards, disk, saving>>

\* The stream breaks; what it still held is lost.
Disconnect(g) ==
    /\ pages[g].state = "open" /\ pages[g].sub # "off"
    /\ pages' = [pages EXCEPT ![g].sub = "off", ![g].frames = <<>>]
    /\ UNCHANGED <<boards, disk, saving>>

\* location.reload after a while: the stream is closed.
Reloading(page) == [page EXCEPT !.state = "reloading", !.sub = "off", !.frames = <<>>, !.reveal = {}]

\* The table after a frame.  When the freeze is lifted the changed rows are
\* put off, to be revealed one by one.
Updated(page, f) ==
    [page EXCEPT !.seq = f.seq, !.frames = Tail(@),
                 !.overtaken = @ \/ page.reveal # {},
                 !.rows = Merged(@, IF f.unfrozen THEN {} ELSE f.changed, f.rows, f.removed),
                 !.reveal = IF f.unfrozen THEN @ \cup {<<k, f.rows[k]>> : k \in f.changed} ELSE @]

\* Mutant: the page applies whatever arrives.
ReceiveAnything(g) ==
    /\ pages[g].state = "open" /\ pages[g].frames # <<>>
    /\ LET f == Head(pages[g].frames)
       IN  pages' = [pages EXCEPT ![g] = IF f.kind = "reload" THEN Reloading(@) ELSE Updated(@, f)]
    /\ UNCHANGED <<boards, disk, saving>>

\* The handlers of "reload" and "rows" in rws.js.
Receive(g) ==
    /\ pages[g].state = "open" /\ pages[g].frames # <<>>
    /\ LET f == Head(pages[g].frames)
       IN  pages' = [pages EXCEPT ![g] = IF f.kind = "reload" \/ f.base # pages[g].seq
                                        THEN Reloading(@) ELSE Updated(@, f)]
    /\ UNCHANGED <<boards, disk, saving>>

\* The timer of one row of the unfreezing.
RevealRow(g) ==
    /\ pages[g].state = "open"
    /\ \E r \in pages[g].reveal :
         pages' = [pages EXCEPT ![g].rows[r[1]] = r[2], ![g].reveal = @ \ {r}]
    /\ UNCHANGED <<boards, disk, saving>>

NoRows == [k \in Keys |-> None]

WebInit ==
    /\ boards = [s \in RankingServers |-> [n \in Names |-> None]]
    /\ disk = [s \in RankingServers |-> [n \in Names |-> None]]
    /\ saving = [s \in RankingServers |-> None]
    /\ pages = [g \in Pages |-> [state |-> "closed", at |-> None, name |-> None, seq |-> 0,
                                 rows |-> NoRows, sub |-> "off", frames |-> <<>>,
                                 reveal |-> {}, overtaken |-> FALSE]]

WebTypeOK ==
    /\ \A s \in RankingServers :
         /\ \A n \in Names :
              /\ boards[s][n] = None \/
                   boards[s][n] \in Board
              /\ disk[s][n] = None \/ disk[s][n] \in Saved
         /\ saving[s] = None \/ saving[s] \in [name : Names, b : Content, seq : Nat, key : BOOLEAN]
    /\ \A g \in Pages :
         /\ pages[g].state \in {"closed", "open", "reloading"}
         /\ pages[g].rows \in Rows /\ pages[g].seq \in Nat
         /\ pages[g].sub \in {"off", "on", "orphan"}
         /\ Len(pages[g].frames) <= Buffer
         /\ \A i \in 1 .. Len(pages[g].frames) :
              pages[g].frames[i] = Reload \/ pages[g].frames[i].rows \in Rows

\* When the number of a connected page is the one its board shows, and
\* nothing is on its way to its table, its rows are those of the board.
Agrees(g) ==
    LET bd == boards[pages[g].at][pages[g].name]
    IN  pages[g].state = "open" /\ pages[g].sub = "on" /\ pages[g].frames = <<>>
        /\ pages[g].reveal = {} /\ pages[g].seq = bd.shown => pages[g].rows = bd.b.rows

\* A page never applies changes meant for another state: it "reloads, with
\* jitter, instead" when it missed a frame, or after "a restart of either
\* server".
PagesAgree == \A g \in Pages : Agrees(g)
=============================================================================
