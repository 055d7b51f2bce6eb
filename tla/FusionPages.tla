------------------------------ MODULE FusionPages ------------------------------
(***************************************************************************)
(* fetchAllCollectionPages(): a collection of the REST service is read     *)
(* page by page, and the answer is one collection with every item.  The    *)
(* server decides how much of a page it returns and what it repeats of     *)
(* offset and limit; a node that closes or the deadline stops the reading. *)
(***************************************************************************)
EXTENDS Integers, Sequences

CONSTANTS
  MaxSize,   \* bound on the size of a collection
  MaxLimit,  \* bound on the items of a page
  MaxPages,  \* maxPages
  MaxItems   \* maxItems

Bounds ==
  /\ MaxSize \in Nat \ {0} /\ MaxLimit \in Nat \ {0}
  /\ MaxPages \in Nat \ {0} /\ MaxItems \in Nat \ {0}

VARIABLES
  server,   \* the collection and how the server answers
  offsets,  \* the offsets requested so far
  items,    \* what was read, as positions in the collection
  reading   \* "idle", "asking", or what the caller was told

vars == <<server, offsets, items, reading>>

\* echoes: which of offset and limit an answer repeats.  A deaf server returns
\* its first page whatever is asked, a wrong one fails on the given request.
Servers ==
  [size : 0 .. MaxSize, limit : 1 .. MaxLimit, echoes : SUBSET {"offset", "limit"},
   deaf : BOOLEAN, wrong : 0 .. 3]

Silent == [size |-> 0, limit |-> 1, echoes |-> {}, deaf |-> FALSE, wrong |-> 0]

TypeOK ==
  /\ server \in Servers
  /\ offsets \in Seq(Nat) /\ items \in Seq(Nat)
  /\ reading \in {"idle", "asking", "complete", "asItIs", "failed", "stopped"}

Init == server = Silent /\ offsets = <<>> /\ items = <<>> /\ reading = "idle"

Lesser(a, b) == IF a < b THEN a ELSE b

\* The answer to a request.
Page(offset) ==
  LET first == IF server.deaf THEN 0 ELSE offset
      count == Lesser(server.limit, server.size - first)
  IN  [offset |-> IF "offset" \in server.echoes THEN first ELSE -1,
       limit |-> IF "limit" \in server.echoes THEN server.limit ELSE 0,
       items |-> [i \in 1 .. count |-> first + i - 1],
       hasMore |-> first + count < server.size]

\* The nodes that read all pages start without an offset.
Start ==
  /\ reading = "idle"
  /\ server' \in {s \in Servers : s.wrong = 0 \/ s.wrong <= s.size}
  /\ offsets' = <<0>> /\ items' = <<>> /\ reading' = "asking"

\* A page that is no collection: the first answer is handed on as it is.
Odd ==
  /\ reading = "asking" /\ server.wrong = Len(offsets)
  /\ reading' = IF Len(offsets) = 1 THEN "asItIs" ELSE "failed"
  /\ UNCHANGED <<server, offsets, items>>

\* Fault: an answer without a limit is taken for a full page.
AdvanceByDefault(requested, page) ==
  LET offset == IF page.offset < 0 THEN requested ELSE page.offset
      limit == IF page.limit > 0 THEN page.limit ELSE MaxLimit
  IN  IF page.offset >= 0 /\ page.offset < requested THEN -1
      ELSE IF offset + limit <= requested THEN -1 ELSE offset + limit

\* The offset that comes next, -1 if the answer does not move on.
Advance(requested, page) ==
  LET offset == IF page.offset < 0 THEN requested ELSE page.offset
      limit == IF page.limit > 0 THEN page.limit ELSE Len(page.items)
  IN  IF page.offset >= 0 /\ page.offset < requested THEN -1
      ELSE IF offset + limit <= requested THEN -1 ELSE offset + limit

\* One answer, up to the next request.
Answered ==
  /\ reading = "asking" /\ server.wrong # Len(offsets)
  /\ LET requested == offsets[Len(offsets)]
         page == Page(requested)
         next == Advance(requested, page)
         read == items \o page.items
     IN  \/ /\ \/ Len(read) > MaxItems
               \/ page.hasMore /\ (page.items = <<>> \/ next < 0 \/ Len(offsets) = MaxPages)
            /\ reading' = "failed" /\ UNCHANGED <<offsets, items>>
         \/ /\ Len(read) <= MaxItems /\ ~page.hasMore
            /\ reading' = "complete" /\ items' = read /\ UNCHANGED offsets
         \/ /\ Len(read) <= MaxItems /\ page.hasMore /\ page.items # <<>> /\ next >= 0
            /\ Len(offsets) < MaxPages
            /\ items' = read /\ offsets' = Append(offsets, next) /\ UNCHANGED reading
  /\ UNCHANGED server

\* The request fails, the deadline passes or the node closes.
Stop ==
  /\ reading = "asking"
  /\ reading' = "stopped"
  /\ UNCHANGED <<server, offsets, items>>

Next == Start \/ Odd \/ Answered \/ Stop

\* A collection that is returned has every item of the server's, each once and
\* in order: a server that ignores offsets or stops advancing is noticed, and
\* the reading ends within its limits.
PagesAreComplete ==
  /\ reading = "complete" => items = [i \in 1 .. server.size |-> i - 1]
  /\ Len(offsets) <= MaxPages /\ Len(items) <= MaxItems
=============================================================================
