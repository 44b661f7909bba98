----------------------------- MODULE ConsolePages -----------------------------
(***************************************************************************)
(* A client that pages through one of the console's lists while others     *)
(* change it.  Each page is two statements of their own: the rows, newest  *)
(* first, by LIMIT and OFFSET, and then the number of rows.  The client    *)
(* asks for the next page as long as that total says there is one.         *)
(***************************************************************************)
EXTENDS Console

CONSTANTS
  Sizes,        \* page sizes clients ask for
  DefaultSize,  \* pageBounds' 10
  MaxSize       \* pageBounds' 100

ASSUME PageAssumption ==
  /\ Sizes \subseteq Int
  /\ DefaultSize \in 1 .. MaxSize

VARIABLE walk

pageVars == <<consoleVars, walk>>

Lists == {"drones", "operators", "capabilities", "commands", "telemetry", "logs"}

\* The rows a list no longer shows.
Gone(list) ==
  {e \in CASE list = "drones"       -> Drones
           [] list = "operators"    -> Operators
           [] list = "capabilities" -> Capabilities
           [] OTHER                 -> {} :
     console_entries[e].state = "deleted"}

\* The rows of each list, without LIMIT and OFFSET: what its count(*) counts.
DronePage == {d \in Drones : Live(d)}
OperatorPage == {o \in Operators : Live(o)}
CapabilityPage == {s \in Capabilities : Live(s)}
CommandPage == {k \in Commands : console_commands[k] # NoRow}
TelemetryPage == {h \in Telemetry : console_telemetry_records[h] # NoRow}
LogPage == {l \in LogRows : console_logs[l] # NoRow}

Total(list) ==
  CASE list = "drones"       -> DronePage
    [] list = "operators"    -> OperatorPage
    [] list = "capabilities" -> CapabilityPage
    [] list = "commands"     -> CommandPage
    [] list = "telemetry"    -> TelemetryPage
    [] list = "logs"         -> LogPage

\* The rows themselves: commands and telemetry are joined to the drones and
\* capabilities they name, deleted or not.
Joined(list) ==
  {id \in Total(list) :
    /\ list = "commands" =>
         /\ Exists(console_commands[id].drone)
         /\ Exists(console_commands[id].capability)
    /\ list = "telemetry" => Exists(console_telemetry_records[id].drone)}

\* The column each list is ordered by.
At(list, id) ==
  CASE list = "commands"  -> console_commands[id].created_at
    [] list = "telemetry" -> console_telemetry_records[id].recorded_at
    [] list = "logs"      -> console_logs[id].created_at
    [] OTHER              -> console_entries[id].created_at

\* The offset counts pages from 1.
BadPageBounds(current, size) ==
  LET n == IF size < 1 \/ size > MaxSize THEN DefaultSize ELSE size IN
  [size |-> n, offset |-> current * n]

PageBounds(current, size) ==
  LET n == IF size < 1 \/ size > MaxSize THEN DefaultSize ELSE size IN
  [size |-> n, offset |-> (current - 1) * n]

\* R is what ORDER BY ... DESC LIMIT size OFFSET offset may return: rows with
\* the same time come in any order, and not in the same one each time.
IsPage(list, R, bounds) ==
  LET S == Joined(list) IN
  \E Before \in SUBSET (S \ R) :
    LET After == S \ (Before \union R) IN
    /\ \A b \in Before, r \in R : At(list, b) >= At(list, r)
    /\ \A x \in Before \union R, y \in After : At(list, x) >= At(list, y)
    /\ Cardinality(Before) = bounds.offset
         \/ (Before = S /\ Cardinality(S) < bounds.offset)
    /\ Cardinality(R) = bounds.size
         \/ (Cardinality(R) < bounds.size /\ After = {})

NotWalking == [pc |-> "idle"]

Start(list, size) ==
  /\ walk = NotWalking
  /\ walk' = [pc |-> "rows", list |-> list, size |-> size, current |-> 1,
              start |-> Joined(list), gone |-> Gone(list), seen |-> {}]
  /\ UNCHANGED consoleVars

\* The first statement of a page.
ReadRows ==
  /\ walk.pc = "rows"
  /\ \E R \in SUBSET Joined(walk.list) :
       /\ IsPage(walk.list, R, PageBounds(walk.current, walk.size))
       /\ walk' = [walk EXCEPT !.pc = "total", !.seen = @ \union R]
  /\ UNCHANGED consoleVars

\* The second one, and what the client makes of it.
ReadTotal ==
  /\ walk.pc = "total"
  /\ LET bounds == PageBounds(walk.current, walk.size)
         more == bounds.offset + bounds.size < Cardinality(Total(walk.list))
     IN  walk' = [walk EXCEPT !.pc = IF more THEN "rows" ELSE "done",
                              !.current = IF more THEN @ + 1 ELSE @]
  /\ UNCHANGED consoleVars

PageNext ==
  \/ ConsoleNext /\ UNCHANGED walk
  \/ \E list \in Lists, size \in Sizes : Start(list, size)
  \/ ReadRows
  \/ ReadTotal

PageInit == ConsoleInit /\ walk = NotWalking

PageSpec == PageInit /\ [][PageNext]_pageVars

-----------------------------------------------------------------------------

\* The inner joins drop nothing: the number of rows a page reports is the one
\* its list can show.
TotalsCountWhatIsListed == \A list \in Lists : Joined(list) = Total(list)

\* What the list held at some time of the walk.
Held == Joined(walk.list) \union (Gone(walk.list) \ walk.gone)

\* Rows whose place in the order no other row shared, not even one that is gone.
Untied(S) ==
  {e \in S : \A f \in Held \ {e} : At(walk.list, e) # At(walk.list, f)}

\* Entries that were there all the time and did not show up on any page.
Missed ==
  {e \in walk.start \intersect Joined(walk.list) : e \notin walk.seen}

\* Paging by offset over a list that changes shows rows twice, but it leaves out
\* a row that was there all along only if rows before it were deleted
\* meanwhile, one row for each deletion: a list nothing is deleted from is read
\* completely.  Rows that shared their time with another, as the seeds do, are
\* not covered: their order is not fixed.
WalkMissesOnlyForDeletions ==
  walk.pc = "done" =>
    Cardinality(Untied(Missed)) <= Cardinality(Gone(walk.list) \ walk.gone)

=============================================================================
