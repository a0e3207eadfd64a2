--------------------------- MODULE ConsoleSearch ---------------------------
(***************************************************************************)
(* The command palette (components/command-palette.tsx), which every page  *)
(* of the shell mounts, and the search page (components/global-search.tsx).*)
(* Both move a highlight, an index, through a list that changes under it:  *)
(* the user types, and the queries refetch.                                *)
(***************************************************************************)
EXTENDS Console, Integers

CONSTANTS
  MaxRecent,   \* recent commands that are stored (6)
  ShownRecent, \* and that the palette shows (5)
  GroupCap,    \* results of one kind that the search page shows (6)
  ChosenCap,   \* and of the kind that was chosen (50)
  MaxUses,     \* bound: commands activated
  MaxListed    \* bound: servers

ASSUME SearchAssumption ==
  {MaxRecent, ShownRecent, GroupCap, ChosenCap, MaxUses, MaxListed} \subseteq Nat

\* Math.min and Math.max, and what is in a list.
MathMin(a, b) == IF a <= b THEN a ELSE b
MathMax(a, b) == IF a >= b THEN a ELSE b
Values(list) == {list[i] : i \in DOMAIN list}

-----------------------------------------------------------------------------
(* The palette. Commands are numbers, in the order in which they are       *)
(* listed. A query is the number of its letters: one letter matches some   *)
(* of the commands, two match fewer of them and also rows that exist.      *)

Contexts == {"org-admin", "developer"}
AllCommands == <<1, 2, 3>>

\* buildCommands: those for every context, and those of this one.
BuildCommands(context) ==
  SelectSeq(AllCommands, LAMBDA c : c # 2 \/ context = "org-admin")

Queries == 0 .. 2
MatchStr(c, query) == CASE query = 0 -> TRUE [] query = 1 -> c \in {1, 2} [] OTHER -> c = 1

FilteredCommands(u) == SelectSeq(BuildCommands(u.context), LAMBDA c : MatchStr(c, u.query))

\* liveResults: rows that match, from two letters on. Rows have negative numbers.
LiveResults(u) == IF u.query < 2 THEN <<>> ELSE [i \in 1 .. u.listed |-> -i]

RecentCommands(u) ==
  LET found == SelectSeq(u.recentIds, LAMBDA c : c \in Values(BuildCommands(u.context)))
  IN  IF u.query # 0 THEN <<>> ELSE SubSeq(found, 1, MathMin(ShownRecent, Len(found)))

AllItems(u) ==
  IF u.query # 0 THEN FilteredCommands(u) \o LiveResults(u)
                 ELSE RecentCommands(u) \o BuildCommands(u.context)

\* recent is in localStorage and outlives the palette and the context; recentIds is the copy
\* that was read when the palette was opened. Histories: used (the commands, oldest first),
\* moved (the list has changed under the highlight).
PaletteInit ==
  [context |-> "org-admin", open |-> FALSE, query |-> 0, selected |-> 0, recentIds |-> <<>>,
   recent |-> <<>>, listed |-> 0, used |-> <<>>, moved |-> FALSE]

OnPalette == page = "palette"

OpenShell == Open("palette", PaletteInit)

\* Ctrl+K; the effect on [open].
OpenPalette ==
  /\ OnPalette /\ ~ui.open
  /\ Set([ui EXCEPT !.open = TRUE, !.query = 0, !.selected = 0, !.recentIds = ui.recent,
                    !.moved = FALSE])

ClosePalette == OnPalette /\ ui.open /\ Set([ui EXCEPT !.open = FALSE])

\* mutant: the highlight stays where it was
SetPaletteQueryOnly(q) ==
  OnPalette /\ ui.open /\ q # ui.query /\ Set([ui EXCEPT !.query = q])

\* Typing, with the effect on [query].
SetPaletteQuery(q) ==
  /\ OnPalette /\ ui.open /\ q # ui.query
  /\ Set([ui EXCEPT !.query = q, !.selected = 0, !.moved = FALSE])

PushRecent(recent, c) ==
  LET prev == SelectSeq(recent, LAMBDA d : d # c)
  IN  SubSeq(<<c>> \o prev, 1, MathMin(MaxRecent, Len(prev) + 1))

\* activate: by Enter or by a click. A row that is not a command is not remembered.
Activate(item) ==
  /\ Len(ui.used) < MaxUses
  /\ Set([ui EXCEPT !.open = FALSE,
                    !.recent = IF item > 0 THEN PushRecent(@, item) ELSE @,
                    !.used = IF item > 0 THEN Append(@, item) ELSE @])

ArrowDown(u, len) == MathMin(u.selected + 1, len - 1)
ArrowUp(u) == MathMax(u.selected - 1, 0)

PaletteKey ==
  /\ OnPalette /\ ui.open
  /\ \/ Set([ui EXCEPT !.selected = ArrowDown(ui, Len(AllItems(ui)))])
     \/ Set([ui EXCEPT !.selected = ArrowUp(ui)])
     \/ ui.selected + 1 \in DOMAIN AllItems(ui) /\ Activate(AllItems(ui)[ui.selected + 1])

\* The pointer moves the highlight too: every row knows its place in the list.
Hover == OnPalette /\ ui.open /\ \E i \in DOMAIN AllItems(ui) : Set([ui EXCEPT !.selected = i - 1])

ClickItem == OnPalette /\ ui.open /\ \E i \in DOMAIN AllItems(ui) : Activate(AllItems(ui)[i])

\* Another part of the console is opened, with its own shell.
SwitchContext ==
  /\ OnPalette /\ ~ui.open
  /\ \E k \in Contexts \ {ui.context} : Set([ui EXCEPT !.context = k, !.recentIds = <<>>])

ServersRefetched ==
  /\ OnPalette
  /\ \E n \in 0 .. MaxListed : n # ui.listed /\ Set([ui EXCEPT !.listed = n, !.moved = TRUE])

PaletteUser ==
  \/ OpenPalette \/ ClosePalette \/ PaletteKey \/ Hover \/ ClickItem \/ SwitchContext
  \/ \E q \in Queries : SetPaletteQuery(q)

\* The place of the last use of command c.
LastUse(used, c) == CHOOSE i \in DOMAIN used : used[i] = c /\ \A j \in i + 1 .. Len(used) : used[j] # c

\* The stored list has the commands that were used last, each of them once, the last one first,
\* and as many as its bound allows, over any sequence of uses in any context.
RecentsAreRecent ==
  OnPalette =>
    LET last(c) == LastUse(ui.used, c)
        recent == ui.recent
        older(i) == {recent[j] : j \in i + 1 .. Len(recent)} \cup (Values(ui.used) \ Values(recent))
    IN  /\ Len(recent) = MathMin(MaxRecent, Cardinality(Values(ui.used)))
        /\ Values(recent) \subseteq Values(ui.used)
        /\ \A i \in DOMAIN recent : \A c \in older(i) : last(c) < last(recent[i])

\* What the palette offers of the stored list are commands that its context has, though the
\* list was made in other contexts and servers have come and gone since.
RecentsAreOffered == OnPalette => Values(RecentCommands(ui)) \subseteq Values(BuildCommands(ui.context))

\* While the palette is open its highlight is on a row of the list, if there is one, so that
\* Enter does what the user sees. A refetch that removes rows breaks this until the next key.
HighlightIsOnRow ==
  OnPalette /\ ui.open /\ ~ui.moved /\ AllItems(ui) # <<>>
    => ui.selected + 1 \in DOMAIN AllItems(ui)

-----------------------------------------------------------------------------
(* The search page. rows are the results of each kind that there are for   *)
(* the query that was debounced; a query is a number, 0 the empty one,     *)
(* which every row matches. A timer carries the query to debounced after   *)
(* 160 ms; typing again replaces it. url is the page's address.            *)

Kinds == <<"server", "documentation">>

\* allResults: servers answer to query 1, documents to query 2.
AllResults(u, kind) ==
  IF kind = "server" THEN IF u.debounced \in {0, 1} THEN u.listed ELSE 0
                     ELSE IF u.debounced \in {0, 2} THEN 2 ELSE 0

\* visibleGroups and flatResults: the kinds, or the one that was chosen, of which more is shown.
Shown(u, kind) == MathMin(IF u.kind = kind THEN ChosenCap ELSE GroupCap, AllResults(u, kind))
FlatResults(u) ==
  IF u.kind # "all" THEN Shown(u, u.kind)
                    ELSE Shown(u, Kinds[1]) + Shown(u, Kinds[2])

SearchInit ==
  [query |-> 0, debounced |-> 0, timer |-> FALSE, kind |-> "all", selected |-> 0, listed |-> 0,
   url |-> 0, moved |-> FALSE]

OnSearch == page = "search"

\* The page may be opened on a query that the address has.
OpenSearch ==
  \E q \in Queries : Open("search", [SearchInit EXCEPT !.query = q, !.debounced = q, !.url = q])

SetSearchQuery(q) == OnSearch /\ q # ui.query /\ Set([ui EXCEPT !.query = q, !.timer = TRUE])

\* The effects on [debouncedQ, activeType] and on [debouncedQ].
Debounced(u, q) ==
  IF q = u.debounced THEN u
  ELSE [u EXCEPT !.debounced = q, !.url = q, !.selected = 0, !.moved = FALSE]

DebounceFires == OnSearch /\ ui.timer /\ Set([Debounced(ui, ui.query) EXCEPT !.timer = FALSE])

\* The cross clears both at once; Escape clears the query.
ClearSearch ==
  OnSearch /\ ui.query # 0 /\ Set([Debounced(ui, 0) EXCEPT !.query = 0, !.timer = TRUE])

\* A pill chooses its kind or undoes that; it is there if the query has results of that kind.
ChooseKind(k) ==
  /\ OnSearch /\ ui.debounced # 0 /\ AllResults(ui, k) > 0
  /\ Set([ui EXCEPT !.kind = IF @ = k THEN "all" ELSE k, !.selected = 0, !.moved = FALSE])

ChooseAll ==
  /\ OnSearch /\ ui.debounced # 0 /\ ui.kind # "all"
  /\ Set([ui EXCEPT !.kind = "all", !.selected = 0, !.moved = FALSE])

\* The button beside a kind of which not everything is shown, with or without a query.
ViewAll(k) ==
  /\ OnSearch /\ ui.kind = "all" /\ AllResults(ui, k) > Shown(ui, k)
  /\ Set([ui EXCEPT !.kind = k, !.selected = 0, !.moved = FALSE])

HoverResult == OnSearch /\ \E i \in 1 .. FlatResults(ui) : Set([ui EXCEPT !.selected = i - 1])

SearchKey ==
  /\ OnSearch
  /\ \/ Set([ui EXCEPT !.selected = ArrowDown(ui, FlatResults(ui))])
     \/ Set([ui EXCEPT !.selected = ArrowUp(ui)])
     \/ ui.selected + 1 \in 1 .. FlatResults(ui) /\ Open(Elsewhere, [none |-> TRUE])

SearchRefetched ==
  /\ OnSearch
  /\ \E n \in 0 .. MaxListed : n # ui.listed /\ Set([ui EXCEPT !.listed = n, !.moved = TRUE])

SearchUser ==
  \/ \E q \in Queries : SetSearchQuery(q)
  \/ \E k \in Values(Kinds) : ChooseKind(k) \/ ViewAll(k)
  \/ ChooseAll \/ ClearSearch \/ SearchKey \/ HoverResult

\* Once the user stops typing, the results and the address are those of what they typed, and
\* the highlight is on one of the results unless a refetch removed it or there was none.
SearchSettles ==
  OnSearch =>
    /\ ui.url = ui.debounced
    /\ ~ui.timer => ui.debounced = ui.query
    /\ ~ui.moved /\ FlatResults(ui) > 0 => ui.selected + 1 \in 1 .. FlatResults(ui)

=============================================================================
