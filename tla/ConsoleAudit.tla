---------------------------- MODULE ConsoleAudit ----------------------------
(***************************************************************************)
(* The audit log's page (app/dashboard/audit/page.tsx): searches that are  *)
(* saved and used again, and compliance mode, which hides the ids of keys  *)
(* and addresses. ConsoleLogs has the page's rows and how they are paged.  *)
(***************************************************************************)
EXTENDS Console

CONSTANT MaxSaved  \* bound: searches that are saved

ASSUME AuditAssumption == MaxSaved \in Nat

-----------------------------------------------------------------------------
(* Saved searches. Two filters stand for the five of FilterState: one that *)
(* is empty at first and one that is not; the list of saved searches is a  *)
(* set, for each has an id of its own. meant and chosen are histories: the *)
(* filters that each search was saved with, and the search in use, 0 once  *)
(* a filter is changed by hand; leafed the filters under which the user    *)
(* has turned to another page.                                             *)

EmptyFilters == [category |-> "", retention |-> "30d"]
FilterValues == [category |-> {"", "auth", "request"}, retention |-> {"30d", "7d"}]

SearchesInit ==
  [filters |-> EmptyFilters, page |-> 0, saved |-> {}, menu |-> FALSE, naming |-> FALSE,
   made |-> 0, meant |-> [s \in 1 .. MaxSaved |-> EmptyFilters], chosen |-> 0, leafed |-> EmptyFilters]

OnSearches == page = "searches"

OpenSearches == Open("searches", SearchesInit)

SetFilter ==
  /\ OnSearches
  /\ \E f \in DOMAIN FilterValues : \E v \in FilterValues[f] \ {ui.filters[f]} :
       Set([ui EXCEPT !.filters[f] = v, !.page = 0, !.chosen = 0])

ClearAll == OnSearches /\ Set([ui EXCEPT !.filters = EmptyFilters, !.page = 0, !.chosen = 0])

TurnPage ==
  OnSearches /\ \E p \in {0, 1} \ {ui.page} : Set([ui EXCEPT !.page = p, !.leafed = ui.filters])

\* The button Saved; a name that was begun is kept while the menu is closed.
ToggleMenu == OnSearches /\ Set([ui EXCEPT !.menu = ~@])
AskName == OnSearches /\ ui.menu /\ ~ui.naming /\ Set([ui EXCEPT !.naming = TRUE])

\* saveSearch, with a name that is not blank: a copy of the filters. The menu stays open.
SaveSearch ==
  /\ OnSearches /\ ui.menu /\ ui.naming /\ ui.made < MaxSaved
  /\ LET id == ui.made + 1
     IN  Set([ui EXCEPT !.saved = @ \cup {[id |-> id, filters |-> ui.filters]}, !.naming = FALSE,
                        !.made = id, !.meant[id] = ui.filters])

\* A click on a saved search.
SearchApplied(u, s) == [u EXCEPT !.filters = s.filters, !.menu = FALSE, !.page = 0]

ApplySearch ==
  OnSearches /\ ui.menu /\ \E s \in ui.saved : Set([SearchApplied(ui, s) EXCEPT !.chosen = s.id])

DeleteSearch ==
  /\ OnSearches /\ ui.menu
  /\ \E s \in ui.saved : Set([ui EXCEPT !.saved = {x \in @ : x.id # s.id}])

SearchesUser ==
  \/ SetFilter \/ ClearAll \/ TurnPage \/ ToggleMenu \/ AskName \/ SaveSearch \/ ApplySearch \/ DeleteSearch

\* A saved search brings back all the filters that it was saved with, whatever was filtered,
\* cleared, saved or deleted since; and the page of rows on screen is never one that was turned
\* to under other filters.
SearchesRestore ==
  OnSearches =>
    /\ \A s \in ui.saved : s.filters = ui.meant[s.id]
    /\ ui.chosen # 0 => ui.filters = ui.meant[ui.chosen]
    /\ ui.page # 0 => ui.filters = ui.leafed

-----------------------------------------------------------------------------
(* Compliance mode. A text is absent, of up to four characters or longer;  *)
(* hidden it is nothing but dots, or its first three characters and dots.  *)
(* mapAuditLog takes every actor for a key. exported is a history: the     *)
(* modes and rows of the files that were saved.                            *)

Hidden == {"none", "dots", "start"}

OrgEvents == [actor: {"short", "long"}, ip: {"none", "short", "long"}, actorType: {"api_key"}]

\* redact
Redact(val, mask) ==
  IF ~mask \/ val = "none" THEN val ELSE IF val = "short" THEN "dots" ELSE "start"

RecordsInit(e) == [event |-> e, compliance |-> FALSE, open |-> FALSE, exported |-> {}]

OnRecords == page = "records"

OpenRecords == \E e \in OrgEvents : Open("records", RecordsInit(e))

\* The row of the table.
TableActor(u) == Redact(u.event.actor, u.compliance /\ u.event.actorType = "api_key")

\* fields of the drawer; the raw record underneath is never redacted.
DrawerFields(u) ==
  [actor |-> Redact(u.event.actor, u.compliance /\ u.event.actorType = "api_key"),
   ip |-> Redact(u.event.ip, u.compliance)]

\* A row of exportCsv.
CsvRow(u) ==
  [actor |-> Redact(u.event.actor, u.compliance /\ u.event.actorType = "api_key"),
   ip |-> Redact(u.event.ip, u.compliance)]

ToggleCompliance == OnRecords /\ Set([ui EXCEPT !.compliance = ~@])
SelectEvent == OnRecords /\ Set([ui EXCEPT !.open = TRUE])
CloseDrawer == OnRecords /\ ui.open /\ Set([ui EXCEPT !.open = FALSE])
ExportCsv ==
  OnRecords /\ Set([ui EXCEPT !.exported = @ \cup {[compliance |-> ui.compliance, row |-> CsvRow(ui)]}])

RecordsUser == ToggleCompliance \/ SelectEvent \/ CloseDrawer \/ ExportCsv

\* In compliance mode no key's id and no address is on screen in full or in a file that was
\* exported in it, also in a drawer that was open when the mode was switched on. The raw record
\* at the drawer's end is left out of this: it shows both.
ComplianceHides ==
  OnRecords =>
    /\ ui.compliance => /\ TableActor(ui) \in Hidden
                        /\ ui.open => {DrawerFields(ui).actor, DrawerFields(ui).ip} \subseteq Hidden
    /\ \A x \in ui.exported : x.compliance => {x.row.actor, x.row.ip} \subseteq Hidden

=============================================================================
