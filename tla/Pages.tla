------------------------------- MODULE Pages -------------------------------
(***************************************************************************)
(* The lists of the Applications and the Connections page: rows in         *)
(* sections that are kept sorted while traffic goes on, and moved when a   *)
(* rule comes or goes (pages/mod.rs, applications.rs, connections.rs).     *)
(* Rows are told apart by the address of their widget, which a new widget  *)
(* may have again.  The main loop folds messages into the state and then   *)
(* refreshes: a pass over the rows, one over the state, in the order of a  *)
(* hash map, which is any, and one over the sections.                      *)
(***************************************************************************)
EXTENDS Naturals, FiniteSets, SequencesExt, Functions, Collections

CONSTANTS Items,      \* applications and flows
          GroupsOf,   \* item -> sections it may be in; a flow stays in that of its protocol
          Traffic,    \* byte counts a row may be sorted by
          Label,      \* item -> its text, as a number; two items may have the same
          Widgets     \* addresses

ASSUME PagesAssumption == Traffic \subseteq Nat /\ Label \in [Items -> Nat]

Sections == UNION {GroupsOf[k] : k \in Items}
IsState(new) == \A k \in DOMAIN new : new[k].group \in GroupsOf[k]
States == {new \in UNION {[K -> [group : Sections, bytes : Traffic]] : K \in SUBSET Items} :
             IsFiniteSet(DOMAIN new) /\ IsState(new)}

VARIABLES st,        \* ClientState: apps with their blocked flag, conns with their protocol
          rows,      \* HashMap: item -> its widget, the section it is in and its sort key
          sections,  \* section -> widgets of its ListBox, and its map from widgets to sort keys
          arranged,  \* section -> its widgets from the top down
          phase, due \* the pass of the refresh, and what it has yet to visit
pageVars == <<st, rows, sections, arranged, phase, due>>

NoEntries == [x \in {} |-> 0]
PageInit ==
  /\ st = NoEntries /\ rows = NoEntries
  /\ sections = [s \in Sections |-> [children |-> {}, keys |-> NoEntries]]
  /\ arranged = [s \in Sections |-> <<>>]
  /\ phase = "sort" /\ due = {}

-----------------------------------------------------------------------------
(* SectionList *)

Inserted(l, w, k) == [children |-> l.children \cup {w}, keys |-> Put(l.keys, w, k)]
Removed(l, w) == [children |-> l.children \ {w}, keys |-> Restrict(l.keys, DOMAIN l.keys \ {w})]

\* More bytes first, then the text (cmp_rows).
Ahead(k, l) == \/ rows[k].bytes > rows[l].bytes
               \/ rows[k].bytes = rows[l].bytes /\ Label[k] < Label[l]

\* The comparison finds the sort keys of two rows by their widgets; rows that
\* compare as equal may have any order.
Arrangements(l) ==
  {o \in SetToSeqs(l.children) :
     \A m, n \in DOMAIN o : m < n => ~ /\ {o[m], o[n]} \subseteq DOMAIN l.keys
                                       /\ Ahead(l.keys[o[n]], l.keys[o[m]])}

-----------------------------------------------------------------------------
(* update of a page *)

\* Messages have changed the state: what has left it is to lose its row.
Changed == /\ phase = "sort" /\ due = {}
           /\ st' \in States
           /\ phase' = "drop" /\ due' = DOMAIN rows \ DOMAIN st'
           /\ UNCHANGED <<rows, sections, arranged>>

DropStale(k) ==
  /\ phase = "drop"
  /\ rows' = Restrict(rows, DOMAIN rows \ {k})
  /\ sections' = [sections EXCEPT ![rows[k].group] = Removed(@, rows[k].widget)]
  /\ UNCHANGED arranged

\* A row that is in its section gets its new sort key.
Stay(k) == /\ phase = "place" /\ k \in DOMAIN rows
           /\ rows[k].group = st[k].group
           /\ rows' = [rows EXCEPT ![k].bytes = st[k].bytes]
           /\ UNCHANGED <<sections, arranged>>

MovesWidget(k) ==
  sections' = [sections EXCEPT ![rows[k].group] = Removed(@, rows[k].widget),
                               ![st[k].group]   = Inserted(@, rows[k].widget, k)]

\* Faulty variant of Move: the row does not know that it has moved.
Move_Forgets(k) == /\ phase = "place" /\ k \in DOMAIN rows
                   /\ rows[k].group # st[k].group
                   /\ rows' = [rows EXCEPT ![k].bytes = st[k].bytes]
                   /\ MovesWidget(k)
                   /\ UNCHANGED arranged

Move(k) == /\ phase = "place" /\ k \in DOMAIN rows
           /\ rows[k].group # st[k].group
           /\ rows' = [rows EXCEPT ![k].group = st[k].group, ![k].bytes = st[k].bytes]
           /\ MovesWidget(k)
           /\ UNCHANGED arranged

Create(k) ==
  /\ phase = "place" /\ k \notin DOMAIN rows
  /\ \E w \in Widgets \ {rows[l].widget : l \in DOMAIN rows} :
       /\ rows' = Put(rows, k, [widget |-> w, group |-> st[k].group, bytes |-> st[k].bytes])
       /\ sections' = [sections EXCEPT ![st[k].group] = Inserted(@, w, k)]
  /\ UNCHANGED arranged

Sort(s) == /\ phase = "sort"
           /\ \E o \in Arrangements(sections[s]) : arranged' = [arranged EXCEPT ![s] = o]
           /\ UNCHANGED <<rows, sections>>

Visit == /\ \E k \in due : /\ DropStale(k) \/ Stay(k) \/ Move(k) \/ Create(k) \/ Sort(k)
                           /\ due' = due \ {k}
         /\ UNCHANGED <<st, phase>>

PassOver == /\ due = {}
            /\ \/ phase = "drop"  /\ phase' = "place" /\ due' = DOMAIN st
               \/ phase = "place" /\ phase' = "sort"  /\ due' = Sections
            /\ UNCHANGED <<st, rows, sections, arranged>>

PageNext == Changed \/ Visit \/ PassOver
PageSpec == PageInit /\ [][PageNext]_pageVars

-----------------------------------------------------------------------------
(* Properties *)

\* After every refresh the lists are the state: each application and flow has
\* one row, in its section, more traffic first; a section is taken for empty only
\* when it is, although rows move between sections and widgets are used again
\* (applications.rs:94-153, connections.rs:86-155, mod.rs:67-92).
ListsShowTheState ==
  phase = "sort" /\ due = {} =>
  \A s \in Sections :
    LET widgets == arranged[s]
        list    == [n \in DOMAIN widgets |-> sections[s].keys[widgets[n]]]
    IN /\ DOMAIN sections[s].keys = ToSet(widgets)
       /\ IsInjective(list) /\ ToSet(list) = {k \in DOMAIN st : st[k].group = s}
       /\ \A m, n \in DOMAIN list : m < n =>
            \/ st[list[m]].bytes > st[list[n]].bytes
            \/ st[list[m]].bytes = st[list[n]].bytes /\ Label[list[m]] <= Label[list[n]]
=============================================================================
