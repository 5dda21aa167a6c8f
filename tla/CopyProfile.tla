----------------------------- MODULE CopyProfile -----------------------------
(***************************************************************************)
(* The program that instrument_copies.py makes: every update helper of     *)
(* Lists and Strings first calls prof_hit with its path and its return     *)
(* address, and prof_hit counts in an open-addressed table.  At exit the   *)
(* rows are written, and report.py reads them back into calls and units    *)
(* by path.                                                                *)
(*                                                                         *)
(* Addresses are sites in compiled functions, or Inner: sites inside the   *)
(* take_left helpers of Lists, whose shared branch calls the borrowed      *)
(* helper.  Home is the hash of a key, any function.                       *)
(***************************************************************************)
EXTENDS Naturals, Sequences, FiniteSets, FiniteSetsExt

CONSTANTS
    Site,           \* return addresses in compiled functions
    Inner,          \* return addresses in the take_left helpers of Lists
    Slots,          \* PROF_SLOTS
    Home,           \* the slot at which the search for a key begins
    Units,          \* lengths of the left operand
    Line,           \* the statement an address belongs to
    MaxUpdates      \* bound: updates of one execution

Family == {"list", "string"}

Path == {"unique", "fallback", "borrowed"}

\* prof_kind_names: a family and a path.
Kind == Family \X Path

Address == Site \cup Inner

Key == Kind \X Address

ASSUME SlotsAssumption == Slots \in Nat \ {0}

ASSUME HomeAssumption == Home \in [Key -> 0 .. Slots - 1]

ASSUME UnitsAssumption == Units \subseteq Nat

ASSUME SitesAssumption == Site \cap Inner = {}

VARIABLES
    prof_rows,      \* the table; a row with no hits is free
    pending,        \* the calls of prof_hit that the current update still makes
    slot,           \* where the first of them looks
    updates,        \* history: calls and units of each path at each site
    exited          \* the program has run its exit handlers

vars == <<prof_rows, pending, slot, updates, exited>>

Slot == 0 .. Slots - 1

Zero == [hits |-> 0, units |-> 0]

Free == [key |-> <<>>, hits |-> 0, units |-> 0]

Counted(old, u) == [old EXCEPT !.hits = @ + 1, !.units = @ + u]

Hit(family, path, address, u) == [key |-> <<<<family, path>>, address>>, units |-> u]

\* The calls of prof_hit in one update at site a whose left operand has length
\* u.  The shared branch of a List's take_left helper calls the borrowed
\* helper, which is instrumented too; a String's copies the bytes itself.
HitsOf(family, path, a, i, u) ==
    IF family = "list" /\ path = "fallback"
    THEN <<Hit(family, path, a, u), Hit(family, "borrowed", i, u)>>
    ELSE <<Hit(family, path, a, u)>>

Start(hits) == pending' = hits /\ slot' = IF hits = <<>> THEN 0 ELSE Home[Head(hits).key]

Init ==
    /\ prof_rows = [s \in Slot |-> Free]
    /\ pending = <<>>
    /\ slot = 0
    /\ updates = [c \in Kind \X Site |-> Zero]
    /\ exited = FALSE

CallsMade == MapThenSumSet(LAMBDA c : updates[c].hits, DOMAIN updates)

\* The program calls an update helper: the in-place one on a unique or on a
\* shared left operand, or the borrowed one.
Update(family, path, a, i, u) ==
    /\ ~exited /\ pending = <<>>
    /\ CallsMade < MaxUpdates
    /\ updates' = [updates EXCEPT ![<<<<family, path>>, a>>] = Counted(@, u)]
    /\ Start(HitsOf(family, path, a, i, u))
    /\ UNCHANGED <<prof_rows, exited>>

\* Fault: a row is taken to match by its address alone.
MatchesAddress(row, key) == row.key[2] = key[2]

\* row->address == address && row->kind == kind
Matches(row, key) == row.key = key

\* A free row is claimed for the key, and then matches it.
Claimed(row, key) == IF row.hits = 0 THEN [row EXCEPT !.key = key] ELSE row

\* Fault: the search stays at the end of the table.
ProfHitStopsAtEnd ==
    /\ pending # <<>>
    /\ LET hit == Head(pending)
           row == Claimed(prof_rows[slot], hit.key)
       IN  IF Matches(row, hit.key)
           THEN /\ prof_rows' = [prof_rows EXCEPT ![slot] = Counted(row, hit.units)]
                /\ Start(Tail(pending))
           ELSE /\ slot' = IF slot = Slots - 1 THEN slot ELSE slot + 1
                /\ UNCHANGED <<prof_rows, pending>>
    /\ UNCHANGED <<updates, exited>>

\* One round of prof_hit's loop.  The mask of the code is the wrap to 0:
\* PROF_SLOTS is a power of two.
ProfHit ==
    /\ pending # <<>>
    /\ LET hit == Head(pending)
           row == Claimed(prof_rows[slot], hit.key)
       IN  IF Matches(row, hit.key)
           THEN /\ prof_rows' = [prof_rows EXCEPT ![slot] = Counted(row, hit.units)]
                /\ Start(Tail(pending))
           ELSE /\ slot' = IF slot = Slots - 1 THEN 0 ELSE slot + 1
                /\ UNCHANGED <<prof_rows, pending>>
    /\ UNCHANGED <<updates, exited>>

Exit ==
    /\ ~exited /\ pending = <<>>
    /\ exited' = TRUE
    /\ UNCHANGED <<prof_rows, pending, slot, updates>>

Next ==
    \/ \E family \in Family, path \in Path, a \in Site, i \in Inner, u \in Units :
          Update(family, path, a, i, u)
    \/ ProfHit
    \/ Exit

\* The program runs on while it is inside prof_hit.
Spec == Init /\ [][Next]_vars /\ WF_vars(ProfHit)

-----------------------------------------------------------------------------
(* report.py on the rows that prof_report writes.                          *)

Written == {s \in Slot : prof_rows[s].hits # 0}

\* Fault: a borrowed row inside a take_left helper is kept.
KeptAll(row) == TRUE

\* A borrowed helper called from a take_left helper is that helper's own copy,
\* already counted as its fallback.
Kept(row) == ~(row.key[1][2] = "borrowed" /\ row.key[2] \in Inner)

\* read_copy_rows: the rows by statement and kind.
Sites(statement, kind) ==
    LET mine == {s \in Written :
                    /\ Kept(prof_rows[s])
                    /\ Line[prof_rows[s].key[2]] = statement
                    /\ prof_rows[s].key[1] = kind}
    IN  [hits |-> MapThenSumSet(LAMBDA s : prof_rows[s].hits, mine),
         units |-> MapThenSumSet(LAMBDA s : prof_rows[s].units, mine)]

Statements == {Line[a] : a \in Address}

\* The "Copies by path" tables.
ByPath(kind) ==
    [hits |-> MapThenSumSet(LAMBDA s : Sites(s, kind).hits, Statements),
     units |-> MapThenSumSet(LAMBDA s : Sites(s, kind).units, Statements)]

-----------------------------------------------------------------------------
(* Properties.                                                             *)

TypeOK ==
    /\ prof_rows \in [Slot -> [key : Key, hits : Nat \ {0}, units : Nat] \cup {Free}]
    /\ pending \in Seq([key : Key, units : Units])
    /\ slot \in Slot
    /\ updates \in [Kind \X Site -> [hits : Nat, units : Nat]]
    /\ exited \in BOOLEAN

\* No key has two rows: however keys collide and wrap around, a search that
\* claims a free row cannot have passed an older row of the same key.
OneRowPerKey ==
    \A s, t \in Slot :
        prof_rows[s].hits # 0 /\ prof_rows[t].hits # 0 /\ prof_rows[s].key = prof_rows[t].key
            => s = t

RowsOf(k) == {s \in Slot : prof_rows[s].hits # 0 /\ prof_rows[s].key = k}

\* What the table says of a key.
CountOf(k) ==
    IF RowsOf(k) = {} THEN Zero
    ELSE LET row == prof_rows[CHOOSE s \in RowsOf(k) : TRUE]
         IN  [hits |-> row.hits, units |-> row.units]

Abstract == INSTANCE CallCounts WITH counts <- [k \in Key |-> CountOf(k)]

\* The table is a map of counters: each completed search adds one hit and its
\* units to its own key and changes no other key's counts.
ImplementsCallCounts == Abstract!Spec

\* The report counts every update once, at its statement and under the path it
\* took: the copy inside a List's take_left helper is not counted again as a
\* borrowed update, and addresses of one statement are added up.
ReportIsExact ==
    exited =>
        /\ \A s \in Statements, k \in Kind :
              LET mine == {c \in DOMAIN updates : c[1] = k /\ Line[c[2]] = s}
              IN  Sites(s, k) =
                    [hits |-> MapThenSumSet(LAMBDA c : updates[c].hits, mine),
                     units |-> MapThenSumSet(LAMBDA c : updates[c].units, mine)]
        /\ MapThenSumSet(LAMBDA k : ByPath(k).hits, Kind) = CallsMade

\* Every search ends, as long as the keys fit the table, full or not.
HitsEnd == pending # <<>> ~> pending = <<>>

=============================================================================
