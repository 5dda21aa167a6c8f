----------------------------- MODULE RcMarkers -----------------------------
(***************************************************************************)
(* patch_emit_markers.py, region_tags of instrument_rc.py and the tables   *)
(* of report.py that rest on them, over the blocks that ownership insertion*)
(* writes: the markers of a block's acquisitions and drops, the category   *)
(* that a counted operation gets from them, and the group and the          *)
(* acquire-then-drop pair in which the report counts it.                   *)
(*                                                                         *)
(* A marker is [mark, owner, ...]: "A" and "D" open the region of an       *)
(* acquisition and of a drop, "K" says what else made an owner.  A category*)
(* is [name, pair]; name is the tuple of its parts, and pair what follows  *)
(* the plus sign, "" for nothing.                                          *)
(***************************************************************************)
EXTENDS Insertion, RcGroups

VARIABLES
    markers,    \* the markers in the function's text, in order
    tagged      \* the counted operations: direction and category

markerVars == <<vars, markers, tagged>>

-----------------------------------------------------------------------------
(* The patch of emit.                                                      *)

RECURSIVE RcReasonBeforeDefinition(_, _)
RcReasonBeforeDefinition(ops, index) ==
    IF index > Len(ops) THEN "block_end"
    ELSE CASE ops[index].kind \in {"AcquireOwner", "DropOwner"} -> RcReasonBeforeDefinition(ops, index + 1)
           [] ops[index].kind = "DefineValue" ->
                (CASE ops[index].operation \in {"Call", "Update"} -> "call"
                   [] ops[index].operation = "Construct" -> "stored"
                   [] OTHER -> "other_definition")
           [] OTHER -> "before_control"

\* Fault: any field read just before an acquisition explains it.
RcReasonAnyRead(ops, index, value) ==
    IF index > 1 /\ ops[index - 1].kind = "DefineValue" /\ ops[index - 1].operation = "ReadRecordField"
    THEN "projection"
    ELSE RcReasonBeforeDefinition(ops, index + 1)

RcReason(ops, index, value) ==
    IF /\ index > 1 /\ ops[index - 1].kind = "DefineValue"
       /\ ops[index - 1].operation = "ReadRecordField" /\ ops[index - 1].id = value
    THEN "projection"
    ELSE RcReasonBeforeDefinition(ops, index + 1)

RcSourceName(source) ==
    CASE source.kind = "ParameterBorrow" -> "parameter"
      [] source.kind = "OwnerBorrow" -> "owner"
      [] source.kind = "PayloadBorrow" -> "payload"

RECURSIVE RcDropsOwnerAfter(_, _, _, _)
RcDropsOwnerAfter(ops, index, owner, definitions_left) ==
    /\ index <= Len(ops)
    /\ CASE ops[index].kind = "DropOwner" ->
                ops[index].owner = owner \/ RcDropsOwnerAfter(ops, index + 1, owner, definitions_left)
         [] ops[index].kind = "AcquireOwner" -> RcDropsOwnerAfter(ops, index + 1, owner, definitions_left)
         [] ops[index].kind = "DefineValue" ->
                definitions_left > 0 /\ RcDropsOwnerAfter(ops, index + 1, owner, definitions_left - 1)
         [] OTHER -> FALSE

\* Fault: a definition between the acquisition and the drop ends the search.
RECURSIVE RcPartnerReasonAdjacent(_, _, _, _)
RcPartnerReasonAdjacent(ops, index, owner, definitions_left) ==
    IF index < 1 THEN "none"
    ELSE CASE /\ ops[index].kind = "AcquireOwner" /\ ops[index].borrow.source = OwnerBorrow(owner) ->
                RcReason(ops, index, ops[index].borrow.value)
           [] ops[index].kind \in {"AcquireOwner", "DropOwner"} ->
                RcPartnerReasonAdjacent(ops, index - 1, owner, definitions_left)
           [] OTHER -> "none"

RECURSIVE RcPartnerReason(_, _, _, _)
RcPartnerReason(ops, index, owner, definitions_left) ==
    IF index < 1 THEN "none"
    ELSE CASE /\ ops[index].kind = "AcquireOwner" /\ ops[index].borrow.source = OwnerBorrow(owner) ->
                RcReason(ops, index, ops[index].borrow.value)
           [] ops[index].kind \in {"AcquireOwner", "DropOwner"} ->
                RcPartnerReason(ops, index - 1, owner, definitions_left)
           [] ops[index].kind = "DefineValue" /\ definitions_left > 0 ->
                RcPartnerReason(ops, index - 1, owner, definitions_left - 1)
           [] OTHER -> "none"

RcAcquirePair(ops, index, source) ==
    IF source.kind = "OwnerBorrow" /\ RcDropsOwnerAfter(ops, index + 1, source.owner, 1) THEN "pair" ELSE "solo"

RcDefinitionKind(operation) ==
    CASE operation \in {"Parameter", "OwnedParameter"} -> "parameter"
      [] operation \in {"Call", "Update"} -> "call_result"
      [] operation = "Construct" -> "constructed"
      [] operation = "ListSuffix" -> "list_suffix"
      [] operation = "String" -> "string_literal"
      [] OTHER -> "other"

MarkA(owner, reason, source, pair) ==
    [mark |-> "A", owner |-> owner, reason |-> reason, source |-> RcSourceName(source), pair |-> pair]

MarkD(owner, partner) == [mark |-> "D", owner |-> owner, partner |-> partner]

MarkK(owner, kind) == [mark |-> "K", owner |-> owner, kind |-> kind]

\* rc_marked, on the acquisition or drop at a position of its operation list.
RcMarked(ops, index) ==
    IF ops[index].kind = "AcquireOwner"
    THEN MarkA(ops[index].owner, RcReason(ops, index, ops[index].borrow.value), ops[index].borrow.source,
               RcAcquirePair(ops, index, ops[index].borrow.source))
    ELSE MarkD(ops[index].owner, RcPartnerReason(ops, index - 1, ops[index].owner, 1))

\* Fault: the owner that a join makes is not marked.
MarkersInJoinUnmarked(ops, index) ==
    CASE ops[index].kind \in {"AcquireOwner", "DropOwner"} -> <<RcMarked(ops, index)>>
      [] ops[index].kind = "DefineValue" ->
            IF ops[index].owner = 0 THEN <<>>
            ELSE <<MarkK(ops[index].owner, RcDefinitionKind(ops[index].operation))>>
      [] OTHER -> <<>>

\* The markers in the text of an operation.  A join's arm that reads none of
\* the entering owners drops them in an operation list of its own; a loop
\* marks its entry acquisitions itself, and its output like an input.
MarkersIn(ops, index) ==
    CASE ops[index].kind \in {"AcquireOwner", "DropOwner"} -> <<RcMarked(ops, index)>>
      [] ops[index].kind = "DefineValue" ->
            IF ops[index].owner = 0 THEN <<>>
            ELSE <<MarkK(ops[index].owner, RcDefinitionKind(ops[index].operation))>>
      [] ops[index].kind = "ExecuteJoin" ->
            LET entering == SetToSortSeq(ops[index].takes, <)
                arm == [k \in DOMAIN entering |-> [kind |-> "DropOwner", owner |-> entering[k]]]
            IN  [k \in DOMAIN arm |-> RcMarked(arm, k)] \o <<MarkK(ops[index].owner, "join_output")>>
      [] ops[index].kind = "ExecuteLoop" ->
            [k \in DOMAIN ops[index].entry |->
                MarkA(ops[index].entry[k].owner, "loop_entry", ops[index].entry[k].borrow.source, "solo")]
            \o <<MarkK(ops[index].owner, "input_owner")>>

\* Emit writes the function's text: what made the entering owners, the arm's
\* inputs, then the block.
Emit ==
    /\ position = End + 1 /\ markers = <<>>
    /\ markers' = [o \in 1 .. program.entering |-> MarkK(o, "call_result")]
                    \o [k \in 1 .. program.inputs |-> MarkK(program.entering + k, "input_owner")]
                    \o FlattenSeq([i \in DOMAIN operations |-> MarkersIn(operations, i)])
    /\ UNCHANGED <<vars, tagged>>

-----------------------------------------------------------------------------
(* region_tags.                                                            *)

\* The origins that markers give an owner: none stops the script.
OriginsOf(marks, owner) ==
    {marks[i].reason : i \in {j \in DOMAIN marks : marks[j].mark = "A" /\ marks[j].owner = owner}}
    \cup {marks[i].kind : i \in {j \in DOMAIN marks : marks[j].mark = "K" /\ marks[j].owner = owner}}

\* Fault: the source of a projection's borrow is part of its category.
RegionTagWithSource(marks, mark) ==
    IF mark.mark = "A"
    THEN [name |-> <<"acquire", mark.reason, mark.source>>, pair |-> IF mark.pair = "pair" THEN "pair" ELSE ""]
    ELSE [name |-> <<"drop", CHOOSE o \in OriginsOf(marks, mark.owner) : TRUE>>,
          pair |-> IF mark.partner = "none" THEN "" ELSE mark.partner]

\* The category of the operation in a marker's region.
RegionTag(marks, mark) ==
    IF mark.mark = "A"
    THEN [name |-> IF mark.reason = "projection" THEN <<"acquire", "projection">>
                   ELSE <<"acquire", mark.reason, mark.source>>,
          pair |-> IF mark.pair = "pair" THEN "pair" ELSE ""]
    ELSE [name |-> <<"drop", CHOOSE o \in OriginsOf(marks, mark.owner) : TRUE>>,
          pair |-> IF mark.partner = "none" THEN "" ELSE mark.partner]

\* The rewritten block runs once: each region counts one operation, an
\* increment for an acquisition and a decrement for a drop.
Run ==
    LET regions == SelectSeq(markers, LAMBDA m : m.mark # "K")
    IN  /\ markers # <<>> /\ tagged = <<>>
        /\ \A i \in DOMAIN regions : regions[i].mark = "D" => OriginsOf(markers, regions[i].owner) # {}
        /\ tagged' = [i \in DOMAIN regions |-> [direction |-> IF regions[i].mark = "A" THEN "inc" ELSE "dec",
                                               category |-> RegionTag(markers, regions[i])]]
        /\ UNCHANGED <<vars, markers>>

MarkerInit == Init /\ markers = <<>> /\ tagged = <<>>

MarkerNext == (Next /\ UNCHANGED <<markers, tagged>>) \/ Emit \/ Run

MarkerSpec == MarkerInit /\ [][MarkerNext]_markerVars

-----------------------------------------------------------------------------
(* report.py.                                                              *)

PAIR_REASONS == {"stored", "block_end", "call", "loop_entry"}

\* The operations in the rows that satisfy Row, of those in the tagged counts.
Sum(Row(_)) == Cardinality({i \in DOMAIN tagged : Row(tagged[i])})

\* rc_pairs: the projection row, by direction.
ProjectionCell(direction) ==
    Sum(LAMBDA row : /\ row.direction = direction
                     /\ IF direction = "inc" THEN row.category = [name |-> <<"acquire", "projection">>, pair |-> ""]
                        ELSE IsPrefix(<<"drop", "projection">>, row.category.name))

\* rc_pairs: the row of move candidates of a reason, by direction.
PairCell(reason, direction) ==
    Sum(LAMBDA row : /\ row.direction = direction
                     /\ IF direction = "inc"
                        THEN Len(row.category.name) = 3 /\ row.category.name[2] = reason /\ row.category.pair = "pair"
                        ELSE row.category.pair = reason)

\* Acquisitions minus drops in the move-candidate pairs.
Mismatch ==
    Sum(LAMBDA row : row.direction = "inc" /\ row.category.pair = "pair")
        - MapThenSumSet(LAMBDA reason : PairCell(reason, "dec"), PAIR_REASONS)

\* rc_origins: the drops of owners of an origin.
OriginTotal(origin) == Sum(LAMBDA row : row.category.name = <<"drop", origin>>)

-----------------------------------------------------------------------------
(* Properties.                                                             *)

Emitted == markers # <<>>

\* How the text marks the operation at i, an acquisition or a drop.
MarkOf(i) ==
    markers[CHOOSE m \in DOMAIN markers :
                markers[m].owner = operations[i].owner
                    /\ markers[m].mark = IF operations[i].kind = "AcquireOwner" THEN "A" ELSE "D"]

AcquiredAt == {i \in DOMAIN operations : operations[i].kind = "AcquireOwner"}

DroppedAt == {i \in DOMAIN operations : operations[i].kind = "DropOwner"}

\* Only acquisitions, drops and at most one definition lie between i and j.
Near(i, j) ==
    /\ \A k \in i + 1 .. j - 1 : operations[k].kind \notin {"ExecuteJoin", "ExecuteLoop"}
    /\ Cardinality({k \in i + 1 .. j - 1 : operations[k].kind = "DefineValue"}) <= 1

\* The acquisitions from the owner that the operation at j drops, near before it.
PairedWith(j) ==
    {i \in AcquiredAt : i < j /\ operations[i].borrow.source = OwnerBorrow(operations[j].owner) /\ Near(i, j)}

\* The forward search from an acquisition and the backward search from a drop
\* see the same pairs, and a drop's partner is the reason of the last of its
\* acquisitions; so what the report counts on one side it finds on the other.
PairsAgree ==
    Emitted =>
        /\ \A j \in DroppedAt :
              MarkOf(j).partner = IF PairedWith(j) = {} THEN "none" ELSE MarkOf(Max(PairedWith(j))).reason
        /\ \A i \in AcquiredAt : MarkOf(i).pair = "pair" <=> \E j \in DroppedAt : i \in PairedWith(j)

\* The reason read from an acquisition's neighbours is the one for which
\* ownership inserted it, but for a value acquired directly after the field
\* read that made it, which is always filed as a projection.
ReasonsNameTheirStep ==
    Emitted => \A i \in AcquiredAt :
        LET reason == MarkOf(i).reason
        IN  \/ reason = operations[i].why
            \/ reason = "projection" /\ operations[i - 1].id = operations[i].borrow.value

\* Every drop, in the block or in a join's arm, names an owner that exactly
\* one marker of the function made, so region_tags finds its origin.
DropsHaveOneOrigin ==
    \A i \in DOMAIN markers : markers[i].mark = "D" => Cardinality(OriginsOf(markers, markers[i].owner)) = 1

\* The report accepts every category that insertion, markers and region_tags
\* can make: it has a group, the acquisitions filed as projections are all in
\* the projection row, which counts no more drops than acquisitions and the
\* same drops as the table of origins, and of the pairs no more drops than
\* acquisitions are counted under a reason; the printed difference is the number of further
\* acquisitions from the same owners.
ReportAccounts ==
    tagged # <<>> =>
        /\ \A i \in DOMAIN tagged : GroupsOf(tagged[i].category.name) # {}
        /\ ProjectionCell("inc") = Cardinality({i \in AcquiredAt : MarkOf(i).reason = "projection"})
        /\ OriginTotal("projection") = ProjectionCell("dec") /\ ProjectionCell("dec") <= ProjectionCell("inc")
        /\ \A reason \in PAIR_REASONS : PairCell(reason, "dec") <= PairCell(reason, "inc")
        /\ Mismatch = Cardinality({i \in AcquiredAt : \E j \in DroppedAt : i \in PairedWith(j)})
                        - Cardinality({j \in DroppedAt : PairedWith(j) # {}})

=============================================================================
