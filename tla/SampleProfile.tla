---------------------------- MODULE SampleProfile ----------------------------
(***************************************************************************)
(* report.py profile: `sample` watches the running compiler, prints its    *)
(* call graph depth first and the frames most often on top of the stack,   *)
(* and the report adds up inclusive samples by function and top-of-stack   *)
(* samples by class.                                                       *)
(*                                                                         *)
(* A frame is a call site; the frames of one function share a symbol, and  *)
(* the instances of one generic function share a label.                    *)
(***************************************************************************)
EXTENDS Naturals, Sequences, SequencesExt, FiniteSetsExt

CONSTANTS
    FrameAt,        \* call sites
    SymbolOf,       \* the symbol of a call site's function
    LabelOf,        \* the module.function comment of a symbol
    ClassOf,        \* the first class whose pattern matches a label, or "other"
    MinListed,      \* `sample` lists frames with at least so many samples
    MaxSamples,     \* bound: samples taken
    MaxStack        \* bound: depth of the sampled stacks

Symbols == {SymbolOf[f] : f \in FrameAt}

Labels == {LabelOf[s] : s \in Symbols}

Stacks == UNION {[1 .. n -> FrameAt] : n \in 1 .. MaxStack}

VARIABLES
    samples,    \* the sampled stacks, outermost frame first
    printed,    \* nodes of the call graph printed so far
    last,       \* the last of them
    stack,      \* inclusive_samples: open frames, with their indentation
    inclusive,  \* inclusive_samples: samples by symbol
    phase       \* "sample", "print", "done"

vars == <<samples, printed, last, stack, inclusive, phase>>

Init ==
    /\ samples = <<>>
    /\ printed = {} /\ last = <<>>
    /\ stack = <<>>
    /\ inclusive = [s \in Symbols |-> 0]
    /\ phase = "sample"

Sample(path) ==
    /\ phase = "sample" /\ Len(samples) < MaxSamples
    /\ samples' = Append(samples, path)
    /\ UNCHANGED <<printed, last, stack, inclusive, phase>>

Stop ==
    /\ phase = "sample" /\ samples # <<>>
    /\ phase' = "print"
    /\ UNCHANGED <<samples, printed, last, stack, inclusive>>

-----------------------------------------------------------------------------
(* What `sample` prints.                                                   *)

\* The nodes of the call graph: the beginnings of the sampled stacks.
Nodes == UNION {{SubSeq(path, 1, n) : n \in 1 .. Len(path)} : path \in Range(samples)}

CountAt(node) == Cardinality({i \in DOMAIN samples : IsPrefix(node, samples[i])})

\* Depth first: a child of the innermost open node that has one left.
PrintedNext(node) ==
    LET waiting == {n \in Nodes \ printed : IsPrefix(Front(n), last)}
    IN  node \in waiting /\ \A n \in waiting : Len(n) <= Len(node)

-----------------------------------------------------------------------------
(* inclusive_samples.                                                      *)


\* The frames still open above a line: the others are popped from the end.
OpenAbove(indent) == SelectSeq(stack, LAMBDA entry : entry.indent < indent)

\* One line of the call graph is printed, and read.
ReadLine(node) ==
    /\ phase = "print" /\ PrintedNext(node)
    /\ LET symbol == SymbolOf[Last(node)]
           open == OpenAbove(Len(node))
       IN  /\ inclusive' = IF \E i \in DOMAIN open : open[i].symbol = symbol
                           THEN inclusive
                           ELSE [inclusive EXCEPT ![symbol] = @ + CountAt(node)]
           /\ stack' = Append(open, [indent |-> Len(node), symbol |-> symbol])
    /\ printed' = printed \cup {node}
    /\ last' = node
    /\ UNCHANGED <<samples, phase>>

Finish ==
    /\ phase = "print" /\ printed = Nodes
    /\ phase' = "done"
    /\ UNCHANGED <<samples, printed, last, stack, inclusive>>

Next ==
    \/ \E path \in Stacks : Sample(path)
    \/ Stop
    \/ \E node \in Nodes : ReadLine(node)
    \/ Finish

Spec == Init /\ [][Next]_vars

-----------------------------------------------------------------------------
(* profile.                                                                *)

\* The "Top Blorp functions, inclusive" table.
InclusiveOf(label) ==
    MapThenSumSet(LAMBDA s : inclusive[s], {s \in Symbols : LabelOf[s] = label})

OnTop(symbol) == Cardinality({i \in DOMAIN samples : SymbolOf[Last(samples[i])] = symbol})

Listed == {s \in Symbols : OnTop(s) >= MinListed}

\* The "Top-of-stack shares" table.
SamplesOf(class) ==
    MapThenSumSet(OnTop, {s \in Listed : ClassOf[LabelOf[s]] = class})

Classes == {ClassOf[l] : l \in Labels} \cup {"other"}

-----------------------------------------------------------------------------
(* Properties.                                                             *)

\* A function's inclusive samples are the samples with the function on the
\* stack, each once: recursion at any depth, through other functions and at
\* other call sites does not count twice, and no branch of the graph is lost.
InclusiveIsExact ==
    phase = "done" =>
        \A s \in Symbols :
            inclusive[s] = Cardinality({i \in DOMAIN samples :
                                            \E n \in DOMAIN samples[i] : SymbolOf[samples[i][n]] = s})

OnStackOf(label) ==
    {i \in DOMAIN samples : \E n \in DOMAIN samples[i] : LabelOf[SymbolOf[samples[i][n]]] = label}

\* Two instances of the label's function are on one sampled stack.
Nested(label) ==
    \E i \in DOMAIN samples :
        Cardinality({SymbolOf[f] : f \in Range(samples[i])} \cap {s \in Symbols : LabelOf[s] = label}) > 1

\* A row of the inclusive table misses no sample of its label's function, and
\* counts each once unless instances of the function call each other: the
\* reader recognises recursion by symbol, and each instance has its own.
LabelsAddUp ==
    phase = "done" =>
        \A label \in Labels :
            /\ InclusiveOf(label) >= Cardinality(OnStackOf(label))
            /\ ~Nested(label) => InclusiveOf(label) = Cardinality(OnStackOf(label))

\* "every class is a lower bound": a class never has more samples than there
\* are with a frame of the class on top, and has them all when every such
\* frame is listed.
ClassesAreLowerBounds ==
    phase = "done" =>
        \A class \in Classes :
            LET members == {s \in Symbols : ClassOf[LabelOf[s]] = class}
                topped  == {i \in DOMAIN samples : SymbolOf[Last(samples[i])] \in members}
            IN  /\ SamplesOf(class) <= Cardinality(topped)
                /\ (\A i \in topped : SymbolOf[Last(samples[i])] \in Listed)
                      => SamplesOf(class) = Cardinality(topped)

=============================================================================
