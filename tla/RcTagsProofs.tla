---------------------------- MODULE RcTagsProofs ----------------------------
(***************************************************************************)
(* Proofs about the tags of the program that instrument_rc.py --tagged     *)
(* makes, for every source, every order of calls and every depth: an       *)
(* operation counts under the category that its call documents, and under  *)
(* the innermost compiled function.                                        *)
(*                                                                         *)
(* Both rest on what the frames above the innermost compiled function have *)
(* in common.  None of them calls a compiled function, so they agree with  *)
(* each other, and with the tag, on the function; a helper without an      *)
(* operation of its own has saved a tag that agrees as well.               *)
(***************************************************************************)
EXTENDS RcTags, SequenceTheorems, TLAPS

-----------------------------------------------------------------------------
(* Tags are pairs.                                                         *)

\* A function number and a category number are read back from their tag.
LEMMA TagParts ==
    ASSUME NEW L \in Nat \ {0}, NEW n \in Nat, NEW c \in 0 .. L - 1
    PROVE  /\ n * L + c \in Nat
           /\ (n * L + c) \div L = n
           /\ (n * L + c) % L = c
<1> DEFINE t == n * L + c
           d == t \div L
           m == t % L
<1>1. n * L \in Nat
  OBVIOUS
<1>2. t \in Nat
  BY <1>1
<1>3. d \in Nat /\ m \in 0 .. L - 1 /\ t = d * L + m
  <2> HIDE DEF t
  <2> QED
    BY <1>2
<1>4. n * L + c = d * L + m
  BY <1>3
<1> HIDE DEF d, m
<1>5. ~(n < d)
  <2> SUFFICES ASSUME n < d PROVE FALSE
    OBVIOUS
  <2>1. (d - n - 1) * L >= 0
    BY <1>3
  <2>2. (d - n - 1) * L = d * L - n * L - L
    BY <1>3
  <2> QED
    BY <1>1, <1>3, <1>4, <2>1, <2>2
<1>6. ~(d < n)
  <2> SUFFICES ASSUME d < n PROVE FALSE
    OBVIOUS
  <2>1. (n - d - 1) * L >= 0
    BY <1>3
  <2>2. (n - d - 1) * L = n * L - d * L - L
    BY <1>3
  <2> QED
    BY <1>1, <1>3, <1>4, <2>1, <2>2
<1>7. d = n
  BY <1>3, <1>5, <1>6
<1>8. m = c
  BY <1>1, <1>3, <1>4, <1>7
<1> QED
  BY <1>2, <1>7, <1>8 DEF d, m

\* A tag is its function number and its category number.
LEMMA TagSplits ==
    ASSUME NEW L \in Nat \ {0}, NEW t \in Nat
    PROVE  /\ t \div L \in Nat /\ t % L \in 0 .. L - 1
           /\ t - (t % L) = (t \div L) * L
OBVIOUS

Category == 0 .. CategoryLimit - 1

\* What Pack puts into a tag.
LEMMA PackParts ==
    ASSUME NEW n \in Nat, NEW c \in Category
    PROVE  /\ Pack(n, c) \in Nat
           /\ Pack(n, c) \div CategoryLimit = n
           /\ Pack(n, c) % CategoryLimit = c
BY BitsAssumption, TagParts DEF Pack, Category

\* Writing a category into a tag leaves the function alone.
LEMMA WithCategoryParts ==
    ASSUME NEW t \in Nat, NEW c \in Category
    PROVE  /\ WithCategory(t, c) \in Nat
           /\ WithCategory(t, c) \div CategoryLimit = t \div CategoryLimit
           /\ WithCategory(t, c) % CategoryLimit = c
<1>1. t \div CategoryLimit \in Nat /\ t - (t % CategoryLimit) = (t \div CategoryLimit) * CategoryLimit
  BY BitsAssumption, TagSplits
<1>2. WithCategory(t, c) = Pack(t \div CategoryLimit, c)
  BY <1>1 DEF WithCategory, Pack
<1> QED
  BY <1>1, <1>2, PackParts

-----------------------------------------------------------------------------
(* The inductive invariant.                                                *)

Pieces == UNION {Elements(source) : source \in Programs}

Fun == {<<"main", 0>>} \cup {piece.fun : piece \in Pieces}

Name == {<<"untagged">>, <<>>, <<"cascade", "union">>} \cup {CategoryOf(piece) : piece \in Pieces}

FrameSet ==
    [fun : Fun, saved : Nat, ready : BOOLEAN, first : BOOLEAN, due : Name, caller : Nat, tagged : BOOLEAN]

Types ==
    /\ program \in Programs
    /\ phase \in {"rewrite", "run", "failed"}
    /\ names \in Seq(Name)
    /\ code \in Seq(Category) /\ Len(code) <= Len(program)
    /\ tag \in Nat
    /\ stack \in Seq(FrameSet)
    /\ phase = "run" => Len(code) = Len(program)
    /\ phase # "run" => stack = <<>>

\* What Categories.number has written is the number of the piece's category.
Named ==
    \A p \in DOMAIN code :
        program[p].fun[1] \in Numbered =>
            /\ code[p] + 1 \in DOMAIN names
            /\ names[code[p] + 1] = CategoryOf(program[p])

\* A runtime frame: neither of a compiled function nor of main.
Runtime(frame) == frame.fun[1] \notin {"user", "main"}

\* Each frame by itself, when the tag is t.
FrameOK(frame, t) ==
    /\ frame.ready => Runtime(frame)
    /\ frame.fun[1] = "user" => frame.caller = frame.fun[2] /\ frame.tagged
    /\ frame.fun[1] = "main" => ~frame.tagged
    /\ frame.fun[1] = "inline" =>
          /\ names[(frame.saved % CategoryLimit) + 1] = frame.due
          /\ frame.tagged => frame.saved \div CategoryLimit = frame.caller
    /\ Runtime(frame) /\ frame.tagged => t \div CategoryLimit = frame.caller

\* The frame behind another one.
Follows(frame, next) ==
    /\ ~frame.ready
    /\ Runtime(frame) => Runtime(next) /\ next.tagged = frame.tagged /\ next.caller = frame.caller

FramesOK ==
    /\ \A i \in DOMAIN stack : FrameOK(stack[i], tag)
    /\ \A i, j \in DOMAIN stack : i < j => Follows(stack[i], stack[j])

ReadyIsDue ==
    stack # <<>> /\ Top.ready /\ Top.first => CategoryCounted = IF ByAdapter THEN <<"runtime_other">> ELSE Top.due

TagInv == Types /\ Named /\ FramesOK /\ ReadyIsDue

-----------------------------------------------------------------------------

\* Who may call whom: only compiled functions and main call compiled functions
\* and other runtime functions, and whatever calls a helper sets the tag.
LEMMA Callers ==
    ASSUME NEW class, NEW callee \in MayCall(class)
    PROVE  /\ callee # "main"
           /\ class \notin {"user", "main"} => callee \notin {"user", "other"}
           /\ class = "user" => callee \in Helper \cup {"user", "list_runtime", "string_runtime", "other"}
           /\ callee \in Helper => class \in Numbered \cup {"inline"}
           /\ class = "adapter" => callee # "inline"
<1>1. CASE class = "user"
  BY <1>1 DEF MayCall, Helper, Numbered
<1>2. CASE class = "list_runtime"
  BY <1>2 DEF MayCall, Helper, Numbered
<1>3. CASE class = "string_runtime"
  BY <1>3 DEF MayCall, Helper, Numbered
<1>4. CASE class = "inline"
  BY <1>4 DEF MayCall, Helper, Numbered
<1>5. CASE class = "drop"
  BY <1>5 DEF MayCall, Helper, Numbered
<1>6. CASE class = "callable"
  BY <1>6 DEF MayCall, Helper, Numbered
<1>7. CASE class = "adapter"
  BY <1>7 DEF MayCall, Helper, Numbered
<1>8. CASE class = "other"
  BY <1>8 DEF MayCall, Helper, Numbered
<1>9. CASE class = "main"
  BY <1>9 DEF MayCall, Helper, Numbered
<1>10. CASE class \notin {"user", "list_runtime", "string_runtime", "inline", "drop", "callable", "adapter",
                          "other", "main"}
  BY <1>10 DEF MayCall
<1> QED
  BY <1>1, <1>2, <1>3, <1>4, <1>5, <1>6, <1>7, <1>8, <1>9, <1>10

\* A piece of the program, and the number written into it.
LEMMA PieceTypes ==
    ASSUME Types, NEW p \in DOMAIN program
    PROVE  /\ program[p].fun \in Fun
           /\ CategoryOf(program[p]) \in Name
           /\ program[p].fun[1] = "user" => program[p].fun[2] \in Nat
           /\ phase = "run" => p \in DOMAIN code /\ code[p] \in Category
<1>1. program \in Programs /\ program[p] \in Elements(program)
  BY DEF Types, Elements
<1>2. program[p] \in Pieces
  BY <1>1 DEF Pieces
<1>3. program \in Seq(Elements(program))
  BY <1>1, ProgramsAssumption
<1>4. ASSUME phase = "run" PROVE p \in DOMAIN code /\ code[p] \in Category
  <2>1. code \in Seq(Category) /\ Len(code) = Len(program)
    BY <1>4 DEF Types
  <2>2. p \in DOMAIN code
    BY <1>3, <2>1
  <2> QED
    BY <2>1, <2>2
<1>5. program[p].fun[1] = "user" => program[p].fun[2] \in Nat
  BY <1>1, ProgramsAssumption
<1> QED
  BY <1>2, <1>4, <1>5 DEF Fun, Name

\* The tag that a call sets: for a helper, the category that the documentation
\* gives to the call, or runtime_other behind an adapter; and the function of the compiled caller, or the one it had.
LEMMA CallTag ==
    ASSUME Types, Named, phase = "run", NEW frame \in FrameSet, FrameOK(frame, tag),
           NEW p \in DOMAIN program, program[p].fun = frame.fun,
           NEW g, g[1] \in MayCall(frame.fun[1]),
           NEW t, t = TagForCall(frame, p, g)
    PROVE  /\ t \in Nat
           /\ g[1] \in Helper =>
                names[(t % CategoryLimit) + 1] = IF frame.fun[1] = "adapter" THEN <<"runtime_other">> ELSE Due(frame, p)
           /\ Runtime(frame) /\ frame.tagged => t \div CategoryLimit = frame.caller
           /\ frame.fun[1] = "user" /\ g[1] \in Helper \cup {"list_runtime", "string_runtime"}
                => t \div CategoryLimit = frame.caller
<1> DEFINE class == frame.fun[1]
<1>1. tag \in Nat /\ p \in DOMAIN code /\ code[p] \in Category
  BY PieceTypes DEF Types
<1>2. class \in Numbered => names[code[p] + 1] = CategoryOf(program[p])
  BY <1>1 DEF Named
<1>3. 0 \in Category
  BY BitsAssumption DEF Category
<1>4. frame.saved \in Nat
  BY DEF FrameSet
<1>5. CASE class = "user"
  <2>1. frame.fun[2] \in Nat /\ frame.caller = frame.fun[2] /\ ~Runtime(frame)
    BY <1>5, PieceTypes DEF FrameOK, Runtime
  <2>2. CASE g[1] \in Helper
    <3>1. t = Pack(frame.fun[2], code[p])
      BY <1>5, <2>2 DEF TagForCall, Helper
    <3>2. Due(frame, p) = CategoryOf(program[p]) /\ class \in Numbered /\ class # "adapter"
      BY <1>5 DEF Due, Numbered
    <3>3. names[code[p] + 1] = Due(frame, p)
      BY <1>2, <3>2
    <3>4. /\ Pack(frame.fun[2], code[p]) \in Nat
          /\ Pack(frame.fun[2], code[p]) \div CategoryLimit = frame.fun[2]
          /\ Pack(frame.fun[2], code[p]) % CategoryLimit = code[p]
      BY <1>1, <2>1, PackParts
    <3> QED
      BY <2>1, <3>1, <3>2, <3>3, <3>4
  <2>3. CASE g[1] \in {"list_runtime", "string_runtime"}
    <3>1. t = Pack(frame.fun[2], 0) /\ g[1] \notin Helper
      BY <1>5, <2>3 DEF TagForCall, Helper
    <3> QED
      BY <1>3, <2>1, <3>1, PackParts
  <2>4. CASE g[1] \notin Helper \cup {"list_runtime", "string_runtime"}
    <3>1. t = tag
      BY <1>5, <2>4 DEF TagForCall
    <3> QED
      BY <1>1, <2>1, <2>4, <3>1
  <2> QED
    BY <2>2, <2>3, <2>4
<1>6. CASE class = "inline"
  <2>1. t = frame.saved /\ Due(frame, p) = frame.due
    BY <1>6 DEF TagForCall, Due, Numbered
  <2> QED
    BY <1>4, <1>6, <2>1 DEF FrameOK
<1>7. CASE class \notin {"user", "inline"} /\ g[1] \in Helper
  <2>1. class \in Numbered \ {"user"}
    BY <1>7, Callers
  <2>2. t = WithCategory(tag, code[p])
    BY <1>7, <2>1 DEF TagForCall
  <2>3. CategoryOf(program[p]) = IF class = "adapter" THEN <<"runtime_other">> ELSE Due(frame, p)
    BY <1>7, <2>1 DEF Due, Numbered, CategoryOf
  <2>4. Runtime(frame) /\ frame.tagged => tag \div CategoryLimit = frame.caller
    BY DEF FrameOK
  <2> QED
    BY <1>1, <1>2, <1>7, <2>1, <2>2, <2>3, <2>4, WithCategoryParts
<1>8. CASE class \notin {"user", "inline"} /\ g[1] \notin Helper
  <2>1. t = tag
    BY <1>8 DEF TagForCall
  <2> QED
    BY <1>1, <1>8, <2>1 DEF FrameOK
<1> QED
  BY <1>5, <1>6, <1>7, <1>8

\* The frame of a call.
LEMMA NewFrame ==
    ASSUME NEW g \in Fun, NEW saved \in Nat, NEW due \in Name, NEW caller \in Nat, NEW tagged \in BOOLEAN
    PROVE  /\ Frame(g, saved, due, caller, tagged) \in FrameSet
           /\ Frame(g, saved, due, caller, tagged).fun = g
           /\ Frame(g, saved, due, caller, tagged).caller = caller
           /\ Frame(g, saved, due, caller, tagged).tagged = tagged
           /\ g[1] = "inline" => Frame(g, saved, due, caller, tagged).saved = saved
           /\ g[1] \in Helper => Frame(g, saved, due, caller, tagged).due = due
           /\ Frame(g, saved, due, caller, tagged).ready = (g[1] \in Atomic)
<1>1. <<>> \in Name
  BY DEF Name
<1> QED
  BY <1>1 DEF Frame, FrameSet

-----------------------------------------------------------------------------
(* The script.                                                             *)

\* No program runs before the script has ended.
LEMMA InitHolds == Init => TagInv
<1> SUFFICES ASSUME Init PROVE TagInv
  OBVIOUS
<1>1. names \in Seq(Name)
  BY DEF Init, Name
<1>2. Len(program) \in Nat
  BY ProgramsAssumption DEF Init
<1>3. Types
  BY <1>1, <1>2 DEF Init, Types
<1> QED
  BY <1>3 DEF Init, TagInv, Named, FramesOK, ReadyIsDue

\* The number that a category gets names it, and numbers given before keep
\* their names.
LEMMA NumberNames ==
    ASSUME Types, NEW name \in Name, Number(name)
    PROVE  /\ names' \in Seq(Name)
           /\ \A i \in DOMAIN names : i \in DOMAIN names' /\ names'[i] = names[i]
           /\ \/ phase' = "failed" /\ code' = code
              \/ /\ phase' = phase
                 /\ \E c \in Category : /\ code' = Append(code, c)
                                        /\ c + 1 \in DOMAIN names' /\ names'[c + 1] = name
<1> DEFINE found == {i \in DOMAIN names : names[i] = name}
           more == IF found = {} THEN Append(names, name) ELSE names
           c == IF found = {} THEN Len(names) ELSE (CHOOSE i \in found : TRUE) - 1
<1>1. names \in Seq(Name) /\ Len(names) \in Nat /\ DOMAIN names = 1 .. Len(names)
  BY DEF Types
<1>2. names' = more
  BY DEF Number
<1>3. more \in Seq(Name) /\ \A i \in DOMAIN names : i \in DOMAIN more /\ more[i] = names[i]
  BY <1>1
<1>4. CASE Len(more) > CategoryLimit
  <2>1. phase' = "failed" /\ code' = code
    BY <1>4 DEF Number
  <2> QED
    BY <1>2, <1>3, <2>1
<1>5. CASE ~(Len(more) > CategoryLimit)
  <2>1. phase' = phase /\ code' = Append(code, c)
    BY <1>5 DEF Number
  <2>2. c \in Category /\ c + 1 \in DOMAIN more /\ more[c + 1] = name
    <3>1. CASE found = {}
      <4>1. more = Append(names, name) /\ c = Len(names)
        BY <3>1
      <4> HIDE DEF more, c
      <4>2. Len(more) = Len(names) + 1 /\ more[Len(names) + 1] = name /\ DOMAIN more = 1 .. Len(names) + 1
        BY <1>1, <4>1
      <4> QED
        BY <1>1, <1>5, <4>1, <4>2, BitsAssumption DEF Category
    <3>2. CASE found # {}
      <4> DEFINE i == CHOOSE j \in found : TRUE
      <4>1. i \in found
        BY <3>2
      <4>2. i \in 1 .. Len(names) /\ names[i] = name
        BY <1>1, <4>1
      <4>3. more = names /\ c = i - 1
        BY <3>2
      <4> HIDE DEF i, more, c
      <4> QED
        BY <1>1, <1>5, <4>2, <4>3, BitsAssumption DEF Category
    <3> QED
      BY <3>1, <3>2
  <2> HIDE DEF c, more
  <2> QED
    BY <1>2, <1>3, <2>1, <2>2
<1> QED
  BY <1>4, <1>5

\* rewrite_tagged on one more piece.
LEMMA RewriteKeeps ==
    ASSUME TagInv, Rewrite
    PROVE  TagInv'
<1> DEFINE n == Len(code) + 1
<1>1. Types /\ Named
  BY DEF TagInv
<1>2. /\ phase = "rewrite" /\ stack = <<>> /\ Len(code) < Len(program)
      /\ program' = program /\ tag' = tag /\ stack' = stack
      /\ code \in Seq(Category) /\ names \in Seq(Name) /\ program \in Programs /\ tag \in Nat
  BY <1>1 DEF Rewrite, Types
<1>3. program \in Seq(Elements(program))
  BY <1>2, ProgramsAssumption
<1>4. Len(code) \in Nat /\ DOMAIN code = 1 .. Len(code) /\ n \in DOMAIN program
  BY <1>2, <1>3
<1>5. Len(program) \in Nat
  BY <1>3
<1>6. /\ names' \in Seq(Name)
      /\ \A i \in DOMAIN names : i \in DOMAIN names' /\ names'[i] = names[i]
      /\ \/ phase' = "failed" /\ code' = code
         \/ /\ phase' = phase
            /\ \E c \in Category :
                  /\ code' = Append(code, c)
                  /\ program[n].fun[1] \in Numbered =>
                        c + 1 \in DOMAIN names' /\ names'[c + 1] = CategoryOf(program[n])
  <2>1. CASE program[n].fun[1] \in Numbered
    <3>1. Number(CategoryOf(program[n]))
      BY <2>1 DEF Rewrite
    <3>2. CategoryOf(program[n]) \in Name
      BY <1>1, <1>4, PieceTypes
    <3> HIDE DEF n
    <3> QED
      BY <1>1, <3>1, <3>2, NumberNames
  <2>2. CASE program[n].fun[1] \notin Numbered
    <3>1. code' = Append(code, 0) /\ names' = names /\ phase' = phase
      BY <2>2 DEF Rewrite
    <3>2. 0 \in Category
      BY BitsAssumption DEF Category
    <3> HIDE DEF n
    <3> QED
      BY <1>2, <2>2, <3>1, <3>2
  <2> QED
    BY <2>1, <2>2
<1>7. CASE phase' = "failed" /\ code' = code
  <2>1. Types'
    BY <1>1, <1>2, <1>6, <1>7 DEF Types
  <2>2. Named'
    BY <1>1, <1>2, <1>6, <1>7 DEF Named
  <2>3. FramesOK' /\ ReadyIsDue'
    BY <1>2 DEF FramesOK, ReadyIsDue
  <2> QED
    BY <2>1, <2>2, <2>3 DEF TagInv
<1>8. ASSUME NEW c \in Category, phase' = phase, code' = Append(code, c),
             program[n].fun[1] \in Numbered => c + 1 \in DOMAIN names' /\ names'[c + 1] = CategoryOf(program[n])
      PROVE  TagInv'
  <2>1. /\ code' \in Seq(Category) /\ Len(code') = n /\ DOMAIN code' = 1 .. n
        /\ code'[n] = c /\ \A p \in DOMAIN code : code'[p] = code[p]
    BY <1>2, <1>4, <1>8
  <2>2. Types'
    BY <1>1, <1>2, <1>4, <1>5, <1>6, <1>8, <2>1 DEF Types
  <2>3. ASSUME NEW p \in 1 .. n, program[p].fun[1] \in Numbered
        PROVE  code'[p] + 1 \in DOMAIN names' /\ names'[code'[p] + 1] = CategoryOf(program[p])
    <3>1. CASE p = n
      BY <1>8, <2>1, <2>3, <3>1
    <3>2. CASE p # n
      <4>1. p \in DOMAIN code
        BY <1>4, <3>2
      <4>2. code[p] + 1 \in DOMAIN names /\ names[code[p] + 1] = CategoryOf(program[p])
        BY <1>1, <2>3, <4>1 DEF Named
      <4> HIDE DEF n
      <4> QED
        BY <1>6, <2>1, <4>1, <4>2
    <3> QED
      BY <3>1, <3>2
  <2>4. Named'
    BY <1>2, <2>1, <2>3 DEF Named
  <2>5. FramesOK' /\ ReadyIsDue'
    BY <1>2 DEF FramesOK, ReadyIsDue
  <2> QED
    BY <2>2, <2>4, <2>5 DEF TagInv
<1> HIDE DEF n
<1> QED
  BY <1>6, <1>7, <1>8

-----------------------------------------------------------------------------
(* The program.                                                            *)

\* The program starts in main, which no compiled function has called.
LEMMA StartKeeps ==
    ASSUME TagInv, Start
    PROVE  TagInv'
<1> DEFINE f == Frame(<<"main", 0>>, 0, <<"untagged">>, 0, FALSE)
<1>1. Types /\ Named
  BY DEF TagInv
<1>2. /\ phase' = "run" /\ stack' = <<f>> /\ Len(code) = Len(program)
      /\ UNCHANGED <<program, names, code, tag>>
  BY DEF Start
<1>3. f \in FrameSet /\ f.fun = <<"main", 0>> /\ ~f.tagged /\ ~f.ready
  <2>1. <<"main", 0>> \in Fun /\ <<"untagged">> \in Name
    BY DEF Fun, Name
  <2>2. ~f.tagged /\ ~f.ready
    BY DEF Frame, Atomic
  <2> QED
    BY <2>1, <2>2, NewFrame
<1> HIDE DEF f
<1>4. stack' \in Seq(FrameSet) /\ DOMAIN stack' = {1} /\ stack'[1] = f /\ Len(stack') = 1
  BY <1>2, <1>3
<1>5. Types'
  BY <1>1, <1>2, <1>4 DEF Types
<1>6. Named'
  BY <1>1, <1>2 DEF Named
<1>7. FrameOK(f, tag)
  BY <1>3 DEF FrameOK, Runtime
<1>8. FramesOK'
  BY <1>2, <1>4, <1>7 DEF FramesOK, FrameOK
<1>9. ReadyIsDue'
  BY <1>3, <1>4 DEF ReadyIsDue, Top
<1> QED
  BY <1>5, <1>6, <1>8, <1>9 DEF TagInv

\* A call: the new frame agrees with the frames below it, and they with the
\* tag that the call sets.
LEMMA CallKeeps ==
    ASSUME TagInv, NEW p \in DOMAIN program, NEW q \in DOMAIN program, Call(p, q)
    PROVE  TagInv'
<1> DEFINE g == program[q].fun
           n == Len(stack)
           f == stack[n]
           due == Due(f, p)
           caller == Caller(f, g)
           tagged == g[1] = "user" \/ (f.tagged /\ g[1] # "other")
           h == Frame(g, tag', due, caller, tagged)
<1>1. Types /\ Named /\ FramesOK
  BY DEF TagInv
<1>2. /\ phase = "run" /\ stack # <<>> /\ program[p].fun = f.fun /\ ~f.ready
      /\ g[1] \in MayCall(f.fun[1])
      /\ tag' = TagForCall(f, p, g)
      /\ stack' = Append(stack, h)
      /\ UNCHANGED <<program, names, code, phase>>
  BY DEF Call, Top, MayCallFunction
<1>3. stack \in Seq(FrameSet) /\ n \in Nat /\ n \in DOMAIN stack /\ DOMAIN stack = 1 .. n /\ f \in FrameSet
  BY <1>1, <1>2 DEF Types
<1>4. FrameOK(f, tag)
  BY <1>1, <1>3 DEF FramesOK
<1>5. /\ tag' \in Nat
      /\ g[1] \in Helper =>
            names[(tag' % CategoryLimit) + 1] = IF f.fun[1] = "adapter" THEN <<"runtime_other">> ELSE due
      /\ Runtime(f) /\ f.tagged => tag' \div CategoryLimit = f.caller
      /\ f.fun[1] = "user" /\ g[1] \in Helper \cup {"list_runtime", "string_runtime"}
            => tag' \div CategoryLimit = f.caller
  <2> HIDE DEF f, g
  <2> QED
    BY <1>1, <1>2, <1>3, <1>4, CallTag DEF due
<1>6. /\ g[1] = "user" => g[2] \in Nat
      /\ CategoryOf(program[p]) \in Name
  BY <1>1, PieceTypes
<1>7. g \in Fun /\ due \in Name /\ caller \in Nat /\ tagged \in BOOLEAN
  <2>1. f.due \in Name /\ f.caller \in Nat
    BY <1>3 DEF FrameSet
  <2> HIDE DEF f
  <2>2. g \in Fun
    BY <1>1, PieceTypes
  <2> QED
    BY <1>1, <1>6, <2>1, <2>2, PieceTypes DEF Due, Caller
<1>8. /\ h \in FrameSet
      /\ h.fun = g
      /\ h.caller = caller
      /\ h.tagged = tagged
      /\ g[1] = "inline" => h.saved = tag'
      /\ g[1] \in Helper => h.due = due
  <2> HIDE DEF g, due, caller, tagged
  <2> QED
    BY <1>5, <1>7, NewFrame DEF h
<1>9. /\ g[1] # "main"
      /\ Runtime(f) => g[1] \notin {"user", "other"}
      /\ f.fun[1] = "user" => g[1] \in Helper \cup {"user", "list_runtime", "string_runtime", "other"}
      /\ f.fun[1] = "adapter" => g[1] # "inline"
  <2> HIDE DEF f, g
  <2> QED
    BY <1>2, Callers DEF Runtime
<1> HIDE DEF f, g, due, h
<1>10. Runtime(f) => Runtime(h) /\ h.tagged = f.tagged /\ h.caller = f.caller
  <2> SUFFICES ASSUME Runtime(f) PROVE Runtime(h) /\ h.tagged = f.tagged /\ h.caller = f.caller
    OBVIOUS
  <2>1. g[1] \notin {"user", "other", "main"}
    BY <1>9
  <2>2. h.caller = f.caller
    BY <1>8, <2>1 DEF Caller
  <2>3. tagged = f.tagged
    <3>1. f.tagged \in BOOLEAN
      BY <1>3 DEF FrameSet
    <3>2. tagged <=> f.tagged
      BY <2>1
    <3> QED
      BY <3>1, <3>2
  <2> QED
    BY <1>8, <2>1, <2>2, <2>3 DEF Runtime
<1>11. Runtime(h) /\ h.tagged => tag' \div CategoryLimit = h.caller
  <2> SUFFICES ASSUME Runtime(h), h.tagged PROVE tag' \div CategoryLimit = h.caller
    OBVIOUS
  <2>1. g[1] \notin {"user", "main"}
    BY <1>8 DEF Runtime
  <2>2. f.tagged /\ g[1] # "other"
    BY <1>8, <2>1
  <2>3. h.caller = f.caller
    BY <1>8, <2>1 DEF Caller
  <2>4. f.fun[1] # "main"
    BY <1>4, <2>2 DEF FrameOK
  <2>5. CASE Runtime(f)
    BY <1>5, <2>2, <2>3, <2>5
  <2>6. CASE f.fun[1] = "user"
    BY <1>5, <1>9, <2>1, <2>2, <2>3, <2>6
  <2> QED
    BY <2>4, <2>5, <2>6 DEF Runtime
<1>12. FrameOK(h, tag')
  <2>1. h.fun[1] = "user" => h.caller = h.fun[2] /\ h.tagged
    BY <1>8 DEF Caller
  <2>2. ASSUME h.fun[1] = "inline"
        PROVE  /\ names[(h.saved % CategoryLimit) + 1] = h.due
               /\ h.tagged => h.saved \div CategoryLimit = h.caller
    <3>1. g[1] = "inline" /\ g[1] \in Helper /\ Runtime(h)
      BY <1>8, <2>2 DEF Helper, Runtime
    <3> QED
      BY <1>5, <1>8, <1>9, <1>11, <3>1
  <2>3. h.ready => Runtime(h)
    <3>1. h.ready => g[1] \in Atomic
      BY DEF h, Frame
    <3> QED
      BY <1>8, <3>1 DEF Atomic, Runtime
  <2> QED
    BY <1>8, <1>9, <1>11, <2>1, <2>2, <2>3 DEF FrameOK
<1>13. ASSUME NEW i \in 1 .. n
       PROVE  /\ FrameOK(stack[i], tag')
              /\ Follows(stack[i], h)
  <2>1. FrameOK(stack[i], tag)
    BY <1>1, <1>3 DEF FramesOK
  <2>2. ~stack[i].ready /\ (Runtime(stack[i]) => Runtime(f) /\ f.tagged = stack[i].tagged /\ f.caller = stack[i].caller)
    <3>1. CASE i = n
      BY <1>2, <3>1 DEF f
    <3>2. CASE i # n
      <4> HIDE DEF n
      <4>1. i < n /\ i \in DOMAIN stack
        BY <1>3, <3>2
      <4>2. Follows(stack[i], f)
        BY <1>1, <1>3, <4>1 DEF FramesOK, f
      <4> QED
        BY <4>2 DEF Follows
    <3> QED
      BY <3>1, <3>2
  <2>3. Runtime(stack[i]) /\ stack[i].tagged => tag' \div CategoryLimit = stack[i].caller
    BY <1>5, <2>2
  <2> QED
    BY <1>10, <2>1, <2>2, <2>3 DEF FrameOK, Follows
<1>14. /\ stack' \in Seq(FrameSet) /\ Len(stack') = n + 1 /\ DOMAIN stack' = 1 .. n + 1
       /\ stack'[n + 1] = h /\ \A i \in 1 .. n : stack'[i] = stack[i]
  BY <1>2, <1>3, <1>8
<1>15. Types'
  BY <1>1, <1>2, <1>5, <1>14 DEF Types
<1>16. Named'
  BY <1>1, <1>2 DEF Named
<1>17. ASSUME NEW i \in DOMAIN stack' PROVE FrameOK(stack'[i], tag')
  BY <1>3, <1>12, <1>13, <1>14
<1>18. ASSUME NEW i \in DOMAIN stack', NEW j \in DOMAIN stack', i < j PROVE Follows(stack'[i], stack'[j])
  <2>1. i \in 1 .. n /\ stack'[i] = stack[i]
    BY <1>3, <1>14, <1>18
  <2>2. CASE j = n + 1
    BY <1>13, <1>14, <2>1, <2>2
  <2>3. CASE j # n + 1
    <3>1. j \in 1 .. n /\ stack'[j] = stack[j]
      BY <1>3, <1>14, <2>3
    <3> QED
      BY <1>1, <1>3, <1>18, <2>1, <3>1 DEF FramesOK
  <2> QED
    BY <2>2, <2>3
<1>19. FramesOK'
  BY <1>2, <1>17, <1>18 DEF FramesOK, FrameOK, Follows
<1>20. ReadyIsDue'
  <2>1. Top' = h /\ (ByAdapter' <=> f.fun[1] = "adapter")
    <3>1. n \in 1 .. n /\ (n + 1) - 1 = n /\ n + 1 > 1
      BY <1>3
    <3> QED
      BY <1>14, <3>1 DEF Top, ByAdapter, f
  <2>2. h.ready => g[1] \in Helper
    BY DEF h, Frame, Atomic, Helper
  <2> QED
    BY <1>2, <1>5, <1>8, <2>1, <2>2 DEF ReadyIsDue, CategoryCounted
<1> QED
  BY <1>15, <1>16, <1>19, <1>20 DEF TagInv

\* Counting, and going on with a child, change only whether the running frame
\* is about to count.
LEMMA TopChangeKeeps ==
    ASSUME TagInv, phase = "run", stack # <<>>, NEW x \in FrameSet,
           stack' = [stack EXCEPT ![Len(stack)] = x],
           x.fun = Top.fun, x.saved = Top.saved, x.fun[1] = "inline" => x.due = Top.due, x.caller = Top.caller, x.tagged = Top.tagged,
           ~(x.ready /\ x.first), x.ready => Runtime(x),
           UNCHANGED <<program, names, code, phase, tag>>
    PROVE  TagInv'
<1> DEFINE n == Len(stack)
<1>1. Types /\ Named /\ FramesOK
  BY DEF TagInv
<1>2. stack \in Seq(FrameSet) /\ n \in Nat /\ n \in DOMAIN stack /\ DOMAIN stack = 1 .. n
  BY <1>1 DEF Types
<1>3. /\ stack' \in Seq(FrameSet) /\ Len(stack') = n /\ DOMAIN stack' = 1 .. n
      /\ stack'[n] = x /\ \A i \in 1 .. n : i # n => stack'[i] = stack[i]
  <2>1. /\ stack' \in Seq(FrameSet) /\ Len(stack') = n
        /\ \A i \in 1 .. n : stack'[i] = IF i = n THEN x ELSE stack[i]
    BY <1>2, ExceptSeq
  <2> HIDE DEF n
  <2> QED
    BY <1>2, <2>1
<1>4. Types'
  BY <1>1, <1>3 DEF Types
<1>5. Named'
  BY <1>1 DEF Named
<1>6. ASSUME NEW i \in 1 .. n PROVE FrameOK(stack'[i], tag)
  <2>1. FrameOK(stack[i], tag)
    BY <1>1, <1>2 DEF FramesOK
  <2>2. CASE i = n
    BY <1>3, <2>1, <2>2 DEF FrameOK, Runtime, Top
  <2>3. CASE i # n
    BY <1>3, <2>1, <2>3
  <2> QED
    BY <2>2, <2>3
<1>7. ASSUME NEW i \in 1 .. n, NEW j \in 1 .. n, i < j PROVE Follows(stack'[i], stack'[j])
  <2>1. Follows(stack[i], stack[j])
    BY <1>1, <1>2, <1>7 DEF FramesOK
  <2>2. stack'[i] = stack[i]
    <3> HIDE DEF n
    <3> QED
      BY <1>2, <1>3, <1>7
  <2>3. CASE j = n
    BY <1>3, <2>1, <2>2, <2>3 DEF Follows, Runtime, Top
  <2>4. CASE j # n
    BY <1>3, <2>1, <2>2, <2>4
  <2> QED
    BY <2>3, <2>4
<1>8. FramesOK'
  <2> HIDE DEF n
  <2> QED
    BY <1>3, <1>6, <1>7 DEF FramesOK, FrameOK, Follows
<1>9. ReadyIsDue'
  BY <1>3 DEF ReadyIsDue, Top
<1> QED
  BY <1>4, <1>5, <1>8, <1>9 DEF TagInv

\* The atomic operation counts.
LEMMA CountKeeps ==
    ASSUME TagInv, Count
    PROVE  TagInv'
<1> DEFINE x == [Top EXCEPT !.ready = FALSE]
<1>1. /\ phase = "run" /\ stack # <<>> /\ UNCHANGED <<program, names, code, phase, tag>>
      /\ stack' = [stack EXCEPT ![Len(stack)] = x]
  BY DEF Count, Top
<1>2. Top \in FrameSet
  BY <1>1 DEF TagInv, Types, Top
<1>3. /\ x \in FrameSet /\ x.fun = Top.fun /\ x.saved = Top.saved /\ x.due = Top.due
      /\ x.caller = Top.caller /\ x.tagged = Top.tagged /\ ~x.ready
  BY <1>2 DEF FrameSet
<1> HIDE DEF x
<1> QED
  BY <1>1, <1>3, TopChangeKeeps

\* The release of a boxed union goes on with a child.
LEMMA NextNodeKeeps ==
    ASSUME TagInv, NextNode
    PROVE  TagInv'
<1> DEFINE x == [Top EXCEPT !.ready = TRUE, !.first = FALSE, !.due = <<"cascade", "union">>]
<1>1. /\ phase = "run" /\ stack # <<>> /\ UNCHANGED <<program, names, code, phase, tag>>
  BY DEF NextNode
<1>2. Top \in FrameSet
  BY <1>1 DEF TagInv, Types, Top
<1>3. stack' = [stack EXCEPT ![Len(stack)] = x]
  BY <1>1, <1>2 DEF NextNode, Top, TagInv, Types
<1>4. /\ x \in FrameSet /\ x.fun = Top.fun /\ x.saved = Top.saved
      /\ x.caller = Top.caller /\ x.tagged = Top.tagged /\ ~x.first
  BY <1>2 DEF FrameSet, Name
<1>5. Runtime(Top) /\ Top.fun[1] # "inline"
  BY DEF NextNode, Runtime
<1> HIDE DEF x
<1> QED
  BY <1>1, <1>3, <1>4, <1>5, TopChangeKeeps DEF Runtime

\* A return: the frame below was not about to count.
LEMMA ReturnKeeps ==
    ASSUME TagInv, Return
    PROVE  TagInv'
<1> DEFINE n == Len(stack)
<1>1. Types /\ Named /\ FramesOK
  BY DEF TagInv
<1>2. /\ phase = "run" /\ stack # <<>> /\ stack' = SubSeq(stack, 1, n - 1)
      /\ UNCHANGED <<program, names, code, phase, tag>>
  BY DEF Return
<1>3. stack \in Seq(FrameSet) /\ n \in Nat \ {0} /\ n \in DOMAIN stack /\ DOMAIN stack = 1 .. n
  BY <1>1, <1>2 DEF Types
<1>4. /\ stack' \in Seq(FrameSet) /\ Len(stack') = n - 1 /\ DOMAIN stack' = 1 .. n - 1
      /\ \A i \in 1 .. n - 1 : stack'[i] = stack[i]
  BY <1>2, <1>3
<1>5. Types'
  BY <1>1, <1>2, <1>4 DEF Types
<1>6. Named'
  BY <1>1, <1>2 DEF Named
<1> HIDE DEF n
<1>7. FramesOK'
  <2>1. ASSUME NEW i \in 1 .. n - 1 PROVE FrameOK(stack'[i], tag)
    BY <1>1, <1>3, <1>4 DEF FramesOK
  <2>2. ASSUME NEW i \in 1 .. n - 1, NEW j \in 1 .. n - 1, i < j PROVE Follows(stack'[i], stack'[j])
    BY <1>1, <1>3, <1>4, <2>2 DEF FramesOK
  <2> QED
    BY <1>2, <1>4, <2>1, <2>2 DEF FramesOK, FrameOK, Follows
<1>8. ReadyIsDue'
  <2> SUFFICES ASSUME stack' # <<>> PROVE ~Top'.ready
    BY DEF ReadyIsDue
  <2>1. n - 1 \in 1 .. n - 1
    BY <1>3, <1>4
  <2>2. Follows(stack[n - 1], stack[n])
    BY <1>1, <1>3, <2>1 DEF FramesOK
  <2>3. Top' = stack[n - 1]
    BY <1>4, <2>1 DEF Top
  <2> QED
    BY <2>2, <2>3 DEF Follows
<1> QED
  BY <1>5, <1>6, <1>7, <1>8 DEF TagInv

\* Every step keeps the invariant.
LEMMA StepKeeps == TagInv /\ [Next]_vars => TagInv'
<1> SUFFICES ASSUME TagInv, [Next]_vars PROVE TagInv'
  OBVIOUS
<1>1. ASSUME NEW p \in DOMAIN program, NEW q \in DOMAIN program, Call(p, q) PROVE TagInv'
  BY <1>1, CallKeeps
<1>2. CASE UNCHANGED vars
  <2>1. UNCHANGED <<program, names, code, phase, tag, stack>>
    BY <1>2 DEF vars
  <2>2. Types'
    BY <2>1 DEF TagInv, Types
  <2>3. Named'
    BY <2>1 DEF TagInv, Named
  <2>4. FramesOK'
    BY <2>1 DEF TagInv, FramesOK, FrameOK, Follows
  <2>5. ReadyIsDue'
    BY <2>1 DEF TagInv, ReadyIsDue, CategoryCounted, ByAdapter, Top
  <2> QED
    BY <2>2, <2>3, <2>4, <2>5 DEF TagInv
<1> QED
  BY <1>1, <1>2, RewriteKeeps, StartKeeps, CountKeeps, NextNodeKeeps, ReturnKeeps DEF Next

\* What the frames and the tag of the instrumented program have in common at
\* all times.
THEOREM TagsCorrect == Spec => []TagInv
<1>1. Init => TagInv
  BY InitHolds
<1>2. TagInv /\ [Next]_vars => TagInv'
  BY StepKeeps
<1> QED
  BY <1>1, <1>2, PTL DEF Spec

\* Types: the numbers that instrument_rc.py writes are below the limit, and the
\* tag is a number.
THEOREM TypeCorrect == Spec => []TypeOK
<1>1. TagInv => TypeOK
  <2> SUFFICES ASSUME TagInv PROVE TypeOK
    OBVIOUS
  <2>1. ASSUME NEW i \in DOMAIN stack PROVE stack[i].saved \in Nat /\ stack[i].ready \in BOOLEAN
    <3>1. stack[i] \in FrameSet
      BY DEF TagInv, Types
    <3> QED
      BY <3>1 DEF FrameSet
  <2> QED
    BY <2>1 DEF TagInv, Types, TypeOK, Category
<1> QED
  BY <1>1, TagsCorrect, PTL

\* In every program and at every depth, an atomic operation counts under the
\* category that the documentation gives to the call that caused it, or as
\* runtime_other behind an adapter of a callable; the later rounds of a boxed
\* union's release are left out.
THEOREM CategoryCorrect == Spec => []CategoryIsDue
<1>1. TagInv => CategoryIsDue
  BY DEF TagInv, ReadyIsDue, CategoryIsDue, Counting
<1> QED
  BY <1>1, TagsCorrect, PTL

\* Every operation that only helpers and the runtime of Lists and Strings
\* lead to counts under the innermost compiled function, in every program.
THEOREM FunctionCorrect == Spec => []FunctionIsCaller
<1>1. TagInv => FunctionIsCaller
  <2> SUFFICES ASSUME TagInv, Counting, Top.tagged PROVE FunctionCounted = Top.caller
    BY DEF FunctionIsCaller
  <2>1. Top.ready /\ FrameOK(Top, tag)
    BY DEF TagInv, Types, FramesOK, Counting, Top
  <2> QED
    BY <2>1 DEF FrameOK, FunctionCounted
<1> QED
  BY <1>1, TagsCorrect, PTL

=============================================================================
