-------------------------------- MODULE ScanC --------------------------------
(***************************************************************************)
(* The two scanners of generated C: split_statements, which puts every     *)
(* statement on a line of its own, and the brace scan of instrument_rc.py, *)
(* which finds function bodies and wraps the atomic operations in them.    *)
(* Both run beside a C lexer that writes the text, one unit at a time, so  *)
(* that TLC compares them on texts of every length: a character class, an  *)
(* opening or closing comment mark, or an atomic operation.                *)
(*                                                                         *)
(* The text is what emit and the runtime write: directives begin a line,   *)
(* are one line long and hold no literals or comments, a comment does not  *)
(* begin with a slash, and none stands between a parameter list and the    *)
(* brace of its body.                                                      *)
(***************************************************************************)
EXTENDS Naturals

CONSTANT MaxDepth       \* bound: nesting of braces

Unit == {"word", "blank", "newline", ";", "{", "}", "(", ")", "\"", "'", "\\", "/", "*", "#",
         "/*", "*/", "atomic"}

VARIABLES
    lex,        \* the lexer: where it is, and what it last wrote
    depth,      \* open braces
    body,       \* the outermost open brace begins a function body
    split,      \* split_statements
    broke,      \* it ended the line after the last unit
    ends,       \* history: the last unit ends a statement
    scan,       \* functions: the token SCAN is in; the last unit that is not blank
    counted,    \* functions: depth, and whether its outermost brace is a body
    missed,     \* rewrite: an atomic operation was found and not wrapped
    stray,      \* history: an atomic operation stands outside every function
    phase       \* "scan", then "done" or "failed"

vars == <<lex, depth, body, split, broke, ends, scan, counted, missed, stray, phase>>

-----------------------------------------------------------------------------
(* The text.                                                               *)

Init ==
    /\ lex = [in |-> "code", escaped |-> FALSE, last |-> "newline", fresh |-> TRUE, after |-> "none"]
    /\ depth = 0 /\ body = FALSE
    /\ split = [quote |-> "none", escaped |-> FALSE, comment |-> "no", directive |-> FALSE, fresh |-> TRUE]
    /\ broke = FALSE /\ ends = FALSE
    /\ scan = [token |-> "none", escaped |-> FALSE, fresh |-> TRUE, before |-> "none"]
    /\ counted = [depth |-> 0, body |-> FALSE]
    /\ missed = FALSE /\ stray = FALSE
    /\ phase = "scan"

\* Units that may come next.  fresh: only blanks since the line began.  after:
\* the last thing in code that is neither blank nor comment.
May(c) ==
    CASE lex.in = "code" ->
            /\ c # "\\" /\ c # "*/"
            /\ c = "#" => lex.fresh
            /\ c = "/*" => lex.last # "/" /\ ~(depth = 0 /\ lex.after = ")")
            /\ c = "*" => lex.last # "/"
            /\ c = "/" => lex.last # "/" /\ lex.last # "*"
            /\ c = "{" => depth < MaxDepth /\ (depth = 0 => lex.after \in {")", "word"})
            /\ c = "}" => depth > 0
      [] lex.in = "directive" -> c \in {"word", "blank", "newline", ";", "{", "}", "(", ")"}
      [] lex.in = "comment" -> c \notin {"/*", "atomic"} /\ (c = "/" => lex.last \notin {"/*", "*"})
      [] OTHER -> c \notin {"newline", "/*", "*/", "atomic"}

LexStep(c) ==
    LET inCode == lex.in = "code"
        next ==
            CASE inCode /\ c = "\"" -> "string"
              [] inCode /\ c = "'" -> "char"
              [] inCode /\ c = "/*" -> "comment"
              [] inCode /\ c = "#" -> "directive"
              [] lex.in = "string" /\ c = "\"" /\ ~lex.escaped -> "code"
              [] lex.in = "char" /\ c = "'" /\ ~lex.escaped -> "code"
              [] lex.in = "comment" /\ c = "*/" -> "code"
              [] lex.in = "directive" /\ c = "newline" -> "code"
              [] OTHER -> lex.in
    IN  /\ lex' = [in |-> next,
                   escaped |-> lex.in \in {"string", "char"} /\ c = "\\" /\ ~lex.escaped,
                   last |-> c,
                   fresh |-> (c = "newline" /\ next = "code") \/ (lex.fresh /\ c = "blank"),
                   after |-> IF ~inCode \/ c \in {"blank", "newline", "/*"} THEN lex.after ELSE c]
        /\ depth' = CASE inCode /\ c = "{" -> depth + 1
                      [] inCode /\ c = "}" -> depth - 1
                      [] OTHER -> depth
        /\ body' = CASE inCode /\ c = "{" /\ depth = 0 -> lex.after = ")"
                     [] inCode /\ c = "}" /\ depth = 1 -> FALSE
                     [] OTHER -> body
        /\ ends' = (inCode /\ c \in {";", "{", "}"})
        /\ stray' = (stray \/ (c = "atomic" /\ ~body))

-----------------------------------------------------------------------------
(* split_statements.                                                       *)

\* Fault: a backslash does not protect the quote after it.
InQuoteUnescaped(c) ==
    /\ split' = [split EXCEPT !.quote = IF c = @ THEN "none" ELSE @]
    /\ broke' = FALSE

\* Inside a literal; a backslash takes the next character with it.
InQuote(c) ==
    /\ split' = CASE split.escaped -> [split EXCEPT !.escaped = FALSE]
                  [] c = "\\" -> [split EXCEPT !.escaped = TRUE]
                  [] OTHER -> [split EXCEPT !.quote = IF c = @ THEN "none" ELSE @]
    /\ broke' = FALSE

\* source.index('*/', i) looks from the slash that opens the comment.
InComment(c) ==
    /\ split' = [split EXCEPT !.comment = IF c = "*/" \/ (@ = "opened" /\ c = "/") THEN "no" ELSE "in"]
    /\ broke' = FALSE

\* Elsewhere: the line is broken after c unless it is a directive's.
InText(c) ==
    LET directive == split.directive \/ (split.fresh /\ c = "#")
    IN  /\ split' = [split EXCEPT !.directive = directive /\ c # "newline",
                                  !.fresh = c = "newline" \/ (@ /\ c = "blank")]
        /\ broke' = (~directive /\ c \in {";", "{", "}"})

SplitStep(c) ==
    CASE split.quote # "none" -> InQuote(c)
      [] split.comment # "no" -> InComment(c)
      [] c = "/*" -> split' = [split EXCEPT !.comment = "opened"] /\ broke' = FALSE
      [] c \in {"\"", "'"} -> split' = [split EXCEPT !.quote = c, !.fresh = FALSE] /\ broke' = FALSE
      [] OTHER -> InText(c)

-----------------------------------------------------------------------------
(* functions and rewrite of instrument_rc.py.                              *)

\* SCAN: the token that the text is in after c.
Token(c) ==
    CASE scan.token = "none" /\ c = "\"" -> "string"
      [] scan.token = "none" /\ c = "'" -> "char"
      [] scan.token = "none" /\ c = "/*" -> "comment"
      [] scan.token = "none" /\ c = "#" /\ scan.fresh -> "directive"
      [] scan.token = "string" /\ c = "\"" /\ ~scan.escaped -> "none"
      [] scan.token = "char" /\ c = "'" /\ ~scan.escaped -> "none"
      [] scan.token = "comment" /\ c = "*/" -> "none"
      [] scan.token = "directive" /\ c = "newline" -> "none"
      [] OTHER -> scan.token

\* function_name_before: the brace follows a parameter list.
FollowsParameters == scan.before = ")"

\* functions: braces outside the other tokens.
CountBrace(c) ==
    counted' =
        CASE scan.token = "none" /\ c = "{" ->
                [depth |-> counted.depth + 1,
                 body |-> IF counted.depth = 0 THEN FollowsParameters ELSE counted.body]
          [] scan.token = "none" /\ c = "}" ->
                [depth |-> counted.depth - 1, body |-> counted.body /\ counted.depth # 1]
          [] OTHER -> counted

ScanStep(c) ==
    /\ scan' = [token |-> Token(c),
                escaped |-> scan.token \in {"string", "char"} /\ c = "\\" /\ ~scan.escaped,
                fresh |-> (c = "newline" /\ Token(c) = "none") \/ (scan.fresh /\ c = "blank"),
                before |-> IF c \in {"blank", "newline"} THEN scan.before ELSE c]
    /\ CountBrace(c)

\* count_atomics wraps the operations of the bodies that were found.
WrapAtomics(c) == missed' = (missed \/ (c = "atomic" /\ ~counted.body))

Step(c) ==
    /\ phase = "scan" /\ May(c)
    /\ LexStep(c) /\ SplitStep(c) /\ ScanStep(c) /\ WrapAtomics(c)
    /\ UNCHANGED phase

\* The text ends, and rewrite compares the operations wrapped with those found.
Finish ==
    /\ phase = "scan" /\ lex.in = "code" /\ depth = 0
    /\ phase' = IF missed THEN "failed" ELSE "done"
    /\ UNCHANGED <<lex, depth, body, split, broke, ends, scan, counted, missed, stray>>

Next == (\E c \in Unit : Step(c)) \/ Finish

Spec == Init /\ [][Next]_vars

-----------------------------------------------------------------------------
(* Properties.                                                             *)

\* A line is broken after every brace and semicolon of the program, and never
\* inside a literal, a comment or a directive, whose meaning that would change.
BreaksAtStatements == broke = ends

\* At every point of the text the brace scan knows the nesting, and whether it
\* is inside a function: braces in literals, comments and macros do not count.
BodiesAreFound == counted = [depth |-> depth, body |-> body]

\* The script goes on exactly when every atomic operation is in a function, and
\* so is counted.
StopsOnStray == phase # "scan" => (phase = "failed") = stray

=============================================================================
