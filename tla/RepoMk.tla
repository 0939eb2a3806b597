--------------------------------- MODULE RepoMk ---------------------------------
(***************************************************************************)
(* The ABI judgement of contract.py on a repository's Repo.mk, read next   *)
(* to what GNU Make makes of the same file, line after line, for one       *)
(* required leaf and any other target.  Core's reading is partial and      *)
(* knows neither which conditionals hold nor what the environment defines; *)
(* make's is modelled from its manual and is the reference.                *)
(*                                                                         *)
(* A text is the set of its words: "word" stands for literal words, a      *)
(* variable's name for a reference to it.  Continuation lines, functions,  *)
(* included files, pattern and double-colon rules are left out, and no     *)
(* reference chain is 16 long.                                             *)
(***************************************************************************)
EXTENDS Naturals, Sequences

CONSTANTS Vars,     \* variables of the file
          MaxDepth, \* bound: nested blocks
          MaxLines  \* bound: lines of the file

VARIABLES
  lines, \* read so far
  core,  \* what contract.py has gathered
  make,  \* what make has
  misled \* ghost: make heeded a line as Core does not, see the actions

repoMkVars == <<lines, core, make, misled>>

Prefix == {"tab", ">"}
Undefined == [flavor |-> "none", text |-> {}]
Simple(text)    == [flavor |-> "simple", text |-> text]
Recursive(text) == [flavor |-> "recursive", text |-> text]

Text == SUBSET (Vars \cup {"word"})

Plain ==
    [kind : {"rule"}, needs : Text, inline : {"absent", "empty", "work"}]
      \cup [kind : {"specific", "other", "facade", "phony", "comment",
                    "if", "endif", "endef"}]
      \cup [kind : {"assign"}, var : Vars, text : Text,
            op : {"=", ":=", "+=", "?=", "!="}]
      \cup [kind : {"undefine", "define"}, var : Vars]
      \cup [kind : {"prefix"}, to : Prefix]

\* Any of these may stand behind a tab, a ">" or a space; what a recipe line
\* holds is none of them.
Lines ==
    Plain \cup [kind : {"blank"}]
      \cup [kind : {"recipe"}, by : Prefix, body : {"empty", "work"}]
      \cup [kind : {"led"}, by : Prefix \cup {"space"}, line : Plain]

Directive == {"if", "endif", "define", "endef"}

\* A line of whitespace, whatever the prefix is.
Whitespace(l) == l.kind = "blank" \/ (l.kind = "recipe" /\ l.by = "tab" /\ l.body = "empty")

\* What the line is as a recipe line.
AsRecipe(l) == IF l.kind = "led" THEN "work" ELSE l.body

\* The file may begin by declaring the leaf .PHONY; the environment may define
\* the variables.
RepoMkInit ==
  \E phony \in BOOLEAN :
    /\ lines = 0
    /\ core = [ifs |-> 0, defines |-> 0, prefix |-> "tab", open |-> FALSE,
               vars |-> [v \in Vars |-> Undefined],
               phony |-> phony, implemented |-> FALSE, facade |-> FALSE]
    /\ \E env \in [Vars -> {Undefined, Recursive({}), Recursive({"word"})}] :
         make = [ifs |-> << >>, skipping |-> FALSE, defines |-> 0, defining |-> "none",
                 body |-> {}, prefix |-> "tab", vars |-> env, target |-> "none",
                 fresh |-> FALSE, needs |-> FALSE, recipe |-> "absent",
                 phony |-> phony, facade |-> FALSE, failed |-> FALSE]
    /\ misled = FALSE

(***************************************************************************)
(* Expansion.                                                              *)
(***************************************************************************)

\* The variables that the expansion of the text comes across: the smallest set
\* that has those of the text and, with each of its variables, those of its value.
Closed(known, S) == \A v \in S : known[v].text \cap Vars \subseteq S
Reached(known, text) ==
    {v \in Vars : \A S \in SUBSET Vars :
                    text \cap Vars \subseteq S /\ Closed(known, S) => v \in S}

\* _proven_tokens: some word of the text is not empty.  (Make's recursive
\* expansion finds the same words, or a cycle and fails.)
Proven(known, text) ==
    "word" \in text \/ \E v \in Reached(known, text) : "word" \in known[v].text

Expanded(known, text) == IF Proven(known, text) THEN {"word"} ELSE {}

Cyclic(known, text) ==
    \E v \in Reached(known, text) : v \in Reached(known, known[v].text)

\* What both make of an assignment, except for ?= and !=.
Assigned(known, l) ==
    LET old == known[l.var] IN
    CASE l.op = "="  -> Recursive(l.text)
      [] l.op = ":=" -> Simple(Expanded(known, l.text))
      [] l.op = "+=" -> IF old.flavor = "simple"
                        THEN Simple(old.text \cup Expanded(known, l.text))
                        ELSE Recursive(old.text \cup l.text)

\* _record_assignment: neither a default nor a shell's output proves a word.
CoreAssigned(known, l) ==
    CASE l.op = "!=" -> Simple({})
      [] l.op = "?=" -> IF known[l.var].flavor = "none" THEN Simple({}) ELSE known[l.var]
      [] OTHER       -> Assigned(known, l)

\* The values make may give the variable.
MakeAssigned(known, l) ==
    CASE l.op = "!=" -> {Recursive({}), Recursive({"word"})}
      [] l.op = "?=" -> {IF known[l.var].flavor = "none" THEN Recursive(l.text)
                                                         ELSE known[l.var]}
      [] OTHER       -> {Assigned(known, l)}

(***************************************************************************)
(* contract.py                                                             *)
(***************************************************************************)

\* implemented_leaves: a rule with neither looks for its first recipe line
\* among the lines that follow it.
CoreRule(c, effective) == [c EXCEPT !.implemented = @ \/ effective,
                                    !.open = ~effective]

CoreRecipe(c, l) ==
    IF l.by = c.prefix THEN IF c.open /\ AsRecipe(l) = "work" THEN CoreRule(c, TRUE) ELSE c
    ELSE IF \/ Whitespace(l)
            \/ l.kind = "led" /\ l.by # ">" /\ l.line.kind = "comment"
         THEN c ELSE [c EXCEPT !.open = FALSE]

\* A line of the unconditional text.
CoreLine(c, l) ==
    LET closed == [c EXCEPT !.open = FALSE] IN
    CASE l.kind = "rule"     -> CoreRule(c, Proven(c.vars, l.needs) \/ l.inline = "work")
      [] l.kind = "specific" -> CoreRule(c, FALSE)
      [] l.kind \in {"recipe", "led"}    -> CoreRecipe(c, l)
      [] l.kind \in {"blank", "comment"} -> c
      [] l.kind = "assign"   -> [closed EXCEPT !.vars[l.var] = CoreAssigned(c.vars, l)]
      [] l.kind = "undefine" -> [closed EXCEPT !.vars[l.var] = Undefined]
      [] l.kind = "prefix"   -> [closed EXCEPT !.prefix = l.to]
      [] l.kind = "phony"    -> [closed EXCEPT !.phony = TRUE]
      [] OTHER               -> closed

\* No pattern but those of directives matches a line that begins with a blank,
\* and behind a tab no directive is looked for.
Seen(l) == IF l.kind = "led" /\ l.by = "space" /\ l.line.kind \in Directive
           THEN l.line ELSE l

\* _unconditional_text: a directive, or a line inside a block, becomes blank.
CoreReads(l) ==
    CASE core.defines > 0 ->
           [core EXCEPT !.defines = IF l.kind = "define" THEN @ + 1
                                    ELSE IF l.kind = "endef" THEN @ - 1 ELSE @]
      [] core.defines = 0 /\ l.kind = "define" -> [core EXCEPT !.defines = 1]
      [] core.defines = 0 /\ l.kind = "if" -> [core EXCEPT !.ifs = @ + 1]
      [] core.defines = 0 /\ l.kind = "endif" /\ core.ifs > 0 ->
           [core EXCEPT !.ifs = @ - 1]
      [] core.defines = 0 /\ l.kind \notin {"define", "if"}
           /\ ~(l.kind = "endif" /\ core.ifs > 0) ->
           IF core.ifs > 0 THEN core ELSE CoreLine(core, l)

\* validate_repo_mk_text; facade targets are looked for in every line.
Accepted == core.phony /\ core.implemented /\ ~core.facade

(***************************************************************************)
(* GNU Make                                                                *)
(***************************************************************************)
Live == \A i \in DOMAIN make.ifs : make.ifs[i]
Failing == [make EXCEPT !.failed = TRUE]
Ending == [make EXCEPT !.target = "none"]

\* The first recipe line, inline or not, replaces the recipe of an earlier rule.
MakeRule(l) ==
    IF Cyclic(make.vars, l.needs) THEN Failing
    ELSE [make EXCEPT !.target = "leaf",
                      !.needs = @ \/ Proven(make.vars, l.needs),
                      !.fresh = (l.inline = "absent"),
                      !.recipe = IF l.inline = "absent" THEN @ ELSE l.inline]

MakeRecipe(l) ==
    IF l.by = make.prefix /\ make.target # "none"
    THEN IF make.target = "other" THEN make
         ELSE [make EXCEPT !.fresh = FALSE,
                           !.recipe = IF make.fresh \/ AsRecipe(l) = "work"
                                      THEN AsRecipe(l) ELSE @]
    ELSE IF Whitespace(l) \/ (l.by = make.prefix /\ AsRecipe(l) = "empty")
         THEN make ELSE Failing

\* Inside a live define.
MakeDefines(l) ==
    CASE l.kind = "endef" /\ make.defines = 1 ->
           [make EXCEPT !.defines = 0, !.defining = "none", !.body = {},
                        !.vars[make.defining] = Recursive(make.body)]
      [] l.kind = "endef" /\ make.defines > 1 -> [make EXCEPT !.defines = @ - 1]
      [] l.kind = "define" -> [make EXCEPT !.defines = @ + 1, !.body = {"word"}]
      [] l.kind \notin {"endef", "define"} ->
           [make EXCEPT !.body = IF Whitespace(l) THEN @ ELSE {"word"}]

MakeLine(l) ==
    CASE l.kind = "rule"     -> {MakeRule(l)}
      [] l.kind = "specific" -> {Ending}
      [] l.kind \in {"recipe", "led"}    -> {MakeRecipe(l)}
      [] l.kind \in {"blank", "comment"} -> {make}
      [] l.kind = "assign"   ->
           IF l.op = ":=" /\ Cyclic(make.vars, l.text) THEN {Failing}
           ELSE {[Ending EXCEPT !.vars[l.var] = x] : x \in MakeAssigned(make.vars, l)}
      [] l.kind = "undefine" -> {[Ending EXCEPT !.vars[l.var] = Undefined]}
      [] l.kind = "prefix"   -> {[Ending EXCEPT !.prefix = l.to]}
      [] l.kind = "phony"    -> {[make EXCEPT !.target = "other", !.phony = TRUE]}
      [] l.kind = "facade"   -> {[make EXCEPT !.target = "other", !.facade = TRUE]}
      [] l.kind = "other"    -> {[make EXCEPT !.target = "other"]}
      [] l.kind = "if"       -> {[make EXCEPT !.ifs = Append(@, b)] : b \in BOOLEAN}
      [] l.kind = "define"   -> {[Ending EXCEPT !.defines = 1, !.defining = l.var]}
      [] l.kind = "endif"    -> {IF make.ifs = << >> THEN Failing
                                 ELSE [make EXCEPT !.ifs = SubSeq(@, 1, Len(@) - 1)]}
      [] l.kind \in {"endef", "error"}   -> {Failing}

\* In a conditional that does not hold, only blocks are followed; a define ends
\* at its first endef, whatever it contains.
MakeSkips(l) ==
    CASE make.skipping -> [make EXCEPT !.skipping = (l.kind # "endef")]
      [] ~make.skipping /\ l.kind = "define" -> [make EXCEPT !.skipping = TRUE]
      [] ~make.skipping /\ l.kind = "if" -> [make EXCEPT !.ifs = Append(@, FALSE)]
      [] ~make.skipping /\ l.kind = "endif" ->
           [make EXCEPT !.ifs = SubSeq(@, 1, Len(@) - 1)]
      [] ~make.skipping /\ l.kind \notin {"define", "if", "endif"} -> make

\* A command of the rule above, or text of a define, whatever it says.
Literal(l) ==
    /\ l.kind = "led"
    /\ \/ l.by = make.prefix /\ make.target # "none"
       \/ /\ make.defines > 0
          /\ l.by \in {make.prefix, ">"} \/ l.line.kind \notin {"define", "endef"}

\* What make takes any other line for: ">" is part of the first word, a tab and
\* a space are no part of it.
Heeded(l) ==
    IF l.kind # "led" \/ Literal(l) THEN l
    ELSE IF l.by # ">" THEN l.line
    ELSE [kind |-> CASE l.line.kind \in {"assign", "prefix", "specific"} -> "specific"
                     [] l.line.kind \in {"rule", "other", "facade", "phony"} -> "other"
                     [] OTHER -> "error"]

\* "recipe commences before first target".
Commences(l) ==
    /\ make.defines = 0 /\ Live /\ make.target = "none"
    /\ l.kind = "led" /\ l.by = make.prefix
    /\ l.line.kind \in {"rule", "specific", "other", "facade", "phony"}

MakeTakes(l) ==
    CASE make.defines > 0 -> {MakeDefines(l)}
      [] make.defines = 0 /\ Live -> MakeLine(l)
      [] make.defines = 0 /\ ~Live -> {MakeSkips(l)}

MakeReads(l) == IF Commences(l) THEN {Failing} ELSE MakeTakes(Heeded(l))

\* `make <phase>' stops with an error if the file ends here, or the phase
\* does what the repository wrote.
Stops == make.failed \/ make.ifs # << >> \/ make.defines > 0
DoesWork == make.phony /\ ~make.facade /\ (make.needs \/ make.recipe = "work")

(***************************************************************************)
(* One more line.                                                          *)
(***************************************************************************)

\* Blanked by Core, but not ignored by make.
Hidden(l) ==
    /\ core.ifs > 0 \/ core.defines > 0
    /\ \/ /\ Live /\ make.defines = 0
          /\ l.kind \notin Directive \cup {"blank", "comment", "recipe", "led"}
       \/ l.kind = "endef" /\ make'.vars # make.vars

\* Behind a blank or a prefix, and not for make what it is for Core.
Led(l) == /\ Seen(l).kind = "led" /\ ~Literal(l)
          /\ core' # core \/ make' # make

\* Appended at once for Core, expanded when used for make.
Deferred(l) ==
    /\ l.kind = "assign" /\ l.op = "+="
    /\ core.vars[l.var].flavor = "simple" /\ make.vars[l.var].flavor = "recursive"

\* A define of its own for Core, part of the one that is skipped for make.
Nested(l) == make.skipping /\ l.kind = "define"

\* An earlier recipe, replaced by an empty one for make and kept for Core.
Emptied == make.recipe = "work" /\ make'.recipe = "empty"

\* What follows an error, a misread line or a redefined facade is not explored.
Read(l) ==
    /\ lines < MaxLines /\ lines' = lines + 1
    /\ ~make.failed /\ ~misled /\ ~core.facade
    /\ core' = [CoreReads(Seen(l)) EXCEPT !.facade = @ \/ l.kind = "facade"]
    /\ make' \in MakeReads(l)
    /\ core'.ifs <= MaxDepth /\ core'.defines <= MaxDepth
    /\ Len(make'.ifs) <= MaxDepth /\ make'.defines <= MaxDepth
    /\ misled' = \/ Hidden(Heeded(l)) \/ Led(l) \/ Deferred(l)
                 \/ Nested(Heeded(l)) \/ Emptied

RepoMkNext == \E l \in Lines : Read(l)

RepoMkSpec == RepoMkInit /\ [][RepoMkNext]_repoMkVars

(***************************************************************************)
(* A leaf that does nothing cannot implement a phase (contract.py:480):    *)
(* whatever the environment defines and whichever conditionals hold, make  *)
(* runs the repository's work for a leaf that was accepted, or stops with  *)
(* an error.                                                               *)
(***************************************************************************)
AcceptedLeafNeverIdle == Accepted => (Stops \/ DoesWork)

(***************************************************************************)
(* What does hold: an accepted leaf does nothing only if Core misread a    *)
(* line: one that it blanked but make heeded, one behind a blank or a      *)
(* prefix that is no recipe line for make, an empty recipe that replaces   *)
(* an earlier one, += on a default, or a define within one that is skipped *)
(***************************************************************************)
AcceptedLeafWorks == ~misled => AcceptedLeafNeverIdle
=============================================================================
