------------------------------ MODULE ControlPlane ------------------------------
(***************************************************************************)
(* GitHub's settings for Core's main, which administrators change at any   *)
(* time, and the workflow that attests them: verify_control_plane.py reads *)
(* one endpoint after the other, any of which may be unreadable, and       *)
(* concludes PASS, FAIL or UNKNOWN; control-plane-attestation.yml uploads  *)
(* the conclusion, and FAIL until there is one.                            *)
(***************************************************************************)
EXTENDS Naturals

CONSTANT MaxActivities \* bound: changes of settings and of main, attestations,
                       \* provisionings begun, all together

ASSUME ControlPlaneAssumption == MaxActivities \in Nat

Checks == {"binding", "protection", "immutable", "freshness"}

VARIABLES
  settings,  \* what GitHub applies: see Settings
  activities, \* begun so far
  reading,   \* the check the attestation works on
  results,   \* its verdicts so far
  evidence,  \* the document it uploads
  held       \* ghost: checks that held at some time since it began

controlVars == <<settings, activities, reading, results, evidence, held>>

\* Status checks that may be required: the promotion's gate and all others.
Contexts == {"sdk-contract", "other"}

\* binding: the organization ruleset with the required workflow; review: by a
\* code owner, of a pull request; contexts: the required checks of all rulesets.
Settings == [binding : {"active", "evaluate", "deleted"}, review : BOOLEAN,
             contexts : SUBSET Contexts, immutable : BOOLEAN,
             strict : BOOLEAN, queue : BOOLEAN]

\* Some check is required, not a certain one.
Protected(s) == s.review /\ s.contexts # {}

\* The organization's rule is strict, or there is a merge queue.
Fresh(s) == s.strict \/ s.queue

\* What each check demands of the settings.
Holds(c, s) ==
    CASE c = "binding"    -> s.binding = "active"
      [] c = "protection" -> Protected(s)
      [] c = "immutable"  -> s.immutable
      [] c = "freshness"  -> Fresh(s)

ControlInit ==
    /\ settings = [binding |-> "active", review |-> TRUE, contexts |-> Contexts,
                   immutable |-> TRUE, strict |-> TRUE, queue |-> FALSE]
    /\ activities = 0
    /\ reading = "none"
    /\ results = [c \in Checks |-> "UNKNOWN"]
    /\ evidence = "FAIL"
    /\ held = {}

Another == activities < MaxActivities /\ activities' = activities + 1

Administer ==
    /\ Another
    /\ \E f \in {"review", "immutable", "strict", "queue"} :
            settings' = [settings EXCEPT ![f] = ~@]
       \/ \E required \in SUBSET Contexts :
            settings' = [settings EXCEPT !.contexts = required]
       \/ \E b \in {"active", "evaluate", "deleted"} :
            settings' = [settings EXCEPT !.binding = b]
    /\ held' = held \cup {c \in Checks : Holds(c, settings')}
    /\ UNCHANGED <<reading, results, evidence>>

(***************************************************************************)
(* The attestation.                                                        *)
(***************************************************************************)

\* A run starts with failing evidence.  Without a credential nothing is read.
Begin ==
    /\ reading = "none"
    /\ Another
    /\ \E credential \in BOOLEAN :
         reading' = IF credential THEN "binding" ELSE "conclusion"
    /\ results' = [c \in Checks |-> "UNKNOWN"]
    /\ evidence' = "FAIL"
    /\ held' = {c \in Checks : Holds(c, settings)}
    /\ UNCHANGED settings

\* Mutant: what cannot be read is given the benefit of the doubt.
VerdictIfReadable(c, readable) ==
    IF ~readable \/ Holds(c, settings) THEN "PASS" ELSE "FAIL"

\* UNKNOWN is never PASS.
Verdict(c, readable) ==
    IF ~readable THEN "UNKNOWN" ELSE IF Holds(c, settings) THEN "PASS" ELSE "FAIL"

After(c) == CASE c = "binding"    -> "protection"
              [] c = "protection" -> "immutable"
              [] c = "immutable"  -> "freshness"
              [] c = "freshness"  -> "conclusion"

Record(c, verdict) == /\ results' = [results EXCEPT ![c] = verdict]
                      /\ reading' = After(c)

\* The rules of active rulesets only; a match has its ruleset looked up.
ReadBinding ==
    /\ reading = "binding"
    /\ \E readable \in BOOLEAN :
         LET verdict == Verdict("binding", readable) IN
         IF verdict = "PASS" THEN reading' = "enforcement" /\ UNCHANGED results
                             ELSE Record("binding", verdict)
    /\ UNCHANGED <<settings, activities, evidence, held>>

\* A ruleset that cannot be read, or is gone by now, counts as enforced.
ReadEnforcement ==
    /\ reading = "enforcement"
    /\ \E readable \in BOOLEAN :
         Record("binding", IF readable /\ settings.binding = "evaluate"
                           THEN "FAIL" ELSE "PASS")
    /\ UNCHANGED <<settings, activities, evidence, held>>

ReadRules(c) ==
    /\ reading = c
    /\ \E readable \in BOOLEAN : Record(c, Verdict(c, readable))
    /\ UNCHANGED <<settings, activities, evidence, held>>

Conclusion == IF \A c \in Checks : results[c] = "PASS" THEN "PASS"
              ELSE IF \E c \in Checks : results[c] = "FAIL" THEN "FAIL" ELSE "UNKNOWN"

\* The candidate document replaces the fallback.
Conclude ==
    /\ reading = "conclusion"
    /\ evidence' = Conclusion
    /\ reading' = "none"
    /\ UNCHANGED <<settings, activities, results, held>>

\* The job dies, or the contracts disagree: the fallback is uploaded.
Die ==
    /\ reading # "none"
    /\ reading' = "none"
    /\ UNCHANGED <<settings, activities, results, evidence, held>>

Attest == Begin \/ ReadBinding \/ ReadEnforcement \/ Conclude \/ Die
          \/ \E c \in Checks \ {"binding"} : ReadRules(c)

(***************************************************************************)
(* A passing document means that every requirement was met at some time    *)
(* since the run began, whatever could not be read and whatever was        *)
(* changed between two reads.  (Not that they were met at one time.)       *)
(***************************************************************************)
AttestedWasSo == evidence = "PASS" => held = Checks
=============================================================================
