----------------------------- MODULE CommandLine -----------------------------
(***************************************************************************)
(* parseCommandLine(), applyLogLevel() and discoverModelRoot()              *)
(* (applications/common): what the programs are told and where their models *)
(* are.  An argument list is a sequence of tokens.                          *)
(***************************************************************************)
EXTENDS Integers, Sequences, SequencesExt

CONSTANTS
    IntegerOf,   \* what std::from_chars reads of a token that is an integer
    PercentOf    \* what std::stof reads of a token that is a finite number, in percent

Flags == {"--help", "-h", "--allow-unvalidated-model", "--odf-smoke-test"}
Valued == {"--models", "--model", "--backend", "--image", "--output", "--log-level", "--camera", "--confidence",
           "--iou", "--max-detections"}
Absent == "absent"
NoNumber == -1

\* CommandLineOptions: an option that was not given is Absent or NoNumber; clients use their defaults for it.
NoOptions ==
    [help |-> FALSE, allow |-> FALSE, smoke |-> FALSE, models |-> Absent, model |-> Absent, backend |-> Absent,
     image |-> Absent, output |-> Absent, logLevel |-> "info", camera |-> NoNumber, confidence |-> NoNumber,
     iou |-> NoNumber, maxDetections |-> NoNumber]

IsInteger(token, low, high) == token \in DOMAIN IntegerOf /\ IntegerOf[token] \in low..high
IsPercent(token) == token \in DOMAIN PercentOf /\ PercentOf[token] \in 0..100

\* The loop over the arguments: the options so far, the option that waits for its value, and the verdict.
Parsing(options, pending, ok) == [options |-> options, pending |-> pending, ok |-> ok]
Set(p, field, value) == Parsing([p.options EXCEPT ![field] = value], Absent, TRUE)
Refused(p) == Parsing(p.options, Absent, FALSE)

Flag(p, token) ==
    Set(p, CASE token \in {"--help", "-h"} -> "help" [] token = "--odf-smoke-test" -> "smoke" [] OTHER -> "allow", TRUE)

\* An option takes whatever token follows it as its value, another option included.
Value(p, token) ==
    CASE p.pending = "--models" -> Set(p, "models", token)
      [] p.pending = "--model" -> Set(p, "model", token)
      [] p.pending = "--backend" -> Set(p, "backend", token)
      [] p.pending = "--image" -> Set(p, "image", token)
      [] p.pending = "--output" -> Set(p, "output", token)
      [] p.pending = "--log-level" -> Set(p, "logLevel", token)
      [] p.pending = "--camera" /\ IsInteger(token, 0, 255) -> Set(p, "camera", IntegerOf[token])
      [] p.pending = "--max-detections" /\ IsInteger(token, 1, 100000) -> Set(p, "maxDetections", IntegerOf[token])
      [] p.pending = "--confidence" /\ IsPercent(token) -> Set(p, "confidence", PercentOf[token])
      [] p.pending = "--iou" /\ IsPercent(token) -> Set(p, "iou", PercentOf[token])
      [] OTHER -> Refused(p)

Token(p, token) ==
    IF ~p.ok THEN p
    ELSE IF p.pending # Absent THEN Value(p, token)
    ELSE IF token \in Flags THEN Flag(p, token)
    ELSE IF token \in Valued THEN Parsing(p.options, token, TRUE)
    ELSE Refused(p)

\* A missing last value and the two sources together are errors as well.
ParseCommandLine(arguments) ==
    LET p == FoldLeft(Token, Parsing(NoOptions, Absent, TRUE), arguments) IN
    IF p.ok /\ p.pending = Absent /\ ~(p.options.image # Absent /\ p.options.camera # NoNumber) THEN p ELSE Refused(p)

\* applyLogLevel(), for names in lower case.
LogLevels == {"trace", "debug", "info", "warning", "warn", "error"}

\* discoverModelRoot(): the roots that hold a model.json decide; one that is named is not replaced by another.
NoRoot == "no root"

DiscoverModelRoot(commandLine, environment, withMetadata) ==
    IF commandLine # Absent THEN (IF commandLine \in withMetadata THEN commandLine ELSE NoRoot)
    ELSE IF environment # Absent THEN (IF environment \in withMetadata THEN environment ELSE NoRoot)
    ELSE IF "application" \in withMetadata THEN "application"
    ELSE IF "installed" \in withMetadata THEN "installed"
    ELSE NoRoot
=============================================================================
