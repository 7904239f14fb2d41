-------------------------------- MODULE Dataset --------------------------------
(* The way of a maintainer's correction from the disagreement log into a      *)
(* model: ml/build_dataset.py adds the rows of the log to the collected pull  *)
(* requests, splits them and writes three files in place; ml/train.py fits a  *)
(* model to the first and chooses its cutoff on the second; ml/evaluate.py    *)
(* gates it on the third.  All are started by hand, whatever else runs.       *)
(* A row is its pull request (for its diff), its title and its label.         *)
EXTENDS FeedbackLog, FiniteSetsExt

CONSTANTS PullOf,    \* the pull request a signal is about
          Fetches,   \* per pull request: what GitHub can answer when asked for it
          Raw,       \* the rows of the collected pull requests
          Draws,     \* the synthetic rows the three generators can draw, per split
          Earlier,   \* the files an earlier build left
          Tenth,     \* 10 in the code: one in Tenth is for val, and one for test
          MaxBuilds, \* bound: builds that write
          MaxFits    \* bound: training runs

Splits == {"train", "val", "test"}

(* How the fetch of diff and title can end; without a diff there is no row.   *)
Titles == {"own", "none"}
Outcomes == Titles \union {"noDiff"}

Rows == [pull : DOMAIN Fetches, title : Titles, label : {"LEGIT", "SLOP"}]

ASSUME DatasetAssumption ==
  /\ PullOf \in [Signals -> DOMAIN Fetches]
  /\ \A p \in DOMAIN Fetches : Fetches[p] \subseteq Outcomes
  /\ Raw \in Seq(Rows) /\ Tenth \in Nat \ {0, 1} /\ MaxBuilds \in Nat /\ MaxFits \in Nat
  /\ Earlier \in [Splits -> SUBSET Rows] /\ Draws \subseteq [Splits -> SUBSET Rows]

VARIABLES builder,  \* the file build_dataset.py writes next, or where it is
          built,    \* the splits it has in memory
          builds,   \* builds that wrote
          files,    \* the rows of the three files
          torn,     \* history: the files are not all of one build
          spoilt,   \* the log has a part of a row in it, which is no JSON
          trainer,  \* where train.py is
          fits,     \* training runs
          learned,  \* what it has read, and whether the files were one whole ever since
          model,    \* the same of the model in the artifact directory
          tested    \* the same of the model evaluate.py has gated, with the rows it used

buildVars == <<builder, built, builds>>
diskVars == <<files, torn>>
fitVars == <<trainer, fits, learned, model, tested>>
loopVars == <<vars, spoilt, buildVars, diskVars, fitVars>>

Nothing == [n \in Splits |-> {}]
Unread == [rows |-> Nothing, whole |-> FALSE]

LoopInit == /\ Init
            /\ builder = "idle" /\ built = Nothing /\ builds = 0
            /\ files = Earlier /\ torn = FALSE /\ spoilt = FALSE
            /\ trainer = "idle" /\ fits = 0
            /\ learned = Unread /\ model = Unread /\ tested = Unread
-----------------------------------------------------------------------------
(* build_dataset.py. *)

(* Mutant of Corrected: the verdict that was overturned. *)
CorrectedNot == "SLOP"

(* A removed label means that the verdict was wrong. *)
Corrected == "LEGIT"

(* The rows made of the log as it is, answer[i] being that to its i-th row.   *)
Feedback(answer) ==
  SelectSeq([i \in 1 .. Len(file) |-> [pull |-> PullOf[file[i]], title |-> answer[i], label |-> Corrected]],
            LAMBDA row : row.title # "noDiff")

Answers == {a \in [1 .. Len(file) -> Outcomes] : \A i \in 1 .. Len(file) : a[i] \in Fetches[PullOf[file[i]]]}

(* What a shuffle can put where: of each label, the same shares.              *)
Shuffled(rows) ==
  LET of(l) == {i \in DOMAIN rows : rows[i].label = l}
      share(l) == Cardinality(of(l)) \div Tenth
      cuts(l) == UNION {{[test |-> T, val |-> V, train |-> of(l) \ (T \union V)] :
                           V \in kSubset(share(l), of(l) \ T)} : T \in kSubset(share(l), of(l))}
  IN  {[n \in Splits |-> {rows[i] : i \in legit[n] \union slop[n]}] :
         legit \in cuts("LEGIT"), slop \in cuts("SLOP")}

Hash(row) == <<row.title, row.pull>>

(* Mutant of Leaks: whole rows are compared, labels included. *)
LeaksWithLabel(s) == \E m, n \in Splits : m # n /\ s[m] \intersect s[n] # {}

(* assert_no_leakage: title and diff in two splits, whatever the labels.      *)
Leaks(s) == \E m, n \in Splits : m # n /\ \E a \in s[m], b \in s[n] : Hash(a) = Hash(b)

(* The earlier build checked its splits before it wrote them.                 *)
ASSUME EarlierAssumption == ~ Leaks(Earlier)

Aborts == builder' = "aborted" /\ UNCHANGED <<built, builds>>

(* The log is read if the operator gives it (--feedback-log).  Reading it     *)
(* raises where a line is no JSON, and may for want of a token, of the file   *)
(* or of an answer.                                                           *)
Build(given) ==
  /\ builder \in {"idle", "aborted"} /\ builds < MaxBuilds
  /\ \/ given /\ Aborts
     \/ /\ given => ~ spoilt
        /\ \E answer \in Answers, drawn \in Draws :
             \E real \in Shuffled(Raw \o IF given THEN Feedback(answer) ELSE << >>) :
               LET s == [n \in Splits |-> real[n] \union drawn[n]]
               IN  IF Leaks(s) THEN Aborts
                   ELSE builder' = "train" /\ built' = s /\ builds' = builds + 1
  /\ UNCHANGED <<vars, spoilt, diskVars, fitVars>>

(* _write overwrites the files one by one. *)
WriteSplit == /\ builder \in Splits
              /\ files' = [files EXCEPT ![builder] = built[builder]]
              /\ builder' = [train |-> "val", val |-> "test", test |-> "idle"][builder]
              /\ torn' = (builder # "test")
              /\ learned' = [learned EXCEPT !.whole = FALSE]
              /\ model' = [model EXCEPT !.whole = FALSE]
              /\ built' = IF builder = "test" THEN Nothing ELSE built
              /\ UNCHANGED <<vars, spoilt, builds, trainer, fits, tested>>

BreakOff == /\ builder \in Splits
            /\ builder' = "idle"
            /\ built' = Nothing
            /\ UNCHANGED <<vars, spoilt, builds, diskVars, fitVars>>
-----------------------------------------------------------------------------
(* train.py reads two of the files at its start, and saves the model it fits  *)
(* to the first with the cutoff chosen on the second.                         *)

ReadTrain == /\ trainer = "idle" /\ fits < MaxFits
             /\ learned' = [rows |-> [Nothing EXCEPT !["train"] = files["train"]], whole |-> ~ torn]
             /\ trainer' = "reading"
             /\ fits' = fits + 1
             /\ UNCHANGED <<vars, spoilt, buildVars, diskVars, model, tested>>

ReadVal == /\ trainer = "reading"
           /\ learned' = [learned EXCEPT !.rows["val"] = files["val"]]
           /\ trainer' = "fitting"
           /\ UNCHANGED <<vars, spoilt, buildVars, diskVars, fits, model, tested>>

Save == /\ trainer = "fitting"
        /\ model' = learned
        /\ trainer' = "idle"
        /\ learned' = Unread
        /\ UNCHANGED <<vars, spoilt, buildVars, diskVars, fits, tested>>

(* evaluate.py. *)
Evaluate == /\ model.rows # Nothing
            /\ tested' = [model EXCEPT !.rows["test"] = files["test"]]
            /\ UNCHANGED <<vars, spoilt, buildVars, diskVars, trainer, fits, learned, model>>

(* A row of the log that could not be written may have broken off.            *)
Spoils == spoilt' = spoilt \/ (EncodeError /\ spoilt' = TRUE)

Gateway == Next /\ Spoils /\ UNCHANGED <<buildVars, diskVars, fitVars>>

LoopNext == \/ Gateway
            \/ \E given \in BOOLEAN : Build(given)
            \/ WriteSplit \/ BreakOff
            \/ ReadTrain \/ ReadVal \/ Save \/ Evaluate

(* The gateway is scheduled; nobody need ever train anything.                 *)
LoopSpec == LoopInit /\ [][LoopNext]_loopVars /\ Fairness
-----------------------------------------------------------------------------
(* The rows of a split by title and diff. *)
Hashes(rows) == {Hash(row) : row \in rows}

(* "a passing precision result cannot be produced from a leaked dataset": the *)
(* gate judges a model on rows it was neither fit to nor its cutoff chosen    *)
(* on, however often a removal was recorded and whatever the labels, if no    *)
(* build wrote between the start of training and the gate, and none before    *)
(* broke off between two files.  Nothing in the code sees to that condition.  *)
HeldOut ==
  tested.whole =>
    \A m, n \in Splits : m # n => Hashes(tested.rows[m]) \intersect Hashes(tested.rows[n]) = {}

(* A correction is not lost on its way: a build that is given the log when a  *)
(* call of Close has returned, and gets to its files, has a LEGIT row for     *)
(* every disagreement that Record accepted, unless the log or GitHub failed.  *)
CorrectionsKept ==
  [][(\E c \in Closers : closer[c] = "returned") /\ builds' > builds /\ Build(TRUE) =>
       \A s \in Signals :
         recorded[s] = "true" /\ s \notin unwritten /\ "noDiff" \notin Fetches[PullOf[s]] =>
           \E n \in Splits, row \in Rows :
             row \in built'[n] /\ row.pull = PullOf[s] /\ row.label = "LEGIT"]_loopVars
=============================================================================
