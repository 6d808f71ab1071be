----------------------------- MODULE Reporting -----------------------------
(***************************************************************************)
(* The reports of one period, as rmm-evidence writes them: period-close    *)
(* and period-revise (internal/evidence/report, export), finalize with its *)
(* backup (finalmanifest, signing, backup), annual (annual), and print.    *)
(*                                                                         *)
(* A command is a process that goes through the steps of its script, one   *)
(* read or write of the database or of a file at a time, while others go   *)
(* through theirs.  It may be refused, fail or be killed at any step; it   *)
(* undoes nothing, so what it has written stays as it is.                  *)
(*                                                                         *)
(* A hash is taken to be the content.  What is only displayed is left out: *)
(* the status and the warnings of a report, final_manifests,               *)
(* annual_packages, backup_runs, and the entries that these commands write *)
(* to the audit log.                                                       *)
(***************************************************************************)
EXTENDS Integers, SequencesExt

CONSTANTS
    Commands,       \* processes of rmm-evidence
    Datasets,       \* export.Datasets, in order
    MaxRuns,        \* bound on the commands that are started
    MaxStops,       \* bound on those that fail or are killed
    MaxCommits      \* bound on the changes of the records

VARIABLES
    data,       \* how often the records were changed when last read
    reports,    \* the rows of the period, the original first
    keys,       \* signing_keys
    files,      \* <<place, number, name>> -> what is in the file
    runs,       \* how many commands were started
    stops,      \* how many failed or were killed
    cmd,        \* command -> what it is doing
    settled     \* directories that were written to the end, by one alone

reportingVars == <<data, reports, keys, files, runs, stops, cmd, settled>>

Places == {"report", "backup", "annual", "keys"}
Signed == Datasets \o <<"evidence-manifest", "report.pdf">>
Walk == Datasets \o <<"evidence-manifest", "final-manifest", "signature", "report.pdf">>

Others == {"key", "evidence-manifest", "report.pdf", "final-manifest", "signature",
           "annual-manifest", "annual-signature"}
Names == Range(Datasets) \cup Others

ASSUME ReportingAssumption ==
    /\ {MaxRuns, MaxStops, MaxCommits} \subseteq Nat
    /\ Datasets \in Seq(STRING) /\ IsInjective(Datasets)
    /\ Range(Datasets) \cap (Others \cup {"none"}) = {}

(* What is in a file: nothing yet, or all of it.                           *)
Torn == <<>>
Whole(content) == <<content>>
Says(path) == files[path][1]

-----------------------------------------------------------------------------
(* The scripts: steps <<what, where, file>>.                               *)

Write(place, file) == << <<"create", place, file>>, <<"fill", place, file>> >>

WriteEvidencePackage ==
    FlattenSeq([i \in DOMAIN Datasets |->
        << <<"create", "report", Datasets[i]>>, <<"dump", "report", Datasets[i]>>,
           <<"hash", "report", Datasets[i]>> >>])
    \o Write("report", "evidence-manifest")

EnsureKey ==
    << <<"load", "keys", "key">> >> \o Write("keys", "key")
    \o << <<"register", "keys", "key">> >>

(* Mutant: the PDF is hashed before it is written out. *)
FinalManifestEarly ==
    << <<"collect", "report", "report.pdf">>, <<"create", "report", "report.pdf">> >>
    \o [i \in DOMAIN Signed |-> <<"hash", "report", Signed[i]>>]
    \o << <<"fill", "report", "report.pdf">> >>
    \o Write("report", "final-manifest") \o Write("report", "signature")

FinalManifest ==
    << <<"collect", "report", "report.pdf">> >> \o Write("report", "report.pdf")
    \o [i \in DOMAIN Signed |-> <<"hash", "report", Signed[i]>>]
    \o Write("report", "final-manifest") \o Write("report", "signature")

Copy(place) ==
    FlattenSeq([i \in DOMAIN Walk |->
        << <<"copy", place, Walk[i]>>, <<"compare", place, Walk[i]>> >>])

One(what, place) == << <<what, place, "none">> >>

periodClose == One("original", "report") \o WriteEvidencePackage \o One("insert", "report")

periodRevise == One("revise", "report") \o WriteEvidencePackage \o One("insert", "report")

finalize ==
    One("find", "report") \o EnsureKey \o FinalManifest \o One("record", "report")
    \o Copy("backup") \o One("record", "backup")

(* Without the copy of the whole package that --backup asks for. *)
annualClose ==
    EnsureKey \o One("latest", "annual") \o Copy("annual") \o One("check", "annual")
    \o Write("annual", "annual-manifest") \o Write("annual", "annual-signature")
    \o One("record", "annual")

(* print is given the directory and reads no row.  Only finalize, which    *)
(* does, puts a final manifest there, so the row is there as well.         *)
printReport == One("find", "report") \o One("verify", "report")

Script ==
    [close    |-> periodClose,
     revise   |-> periodRevise,
     finalize |-> finalize,
     annual   |-> annualClose,
     print    |-> printReport]

-----------------------------------------------------------------------------
NoCommand == [kind |-> "none"]
Running == {p \in Commands : cmd[p].kind # "none"}

ReportingInit ==
    /\ data = 0
    /\ reports = <<>>
    /\ keys = {}
    /\ files = <<>>
    /\ runs = 0
    /\ stops = 0
    /\ cmd = [p \in Commands |-> NoCommand]
    /\ settled = {}

Launch(p, kind) ==
    /\ cmd[p] = NoCommand
    /\ runs < MaxRuns
    /\ runs' = runs + 1
    /\ cmd' = [cmd EXCEPT ![p] =
                  [kind |-> kind, run |-> runs', pc |-> 1, rev |-> 0,
                   hashes |-> <<>>, bundle |-> <<>>, data |-> 0, key |-> 0, good |-> TRUE,
                   present |-> {}, dir |-> <<"none", 0>>, alone |-> TRUE]]
    /\ UNCHANGED <<data, reports, keys, files, stops, settled>>

-----------------------------------------------------------------------------
Op(p) == Script[cmd[p].kind][cmd[p].pc]
At(p, what) == cmd[p].kind # "none" /\ Op(p)[1] = what

(* It goes on to the step that is n further. *)
Skip(c, n) ==
    IF c.pc + n > Len(Script[c.kind]) THEN NoCommand ELSE [c EXCEPT !.pc = @ + n]

Proceed(p, c) == cmd' = [cmd EXCEPT ![p] = Skip(c, 1)]

(* From here on p writes to dir, or reads it; who shares it with a writer  *)
(* is not alone.                                                           *)
Enter(p, c, dir, writes) ==
    LET others == {q \in Running \ {p} : cmd[q].dir = dir}
    IN  cmd' = [q \in Commands |->
                   IF q = p
                   THEN Skip([c EXCEPT !.dir = dir,
                                       !.alone = \A o \in others : cmd[o].kind = "print"], 1)
                   ELSE IF q \in others /\ writes THEN [cmd[q] EXCEPT !.alone = FALSE]
                   ELSE cmd[q]]

Number(p, place) == IF place \in {"report", "backup"} THEN cmd[p].rev ELSE 0
Path(p, place, name) == <<place, Number(p, place), name>>
File(p) == Path(p, Op(p)[2], Op(p)[3])

Put(path, content) ==
    files' = [q \in DOMAIN files \cup {path} |-> IF q = path THEN content ELSE files[q]]

-----------------------------------------------------------------------------
(* Files.                                                                  *)

Content(p) ==
    CASE Op(p)[3] = "key"               -> cmd[p].run
      [] Op(p)[3] = "evidence-manifest" -> cmd[p].hashes
      [] Op(p)[3] = "report.pdf" ->
            [run |-> cmd[p].run, data |-> cmd[p].data, bundle |-> cmd[p].bundle]
      [] Op(p)[3] = "final-manifest" ->
            [key |-> cmd[p].key, bundle |-> cmd[p].bundle, files |-> cmd[p].hashes]
      [] Op(p)[3] = "signature" ->
            [key |-> cmd[p].key,
             of  |-> [key |-> cmd[p].key, bundle |-> cmd[p].bundle, files |-> cmd[p].hashes]]
      [] Op(p)[3] = "annual-manifest" ->
            [key |-> cmd[p].key, run |-> cmd[p].run, bundle |-> cmd[p].bundle,
             verified |-> cmd[p].good]
      [] Op(p)[3] = "annual-signature" ->
            [key |-> cmd[p].key,
             of  |-> [key |-> cmd[p].key, run |-> cmd[p].run, bundle |-> cmd[p].bundle,
                      verified |-> cmd[p].good]]

Create(p) ==
    /\ At(p, "create")
    /\ Put(File(p), Torn)
    /\ Proceed(p, IF Op(p)[3] = "key" THEN [cmd[p] EXCEPT !.key = cmd[p].run] ELSE cmd[p])
    /\ UNCHANGED <<data, reports, keys, runs, stops, settled>>

Fill(p) ==
    /\ At(p, "fill")
    /\ Put(File(p), Whole(Content(p)))
    /\ Proceed(p, cmd[p])
    /\ UNCHANGED <<data, reports, keys, runs, stops, settled>>

(* Commands such as cost-add have changed the records, or not, since they  *)
(* were last read.                                                         *)
Newer == data..MaxCommits

Dump(p) ==
    /\ At(p, "dump")
    /\ data' \in Newer
    /\ Put(File(p), Whole(data'))
    /\ Proceed(p, cmd[p])
    /\ UNCHANGED <<reports, keys, runs, stops, settled>>

Hash(p) ==
    /\ At(p, "hash")
    /\ File(p) \in DOMAIN files
    /\ Proceed(p, [cmd[p] EXCEPT !.hashes =
                   [f \in DOMAIN @ \cup {Op(p)[3]} |->
                       IF f = Op(p)[3] THEN files[File(p)] ELSE @[f]]])
    /\ UNCHANGED <<data, reports, keys, files, runs, stops, settled>>

-----------------------------------------------------------------------------
(* period-close and period-revise.                                         *)

FindOriginal(p) ==
    /\ At(p, "original")
    /\ reports = <<>>
    /\ Enter(p, [cmd[p] EXCEPT !.rev = 0], <<"package", 0>>, TRUE)
    /\ UNCHANGED <<data, reports, keys, files, runs, stops, settled>>

(* Mutant: off by one. *)
RevisionAfter(rows) == Len(rows) - 1

NextRevision(rows) == Len(rows)

FindPrevious(p) ==
    /\ At(p, "revise")
    /\ reports # <<>>
    /\ Enter(p, [cmd[p] EXCEPT !.rev = NextRevision(reports)],
             <<"package", NextRevision(reports)>>, TRUE)
    /\ UNCHANGED <<data, reports, keys, files, runs, stops, settled>>

(* report_id is UNIQUE. *)
Recorded(rev) == \E i \in DOMAIN reports : reports[i].rev = rev

WriteReport(p) ==
    /\ At(p, "insert")
    /\ ~Recorded(cmd[p].rev)
    /\ reports' = Append(reports, [rev |-> cmd[p].rev, bundle |-> cmd[p].hashes,
                                   alone |-> cmd[p].alone])
    /\ Proceed(p, cmd[p])
    /\ UNCHANGED <<data, keys, files, runs, stops, settled>>

-----------------------------------------------------------------------------
(* EnsureKey: load the key, or generate, save, and in any case register it.*)

Loadable(path) == path \in DOMAIN files /\ files[path] # Torn

LoadKey(p) ==
    /\ At(p, "load")
    /\ cmd' = [cmd EXCEPT ![p] =
                  IF Loadable(File(p)) THEN Skip([@ EXCEPT !.key = Says(File(p))], 3)
                  ELSE Skip(@, 1)]
    /\ UNCHANGED <<data, reports, keys, files, runs, stops, settled>>

(* Mutant: a key that was found is not registered. *)
RegisterGenerated(p) ==
    /\ At(p, "register")
    /\ keys' = IF cmd[p].key = cmd[p].run THEN keys \cup {cmd[p].key} ELSE keys
    /\ Proceed(p, cmd[p])
    /\ UNCHANGED <<data, reports, files, runs, stops, settled>>

Register(p) ==
    /\ At(p, "register")
    /\ keys' = keys \cup {cmd[p].key}
    /\ Proceed(p, cmd[p])
    /\ UNCHANGED <<data, reports, files, runs, stops, settled>>

-----------------------------------------------------------------------------
(* finalize, annual and print.                                             *)

(* Mutant: always that of the latest revision. *)
LatestBundle(rev) == reports[Len(reports)].bundle

BundleOf(rev) == reports[rev + 1].bundle

(* reportRow: the latest revision or a given one. *)
FindReport(p) ==
    /\ At(p, "find")
    /\ \E rev \in {reports[i].rev : i \in DOMAIN reports} :
          LET c == [cmd[p] EXCEPT !.rev = rev, !.bundle = BundleOf(rev)]
          IN  /\ Enter(p, c, <<"report", rev>>, cmd[p].kind # "print")
              /\ settled' = IF cmd[p].kind = "print" THEN settled
                            ELSE settled \ {<<"report", rev>>, <<"backup", rev>>}
    /\ UNCHANGED <<data, reports, keys, files, runs, stops>>

(* pdf.Collect reads the records of now. *)
Collect(p) ==
    /\ At(p, "collect")
    /\ data' \in Newer
    /\ Proceed(p, [cmd[p] EXCEPT !.data = data'])
    /\ UNCHANGED <<reports, keys, files, runs, stops, settled>>

Present(dir) == {path[3] : path \in {q \in DOMAIN files : <<q[1], q[2]>> = dir}}

LatestReport(p) ==
    /\ At(p, "latest")
    /\ reports # <<>>
    /\ LET last == reports[Len(reports)]
       IN  Enter(p, [cmd[p] EXCEPT !.rev = last.rev, !.bundle = last.bundle,
                                   !.present = Present(<<"report", last.rev>>)],
                 <<"annual", 0>>, TRUE)
    /\ settled' = settled \ {<<"annual", 0>>}
    /\ UNCHANGED <<data, reports, keys, files, runs, stops>>

Source(p) == Path(p, "report", Op(p)[3])

(* filepath.Walk; a file that appears on the way may be missed.  Nobody    *)
(* else reads a copy while it is written, so that is one step.             *)
CopyFile(p) ==
    /\ At(p, "copy")
    /\ Source(p) \in DOMAIN files
    /\ Put(File(p), files[Source(p)])
    /\ Proceed(p, cmd[p])
    /\ UNCHANGED <<data, reports, keys, runs, stops, settled>>

SkipFile(p) ==
    /\ At(p, "copy")
    /\ Op(p)[3] \notin cmd[p].present
    /\ cmd' = [cmd EXCEPT ![p] = Skip(@, 2)]
    /\ UNCHANGED <<data, reports, keys, files, runs, stops, settled>>

CompareCopy(p) ==
    /\ At(p, "compare")
    /\ Proceed(p, [cmd[p] EXCEPT !.good = @ /\ files[File(p)] = files[Source(p)]])
    /\ UNCHANGED <<data, reports, keys, files, runs, stops, settled>>

-----------------------------------------------------------------------------
(* Verification.                                                           *)

Complete(path) == path \in DOMAIN files /\ files[path] # Torn

Matches(dir, hashes) ==
    \A f \in DOMAIN hashes :
        <<dir[1], dir[2], f>> \in DOMAIN files /\ files[<<dir[1], dir[2], f>>] = hashes[f]

(* It also returns the bundle hash, which is the manifest. *)
VerifyEvidencePackage(dir, bundle) ==
    LET manifest == <<dir[1], dir[2], "evidence-manifest">>
    IN  /\ Complete(manifest)
        /\ Matches(dir, Says(manifest))
        /\ Says(manifest) = bundle

SignatureFits(manifest, signature) ==
    /\ Complete(manifest) /\ Complete(signature)
    /\ Says(manifest).key \in keys
    /\ Says(signature) = [key |-> Says(manifest).key, of |-> Says(manifest)]

VerifyFinal(dir) ==
    LET manifest == <<dir[1], dir[2], "final-manifest">>
    IN  /\ SignatureFits(manifest, <<dir[1], dir[2], "signature">>)
        /\ Matches(dir, Says(manifest).files)

VerifyAnnual ==
    LET manifest == <<"annual", 0, "annual-manifest">>
    IN  /\ SignatureFits(manifest, <<"annual", 0, "annual-signature">>)
        /\ VerifyEvidencePackage(<<"annual", 0>>, Says(manifest).bundle)

CopyIsGood(p) == cmd[p].good /\ VerifyEvidencePackage(<<"annual", 0>>, cmd[p].bundle)

CheckCopy(p) ==
    /\ At(p, "check")
    /\ Complete(<<"annual", 0, "evidence-manifest">>)
    /\ Proceed(p, [cmd[p] EXCEPT !.good = CopyIsGood(p)])
    /\ UNCHANGED <<data, reports, keys, files, runs, stops, settled>>

(* What a backup does not look at any more. *)
Forget(c) == [c EXCEPT !.run = 0, !.hashes = <<>>, !.bundle = <<>>, !.data = 0, !.key = 0]

(* The command succeeds, unless a copy is not good; finalize goes on to a  *)
(* backup if it was asked for one.                                         *)
Record(p) ==
    /\ At(p, "record")
    /\ settled' = IF cmd[p].alone /\ cmd[p].good
                  THEN settled \cup {<<Op(p)[2], Number(p, Op(p)[2])>>} ELSE settled
    /\ \/ Proceed(p, Forget([cmd[p] EXCEPT !.present = Present(<<"report", cmd[p].rev>>)]))
       \/ Op(p)[2] = "report" /\ cmd' = [cmd EXCEPT ![p] = NoCommand]
    /\ UNCHANGED <<data, reports, keys, files, runs, stops>>

Printable(dir) == VerifyFinal(dir)

VerifyReport(p) ==
    /\ At(p, "verify")
    /\ Printable(<<"report", cmd[p].rev>>)
    /\ Proceed(p, cmd[p])
    /\ UNCHANGED <<data, reports, keys, files, runs, stops, settled>>

(* It fails or is killed, perhaps in the middle of a copy.  Before a step  *)
(* that only reads it may as well be killed before the next that writes.   *)
OnlyReads(p) ==
    \E what \in {"hash", "load", "collect", "compare", "check", "verify"} :
        At(p, what)

Stop(p) ==
    /\ p \in Running /\ ~OnlyReads(p)
    /\ stops < MaxStops
    /\ stops' = stops + 1
    /\ cmd' = [cmd EXCEPT ![p] = NoCommand]
    /\ \/ UNCHANGED files
       \/ At(p, "copy") /\ Put(File(p), Torn)
    /\ UNCHANGED <<data, reports, keys, runs, settled>>

(* What a command looks for is not there, or not as it should be. *)
Refused(p) ==
    \/ At(p, "original")
    \/ \E what \in {"revise", "find", "latest"} : At(p, what) /\ reports = <<>>
    \/ At(p, "insert") /\ Recorded(cmd[p].rev)
    \/ At(p, "hash") /\ File(p) \notin DOMAIN files
    \/ At(p, "check") /\ ~Complete(<<"annual", 0, "evidence-manifest">>)
    \/ At(p, "verify") /\ ~Printable(<<"report", cmd[p].rev>>)

Refuse(p) ==
    /\ Refused(p)
    /\ cmd' = [cmd EXCEPT ![p] = NoCommand]
    /\ UNCHANGED <<data, reports, keys, files, runs, stops, settled>>

-----------------------------------------------------------------------------
Step(p) ==
    \/ \E kind \in DOMAIN Script : Launch(p, kind)
    \/ Stop(p) \/ Refuse(p)
    \/ Create(p) \/ Fill(p) \/ Dump(p) \/ Hash(p)
    \/ FindOriginal(p) \/ FindPrevious(p) \/ WriteReport(p)
    \/ LoadKey(p) \/ Register(p)
    \/ FindReport(p) \/ Collect(p) \/ LatestReport(p)
    \/ CopyFile(p) \/ SkipFile(p) \/ CompareCopy(p) \/ CheckCopy(p)
    \/ Record(p)
    \/ VerifyReport(p)

ReportingNext == \E p \in Commands : Step(p)

ReportingSpec == ReportingInit /\ [][ReportingNext]_reportingVars
-----------------------------------------------------------------------------
NoDir == <<"none", 0>>

Versions == 0..MaxCommits
Bundles == [Range(Datasets) -> {Torn} \cup {Whole(v) : v \in Versions}]

(* A command on its way; what it has yet to find out is 0 or empty.        *)
OnItsWay(c) ==
    /\ c.kind \in DOMAIN Script /\ c.pc \in DOMAIN Script[c.kind]
    /\ c.run \in 0..runs /\ c.rev \in Nat /\ c.key \in 0..runs /\ c.data \in 0..data
    /\ c.good \in BOOLEAN /\ c.alone \in BOOLEAN
    /\ c.present \subseteq Names
    /\ c.bundle \in Bundles \cup {<<>>}

ReportingTypeOK ==
    /\ data \in Versions /\ runs \in 0..MaxRuns /\ stops \in 0..MaxStops
    /\ keys \subseteq 1..runs
    /\ reports \in Seq([rev : Nat, bundle : Bundles, alone : BOOLEAN])
    /\ DOMAIN files \subseteq Places \X Nat \X Names
    /\ \A p \in Running : OnItsWay(cmd[p])
    /\ settled \subseteq {"report", "backup", "annual"} \X Nat

(* Every report is recorded once, revisions are numbered without a gap,    *)
(* and each has its own package on the disk, with the bundle hash that was *)
(* recorded, whatever is closed, revised, finalized and copied later, and  *)
(* wherever a command was killed.  "A closed original report is never      *)
(* overwritten" (report.go:5-7).  As long as no other command was writing  *)
(* the same package when it was recorded.                                  *)
ReportIsKept ==
    \A i \in DOMAIN reports :
        /\ reports[i].rev = i - 1
        /\ reports[i].alone =>
              VerifyEvidencePackage(<<"report", i - 1>>, reports[i].bundle)

RowAlone(rev) == reports[rev + 1].alone

(* A report that was finalized verifies, and so does its backup, until it  *)
(* is finalized again; and an annual package whose months verified does,   *)
(* until the next one, whatever else is closed, revised, copied or cut     *)
(* short (phase6.go:37-158, annual.go:123-232).                            *)
SettledVerifies ==
    \A dir \in settled :
        CASE dir[1] = "annual" -> VerifyAnnual
          [] OTHER -> RowAlone(dir[2]) => VerifyFinal(dir)

(* Whatever verifies names the report that it is of: the bundle hash in    *)
(* manifest and PDF is the one that was recorded (phase6.go:72-95).        *)
VerifiedIsOfItsReport ==
    \A i \in DOMAIN reports :
        \A place \in {"report", "backup"} :
            VerifyFinal(<<place, i - 1>>) =>
                LET manifest == Says(<<place, i - 1, "final-manifest">>)
                IN  /\ manifest.bundle = reports[i].bundle
                    /\ manifest.files["report.pdf"] # Torn =>
                          manifest.files["report.pdf"][1].bundle = manifest.bundle

(* Every signature is by a registered key, though a process is killed      *)
(* between the file of a key and its registration, and though keys are     *)
(* generated at once (signing.go:138-158).                                 *)
SignedByKnownKey ==
    \A path \in DOMAIN files :
        path[3] \in {"signature", "annual-signature"} /\ files[path] # Torn
            => Says(path).key \in keys

(* "Re-verifies every copied file" (EVIDENCE-OPERATIONS.md): what is in an *)
(* annual package that verifies is of the revision it names.  It does not  *)
(* hold: the signed report of an earlier revision stays in the directory.  *)
AnnualIsOneRevision ==
    VerifyAnnual =>
        LET bundle == Says(<<"annual", 0, "annual-manifest">>).bundle
            pdf == <<"annual", 0, "report.pdf">>
        IN  Complete(pdf) => Says(pdf).bundle = bundle

(* The PDF of a report shows the figures of its package.  It does not      *)
(* hold: finalize reads the records of its own time.                       *)
PdfShowsThePackage ==
    \A i \in DOMAIN reports :
        VerifyFinal(<<"report", i - 1>>) =>
            \A t \in DOMAIN reports[i].bundle :
                Whole(Says(<<"report", i - 1, "report.pdf">>).data) = reports[i].bundle[t]
=============================================================================
