------------------------------ MODULE Converter ------------------------------
(***************************************************************************)
(* The docker2fl command, src/docker2fl/src/main.rs, run(): make the       *)
(* artifact file, build the router from the --store URLs, make a temporary *)
(* directory, convert the image, and remove the artifact when the          *)
(* conversion failed.  Each step that can fail is a choice of outcome; an  *)
(* error returned with `?` ends the process with exit status 1, a failed   *)
(* expect() or unwrap() ends it with a panic.  The image, the store URLs   *)
(* and the blocks uploaded are left out: only whether the artifact file    *)
(* exists when the process ends is observed.                               *)
(***************************************************************************)

VARIABLES
    pc,        \* the next statement of run(), or how the process ended
    artifact,  \* the file fl_name exists
    converted  \* convert() returned Ok

vars == <<pc, artifact, converted>>

Ends == {"exit0", "exit1", "panic"}

TypeOK ==
    /\ pc \in {"runtime", "logger", "writer", "router", "tmpdir", "convert", "remove"} \cup Ends
    /\ artifact \in BOOLEAN
    /\ converted \in BOOLEAN

Init == pc = "runtime" /\ artifact = FALSE /\ converted = FALSE

(* main(): the tokio runtime is built with unwrap().                       *)
BuildRuntime ==
    /\ pc = "runtime"
    /\ pc' \in {"logger", "panic"}
    /\ UNCHANGED <<artifact, converted>>

(* Options::parse() and SimpleLogger ... .init()?                          *)
InitLogger ==
    /\ pc = "logger"
    /\ pc' \in {"writer", "exit1"}
    /\ UNCHANGED <<artifact, converted>>

(* fungi::Writer::new(&fl_name, true).await?: on success the artifact file *)
(* exists.                                                                 *)
NewWriter ==
    /\ pc = "writer"
    /\ \/ pc' = "router" /\ artifact' = TRUE
       \/ pc' = "exit1" /\ UNCHANGED artifact
    /\ UNCHANGED converted

(* parse_router(&opts.store).await?: an error returns at once.             *)
ParseRouter ==
    /\ pc = "router"
    /\ pc' \in {"tmpdir", "exit1"}
    /\ UNCHANGED <<artifact, converted>>

(* tempdir::TempDir::new(&container_name).expect(...)                      *)
MakeTempDir ==
    /\ pc = "tmpdir"
    /\ pc' \in {"convert", "panic"}
    /\ UNCHANGED <<artifact, converted>>

(* docker_to_fl.convert(store, None).await: Ok ends run() with Ok(()).     *)
Convert ==
    /\ pc = "convert"
    /\ converted' \in BOOLEAN
    /\ pc' = IF converted' THEN "exit0" ELSE "remove"
    /\ UNCHANGED artifact

(* res.is_err(): tokio::fs::remove_file(fl_name).await?, then return res; *)
(* an error of remove_file is returned in place of res.                    *)
RemoveArtifact ==
    /\ pc = "remove"
    /\ \/ pc' = "exit1" /\ artifact' = FALSE
       \/ pc' = "exit1" /\ UNCHANGED artifact
    /\ UNCHANGED converted

Next ==
    \/ BuildRuntime \/ InitLogger \/ NewWriter \/ ParseRouter
    \/ MakeTempDir \/ Convert \/ RemoveArtifact

Spec == Init /\ [][Next]_vars
-----------------------------------------------------------------------------
(***************************************************************************)
(* spec.md section 6, Converter CLI: "On any failure after the artifact    *)
(* file has been created, the artifact file is deleted before exit."  A    *)
(* run of docker2fl that does not end in exit status 0 leaves no artifact, *)
(* whatever step of run() failed.                                          *)
(***************************************************************************)
FailureLeavesNoArtifact ==
    pc \in {"exit1", "panic"} => ~artifact
=============================================================================
