------------------------------ MODULE SwarmSSM ------------------------------
(***************************************************************************)
(* CollectViaSSM of internal/swarm/ssm.go: two documents are read from a   *)
(* manager node by shell commands sent over AWS SSM.  Each is staged in a  *)
(* temporary file, read back in chunks and removed.  The agent on the node *)
(* runs a command whenever it gets to it, whether or not the client still  *)
(* waits for it.                                                           *)
(*                                                                         *)
(* The bytes of a document are left out: a chunk is read whole or short.   *)
(***************************************************************************)
EXTENDS Naturals, Sequences, FiniteSets

CONSTANT Chunks   \* how many chunks a staged document has

ASSUME ChunksAssumption == Chunks \in Nat

Docs == <<"services", "config">>

VARIABLES
  step,      \* "find", "stage", "cut", "remove", "ended" or "failed"
  doc,       \* the document that is fetched, an index of Docs
  command,   \* the command the client waits for
  agent,     \* the commands sent: "queued", "ran", "odd", "broke" or "lost"
  staged,    \* the documents with a temporary file on the node
  known,     \* those whose file the client was told of
  received,  \* the chunks read of the present document: "whole" or "short"
  broken,    \* has fetching it failed?
  fetched    \* the documents that were returned, with their chunks

ssmVars == <<step, doc, command, agent, staged, known, received, broken, fetched>>

Command(op, n) == [op |-> op, doc |-> doc, n |-> n]
NoCommand == [op |-> "none", doc |-> 0, n |-> 0]

Idle == command = NoCommand

-----------------------------------------------------------------------------
(* The agent                                                               *)

RunCommand(c, result) ==
  /\ agent[c] = "queued"
  /\ c.op = "cut" /\ c.doc \notin staged => result = "broke"
  /\ c.op = "remove" => result # "odd"
  /\ agent' = [agent EXCEPT ![c] = result]
  \* a script that fails after mktemp leaves the file
  /\ \/ c.op = "stage" /\ staged' = staged \cup {c.doc}
     \/ c.op = "stage" /\ result = "broke" /\ staged' = staged
     \/ c.op = "cut" /\ staged' = staged
     \/ c.op = "remove" /\ staged' = IF result = "ran" THEN staged \ {c.doc} ELSE staged
  /\ UNCHANGED <<step, doc, command, known, received, broken, fetched>>

-----------------------------------------------------------------------------
(* The client                                                              *)

\* findManager: the first running instance with the tag, if there is one.
FindManager(found) ==
  /\ step = "find"
  /\ step' = IF found THEN "stage" ELSE "failed"
  /\ UNCHANGED <<doc, command, agent, staged, known, received, broken, fetched>>

\* The command a step sends; the chunks are read one after the other.
Due ==
  CASE step = "stage" -> Command("stage", 0)
    [] step = "cut" -> Command("cut", Len(received) + 1)
    [] step = "remove" -> Command("remove", 0)
    [] OTHER -> NoCommand

Sending == Idle /\ Due # NoCommand /\ ~(step = "cut" /\ Len(received) = Chunks)

\* SendCommand
Send ==
  /\ Sending
  /\ command' = Due
  /\ agent' = [c \in DOMAIN agent \cup {Due} |-> IF c = Due THEN "queued" ELSE agent[c]]
  /\ UNCHANGED <<step, doc, staged, known, received, broken, fetched>>

\* The document at hand is complete, or fetching it has failed; the collection
\* goes on with the next one or ends.
Finish(failed) ==
  IF failed THEN step' = "failed" /\ UNCHANGED <<doc, received, broken, fetched>>
  ELSE /\ fetched' = Append(fetched, received)
       /\ IF doc = Len(Docs) THEN step' = "ended" /\ UNCHANGED <<doc, received, broken>>
          ELSE step' = "stage" /\ doc' = doc + 1 /\ received' = <<>> /\ broken' = FALSE

\* Mutant: the file is removed only after all of it was read.
Abandon_KeepFile ==
  IF step = "remove" THEN Finish(broken) ELSE Finish(TRUE)

\* A command has failed: nothing is staged yet, or the file is removed, or the
\* failure of the removal is ignored.
Abandon ==
  CASE step = "stage" -> Finish(TRUE)
    [] step = "cut" -> step' = "remove" /\ broken' = TRUE /\ UNCHANGED <<doc, received, fetched>>
    [] step = "remove" -> Finish(broken)

SendFails ==
  /\ Sending
  /\ agent' = [c \in DOMAIN agent \cup {Due} |-> IF c = Due THEN "lost" ELSE agent[c]]
  /\ Abandon
  /\ UNCHANGED <<command, staged, known>>

\* Mutant: a command that has not begun is waited for.
GiveUp_NotPending ==
  /\ ~Idle /\ agent[command] # "queued"
  /\ command' = NoCommand
  /\ Abandon
  /\ UNCHANGED <<agent, staged, known>>

\* run: the command took longer than its timeout, or its state could not be read.
GiveUp ==
  /\ ~Idle
  /\ command' = NoCommand
  /\ Abandon
  /\ UNCHANGED <<agent, staged, known>>

\* run: the command has ended.  The answer to staging must be a size and a path.
Read ==
  /\ ~Idle /\ agent[command] \in {"ran", "odd", "broke"}
  /\ command' = NoCommand
  /\ IF agent[command] = "broke" \/ (step = "stage" /\ agent[command] = "odd")
     THEN Abandon /\ UNCHANGED known
     ELSE CASE step = "stage" ->
                 /\ known' = known \cup {doc} /\ step' = "cut"
                 /\ UNCHANGED <<doc, received, broken, fetched>>
            [] step = "cut" ->
                 /\ received' = Append(received, IF agent[command] = "ran" THEN "whole" ELSE "short")
                 /\ UNCHANGED <<step, doc, known, broken, fetched>>
            [] step = "remove" -> Finish(broken) /\ UNCHANGED known
  /\ UNCHANGED <<agent, staged>>

\* fetch: fewer bytes than were staged, or none, which is no gzip stream.
Unusable == Chunks = 0 \/ "short" \in {received[n] : n \in DOMAIN received}

Decode ==
  /\ step = "cut" /\ Idle /\ Len(received) = Chunks
  /\ step' = "remove" /\ broken' = Unusable
  /\ UNCHANGED <<doc, command, agent, staged, known, received, fetched>>

-----------------------------------------------------------------------------

SSMInit ==
  /\ step = "find" /\ doc = 1 /\ command = NoCommand /\ agent = <<>>
  /\ staged = {} /\ known = {} /\ received = <<>> /\ broken = FALSE /\ fetched = <<>>

Client ==
  \/ \E found \in BOOLEAN : FindManager(found)
  \/ Send \/ SendFails \/ GiveUp \/ Read \/ Decode

Agent ==
  \E c \in DOMAIN agent, result \in {"ran", "odd", "broke"} : RunCommand(c, result)

SSMNext == Client \/ Agent

SSMEnded == step \in {"ended", "failed"}

(***************************************************************************)
(* "removes the staged file": when the collection has ended, a file it was *)
(* told of is left on the node only if its removal was asked for and has   *)
(* not, or not yet, taken place.                                           *)
(***************************************************************************)
StagedFileRemoved ==
  SSMEnded => \A d \in known \cap staged :
    \E c \in DOMAIN agent :
      c.op = "remove" /\ c.doc = d /\ agent[c] \in {"queued", "broke", "lost"}
=============================================================================
