---------------------------- MODULE TokenSource ----------------------------
(***************************************************************************)
(* How the three backends' Generate methods read a token stream, one line  *)
(* of the response at a time: worker/adapters/vllm, worker/adapters/ollama *)
(* and services/provider/openai.go.                                        *)
(*                                                                         *)
(* A line is one of                                                        *)
(*   text    content             last   content with a finish reason       *)
(*   finish  a finish reason     usage  token counts only                  *)
(*   DONE    the [DONE] marker   error  an error object                    *)
(*   junk    undecodable         blank  a keep-alive or comment            *)
(*   eof     the body ends       broken reading it fails                   *)
(* For Ollama "finish" and "last" are lines with done = true; it has no    *)
(* usage-only lines and no [DONE].                                         *)
(***************************************************************************)
EXTENDS Naturals, Sequences

Adapters == {"vllm", "ollama", "openai"}

Content == {"text", "last"}
Endings == {"eof", "broken"}

Lines(a) ==
    {"text", "last", "finish", "error", "junk", "blank"} \cup Endings
        \cup (IF a = "ollama" THEN {} ELSE {"usage", "DONE"})

\* What reading a line leads to: a chunk for the sink (or none), and then
\* reading on ("go") or returning nil or an error.
Outcome(emit, ret) == [emit |-> emit, ret |-> ret]

vllm(line) ==
    CASE line = "text" -> Outcome("text", "go")
      [] line = "last" -> Outcome("textdone", "nil")
      [] line \in {"finish", "DONE", "eof"} -> Outcome("done", "nil")
      [] line \in {"usage", "blank"} -> Outcome("none", "go")
      [] line \in {"error", "junk", "broken"} -> Outcome("none", "internal")

\* Ollama's lines are read to the end of the body, past the done line, and
\* the end of the body emits nothing.
ollama(line) ==
    CASE line = "text" -> Outcome("text", "go")
      [] line = "last" -> Outcome("textdone", "go")
      [] line = "finish" -> Outcome("done", "go")
      [] line = "blank" -> Outcome("none", "go")
      [] line = "eof" -> Outcome("none", "nil")
      [] line \in {"error", "junk", "broken"} -> Outcome("none", "internal")

\* The provider client skips what it cannot decode and error objects, and it
\* does not ask the scanner why it stopped.
openai(line) ==
    CASE line = "text" -> Outcome("text", "go")
      [] line = "last" -> Outcome("textdone", "nil")
      [] line \in {"finish", "DONE", "eof", "broken"} -> Outcome("done", "nil")
      [] line \in {"usage", "blank", "error", "junk"} -> Outcome("none", "go")

OnLine(a, line) ==
    CASE a = "vllm" -> vllm(line) [] a = "ollama" -> ollama(line) [] a = "openai" -> openai(line)

\* An error object or an error body that names a missing model.
ModelMissing(a, line) == line = "error" /\ a # "openai"

\* Post's answer: the body follows, the model is missing, or another failure.
PostOutcomes == {"ok", "notfound", "internal"}
=============================================================================
