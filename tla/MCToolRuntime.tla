--------------------------- MODULE MCToolRuntime ---------------------------
(***************************************************************************)
(* The instance of ToolRuntime that TLC checks: a run over HTTP whose model  *)
(* repeats itself and asks for what is refused, beside a run over a          *)
(* command-line backend that loads the same workers.                        *)
(***************************************************************************)
EXTENDS ToolRuntime

MCBackends == [r1 |-> {"ollama", "remote"}, r2 |-> {"cli"}]
MCToolWorker == [look |-> "tool"]
MCBatches == {<<"look">>, <<"look", "no", "no">>}
=============================================================================
