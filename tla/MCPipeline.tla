----------------------------- MODULE MCPipeline -----------------------------
(* Runs in a temporary directory, in ./splits by default, and in a named    *)
(* directory that is ./splits too; of a builtin that takes values (with and *)
(* without) and of one that takes none (where values are an error).         *)
EXTENDS Pipeline, TLC

Asked(builtin, config, override, dir, emit, plan) ==
  [builtin |-> builtin, config |-> config, override |-> override,
   dir |-> dir, emit |-> emit, plan |-> plan]

CommandLines ==
  {Asked("metrics", TRUE, FALSE, None, FALSE, FALSE),
   Asked("metrics", FALSE, TRUE, None, FALSE, TRUE),
   Asked("hello", FALSE, FALSE, DefaultDir, FALSE, FALSE)}

AnyRun == Permutations(Runs)
=============================================================================
