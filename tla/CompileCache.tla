---------------------------- MODULE CompileCache ----------------------------
(***************************************************************************)
(* The compilation cache (internal/dispatcher/compilecache.go) and the     *)
(* recompilations that clear it (reeval.go), seen from the results of      *)
(* submissions with the same inputs, which share one entry.  The key of an *)
(* entry does not tell the version of the compiler: a recompilation after  *)
(* an upgrade must run the new one.  A failed compilation is neither       *)
(* remembered nor compiled again, and left out.                            *)
(*                                                                         *)
(* required and straggled are history: the compiler of the moment a        *)
(* recompilation cleared the cache, for each row it invalidated; and       *)
(* whether a compilation by an older one was under way then.               *)
(***************************************************************************)
EXTENDS Integers

CONSTANTS
    Programs,       \* results of submissions with the same inputs
    \* Bounds of the model
    MaxCompiler,    \* the last version of the compiler
    MaxRecompiles   \* recompilations an administrator asks for

ASSUME CompileCacheAssumption ==
    MaxCompiler \in Nat \ {0} /\ MaxRecompiles \in Nat

VARIABLES
    compiler,     \* the version the workers have
    remembered,   \* the compiler of the remembered executables, 0 for none
    program,      \* the rows: generation and compiler of the executables
    builds,       \* compile jobs and results on their way
    recompile,    \* the recompilation under way: rows to come, compiler
    recompiles,
    required, straggled

compileVars == <<compiler, remembered, program, builds, recompile, recompiles,
                 required, straggled>>

Compilers == 1 .. MaxCompiler
Build == [program : Programs, gen : Nat, exe : {0} \cup Compilers]
NoRecompile == [rows |-> {}, since |-> 0]

CompileInit ==
    /\ compiler = 1 /\ remembered = 0
    /\ program = [p \in Programs |-> [gen |-> 0, exe |-> 0]]
    /\ builds = {}
    /\ recompile = NoRecompile /\ recompiles = 0
    /\ required = [p \in Programs |-> 0] /\ straggled = FALSE

\* Mutant: an entry without files is taken too.
cachedCompilationAnyway(p) ==
    /\ program[p].exe = 0
    /\ program' = [program EXCEPT ![p].exe = IF remembered = 0 THEN -1 ELSE remembered]
    /\ UNCHANGED <<compiler, remembered, builds, recompile, recompiles, required, straggled>>

\* advance, of a row that is not compiled yet (by an event or a sweep).
cachedCompilation(p) ==
    /\ program[p].exe = 0 /\ remembered # 0
    /\ program' = [program EXCEPT ![p].exe = remembered]
    /\ UNCHANGED <<compiler, remembered, builds, recompile, recompiles, required, straggled>>

compileRow(p) ==
    /\ program[p].exe = 0 /\ remembered = 0
    /\ builds' = builds \cup {[program |-> p, gen |-> program[p].gen, exe |-> 0]}
    /\ UNCHANGED <<compiler, remembered, program, recompile, recompiles, required, straggled>>

\* A worker starts a compilation with the compiler it has.
RunCompiler(b) ==
    /\ b.exe = 0
    /\ builds' = (builds \ {b}) \cup {[b EXCEPT !.exe = compiler]}
    /\ UNCHANGED <<compiler, remembered, program, recompile, recompiles, required, straggled>>

\* InsertCompilationCache: the first one stays.
rememberCompilation(b) == remembered' = IF remembered = 0 THEN b.exe ELSE remembered

\* handleSubmissionResult and applyCompilation, of a result of a worker.
compiledBy(b) ==
    /\ b.exe # 0
    /\ builds' = builds \ {b}
    /\ IF program[b.program].gen = b.gen /\ program[b.program].exe = 0
       THEN /\ program' = [program EXCEPT ![b.program].exe = b.exe]
            /\ rememberCompilation(b)
       ELSE UNCHANGED <<program, remembered>>
    /\ UNCHANGED <<compiler, recompile, recompiles, required, straggled>>

UpgradeCompiler ==
    /\ compiler < MaxCompiler
    /\ compiler' = compiler + 1
    /\ UNCHANGED <<remembered, program, builds, recompile, recompiles, required, straggled>>

(***************************************************************************)
(* Invalidate at the level of compilation: the rows are listed and the     *)
(* cache is cleared, and then the rows are invalidated, batch by batch.    *)
(***************************************************************************)
Recompiling(rows) ==
    /\ recompile = NoRecompile /\ recompiles < MaxRecompiles
    /\ recompiles' = recompiles + 1
    /\ recompile' = [rows |-> rows, since |-> compiler]
    /\ straggled' = (straggled \/ \E b \in builds : b.exe \in 1 .. compiler - 1)

\* Mutant: the cache stays.
ClearNothing(rows) ==
    /\ Recompiling(rows)
    /\ UNCHANGED <<compiler, remembered, program, builds, required>>

ClearCompilationCache(rows) ==
    /\ Recompiling(rows)
    /\ remembered' = 0
    /\ UNCHANGED <<compiler, program, builds, required>>

InvalidateBatch(p) ==
    /\ p \in recompile.rows
    /\ program' = [program EXCEPT ![p] = [gen |-> @.gen + 1, exe |-> 0]]
    /\ required' = [required EXCEPT ![p] = recompile.since]
    /\ recompile' = IF recompile.rows = {p} THEN NoRecompile
                    ELSE [recompile EXCEPT !.rows = @ \ {p}]
    /\ UNCHANGED <<compiler, remembered, builds, recompiles, straggled>>

\* A batch fails: the rows after it are left as they are.
InvalidateFails ==
    /\ recompile # NoRecompile
    /\ recompile' = NoRecompile
    /\ UNCHANGED <<compiler, remembered, program, builds, recompiles, required, straggled>>

CompileNext ==
    \/ \E p \in Programs : cachedCompilation(p) \/ compileRow(p) \/ InvalidateBatch(p)
    \/ \E b \in builds : RunCompiler(b) \/ compiledBy(b)
    \/ UpgradeCompiler
    \/ \E rows \in SUBSET Programs \ {{}} : ClearCompilationCache(rows)
    \/ InvalidateFails

CompileSpec == CompileInit /\ [][CompileNext]_compileVars

(***************************************************************************)
(* Properties.                                                             *)
(***************************************************************************)
\* Every variable has its type: a compiled row has the executables of some
\* compiler.
CompileTypeOK ==
    /\ compiler \in Compilers /\ remembered \in {0} \cup Compilers
    /\ program \in [Programs -> [gen : Nat, exe : {0} \cup Compilers]]
    /\ builds \in SUBSET Build
    /\ recompile \in [rows : SUBSET Programs, since : {0} \cup Compilers]
    /\ recompiles \in Nat
    /\ required \in [Programs -> Nat] /\ straggled \in BOOLEAN

\* "A recompilation really compiles: the cached executables may come from a
\* compiler since upgraded" (Invalidate): a row that was recompiled never has
\* executables of a compiler older than its recompilation, whoever else is
\* compiled between the clearing of the cache and the last batch; but for a
\* compilation by an older one that was already running, whose row is not yet
\* invalidated or not in the scope and which enters the cleared cache again.
RecompiledFresh ==
    \A p \in Programs : program[p].exe # 0 => straggled \/ program[p].exe >= required[p]

=============================================================================
