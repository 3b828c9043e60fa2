--------------------------------- MODULE Host ---------------------------------
(***************************************************************************)
(* The host's side of del.h: a compiler to which functions are registered   *)
(* and which compiles one text or file after the other, the programs it      *)
(* returns, and a machine that runs one.  The declarations of all texts stay  *)
(* in the compiler.  A block is what malloc returns; what the compiler keeps  *)
(* in its arena is the block "arena".                                        *)
(***************************************************************************)
EXTENDS Linking

CONSTANTS
  Foreigns,       \* names of functions that the host may register
  Texts,          \* [outcome, decls, methods]: how far a text gets, and what is parsed of it
  MaxCompiles, MaxDecls, MaxMachines      \* bounds
Outcomes == {"unreadable", "read error", "lex error", "parse error", "parsed"}
ASSUME HostAssumption ==
  /\ Foreigns \subseteq Nat \ {NONE}
  /\ \A text \in Texts : text.outcome \in Outcomes /\ text.decls \in Seq(Decl) /\ text.methods \in Nat

VARIABLES
  compiler,   \* "live", "freed" or, after a failed assert, "aborted"
  foreigns,   \* globals->foreign_function_table: names
  compiles,   \* number of compilations
  programs,   \* programs returned, with the number of strings in their pool
  machines,   \* machines of the host: the program and the status
  blocks      \* what is allocated

hostvars == <<compiler, foreigns, compiles, programs, machines>>
vars == <<linkvars, hostvars, blocks>>

Block(kind, of, number) == <<kind, of, number>>
Arena == Block("arena", 0, 0)
(* globals and the allocator                                                 *)
CompilerBlocks == {Block("globals", 0, 0), Block("allocator", 0, 0), Arena}

-----------------------------------------------------------------------------
HostInit ==
  /\ LinkInit
  /\ compiler = "live" /\ foreigns = << >> /\ compiles = 0 /\ programs = << >> /\ machines = << >>
  /\ blocks = CompilerBlocks

Idle == compiler # "aborted" /\ phase = "idle"

(* Asserts: a name is registered once and types are not objects.              *)
del_register_function(name, object) ==
  /\ Idle /\ compiler = "live" /\ Len(foreigns) < Cardinality(Foreigns)
  /\ IF Contains(foreigns, name) \/ object
     THEN compiler' = "aborted" /\ UNCHANGED foreigns
     ELSE foreigns' = Append(foreigns, name) /\ UNCHANGED compiler
  /\ UNCHANGED <<linkvars, compiles, programs, machines, blocks>>

(* ffi_register_functions declares what is registered once more.              *)
ForeignDecls == [i \in 1 .. Len(foreigns) |-> Foreign(foreigns[i])]

(* Mutant: new_tld_foreign_fundef does not count.                             *)
CountedOwn(text) == Len(text.decls) + text.methods
(* Every function, foreign or not, and every method is counted (new_tld_...).  *)
Counted(text) == Len(foreigns) + Len(text.decls) + text.methods
Literals(text) == Cardinality(StringsOf(text.decls))

(* Mutant: the counters begin again with every text.                          *)
StartAfresh(text) == StartTypecheck(ast \o ForeignDecls \o text.decls, Counted(text), Literals(text))
StartText(text) ==
  StartTypecheck(ast \o ForeignDecls \o text.decls, function_count + Counted(text), string_count + Literals(text))

(* del_compile_text and del_compile_file up to the type check.  What was parsed *)
(* before an error stays declared.                                           *)
Compile(text) ==
  /\ Idle /\ compiler = "live" /\ compiles < MaxCompiles
  /\ Len(ast) + Len(foreigns) + Len(text.decls) <= MaxDecls
  /\ compiles' = compiles + 1
  /\ CASE text.outcome \in {"unreadable", "lex error"} -> UNCHANGED <<linkvars, blocks>>
       [] text.outcome = "read error" ->
            blocks' = blocks \cup {Block("open file", 0, compiles')} /\ UNCHANGED linkvars
       [] text.outcome = "parse error" ->
            /\ ast' = ast \o ForeignDecls \o text.decls
            /\ function_count' = function_count + Counted(text)
            /\ string_count' = string_count + Literals(text)
            /\ UNCHANGED <<phase, next, cc, blocks>>
       [] text.outcome = "parsed" -> StartText(text) /\ UNCHANGED blocks
  /\ UNCHANGED <<compiler, foreigns, programs, machines>>

(* Mutant: the pool's strings are those of the tree, in the arena.            *)
StringOfArena(p, i) == Arena
StringBlock(p, i) == Block("string", p, i)
ProgramBlocks(p, strings, pooled) ==
  {Block("program", p, 0), Block("instructions", p, 0)} \cup {StringBlock(p, i) : i \in 1 .. strings}
  \cup IF pooled THEN {Block("pool", p, 0)} ELSE {}

(* A step of the compilation, and what compile allocates outside the arena.    *)
CompileStep ==
  /\ Link
  /\ blocks' = IF phase' \in {"emit", "resolve", "linked"}
               THEN blocks \cup (ProgramBlocks(Len(programs) + 1, Len(pool'), string_count > 0)
                                   \ {Block("program", Len(programs) + 1, 0)})
               ELSE blocks
  /\ UNCHANGED hostvars

Return ==
  /\ phase = "linked"
  /\ programs' = Append(programs, [strings |-> Len(pool), pooled |-> string_count > 0, live |-> TRUE])
  /\ blocks' = blocks \cup {Block("program", Len(programs'), 0)}
  /\ Enter("idle")
  /\ UNCHANGED <<globals, cc, compiler, foreigns, compiles, machines>>

del_compiler_free ==
  /\ Idle /\ compiler = "live"
  /\ compiler' = "freed" /\ blocks' = blocks \ CompilerBlocks
  /\ UNCHANGED <<linkvars, foreigns, compiles, programs, machines>>
-----------------------------------------------------------------------------
(* Machines.  The host runs a program before it frees it, as main does.        *)
MachineBlocks(m) == {Block("vm", m, 0), Block("memory", m, 0)}

del_vm_init(p) ==
  /\ Idle /\ Len(machines) < MaxMachines /\ programs[p].live
  /\ machines' = Append(machines, [program |-> p, status |-> "initialized"])
  /\ blocks' = blocks \cup MachineBlocks(Len(machines'))
  /\ UNCHANGED <<linkvars, compiler, foreigns, compiles, programs>>

del_vm_execute(m) ==
  /\ Idle /\ machines[m].status \in {"initialized", "yield"}
  /\ \E status \in {"error", "completed", "yield"} : machines' = [machines EXCEPT ![m].status = status]
  /\ UNCHANGED <<linkvars, compiler, foreigns, compiles, programs, blocks>>

del_vm_free(m) ==
  /\ Idle /\ machines[m].status \in {"error", "completed"}
  /\ machines' = [machines EXCEPT ![m].status = "freed"]
  /\ blocks' = blocks \ MachineBlocks(m)
  /\ UNCHANGED <<linkvars, compiler, foreigns, compiles, programs>>

del_program_free(p) ==
  /\ Idle /\ programs[p].live
  /\ \A m \in 1 .. Len(machines) : machines[m].program = p => machines[m].status = "freed"
  /\ programs' = [programs EXCEPT ![p].live = FALSE]
  /\ blocks' = blocks \ ProgramBlocks(p, programs[p].strings, programs[p].pooled)
  /\ UNCHANGED <<linkvars, compiler, foreigns, compiles, machines>>

HostNext ==
  \/ \E name \in Foreigns, object \in BOOLEAN : del_register_function(name, object)
  \/ \E text \in Texts : Compile(text)
  \/ CompileStep \/ Return \/ del_compiler_free
  \/ \E p \in 1 .. Len(programs) : del_vm_init(p) \/ del_program_free(p)
  \/ \E m \in 1 .. Len(machines) : del_vm_execute(m) \/ del_vm_free(m)

HostSpec == HostInit /\ [][HostNext]_vars

(* A compilation runs to its end before del_compile_text returns: weak fairness *)
(* of its steps.  That of CompileStep, enabled but in a loop over a full table, *)
(* is written out: TLC would compile over and over to evaluate its ENABLED.   *)
(* SearchEnds: the table has a slot for the declaration that is to be added.      *)
SearchEnds == phase = "collect" /\ next <= Len(ast) => FirstOpen(table, function_count, ast[next].name) # {}
CanStep == phase \notin {"idle", "linked"} /\ SearchEnds
FairHost == HostSpec /\ ([]<>~CanStep \/ []<><<CompileStep>>_vars) /\ WF_vars(Return)
-----------------------------------------------------------------------------
(* Types: the tables are as large as their counts, the code's operands refer   *)
(* to declarations, strings and offsets that exist.                          *)
TypeOK ==
  /\ phase \in {"idle", "collect", "check", "emit", "resolve", "linked"}
  /\ next \in 1 .. Len(ast) + 1 /\ Len(ast) <= function_count
  /\ \A i \in 1 .. Len(ast) : ast[i].name # NONE
  /\ phase # "idle" => DOMAIN table = 0 .. function_count - 1
  /\ phase \in {"emit", "resolve", "linked"} =>
       \A k \in 1 .. Len(code) :
         /\ code[k].op = "PUSH" => code[k].arg \in 0 .. Len(pool) - 1
         /\ code[k].op = "JMP" => code[k].target \in 0 .. Len(code) - 1
  /\ compiler \in {"live", "freed", "aborted"}
  /\ \A m \in 1 .. Len(machines) : machines[m].program \in 1 .. Len(programs)

(* What a machine reads of its program is allocated until the program is freed, *)
(* whether or not the compiler still lives.                                  *)
ProgramsWhole ==
  /\ \A p \in 1 .. Len(programs) :
       programs[p].live => ProgramBlocks(p, programs[p].strings, programs[p].pooled) \subseteq blocks
  /\ \A m \in 1 .. Len(machines) : machines[m].status # "freed" => programs[machines[m].program].live

(* And when all is freed nothing is left but the files that readfile does not   *)
(* close on a read error.                                                    *)
AllFreed ==
  /\ compiler = "freed" /\ \A p \in 1 .. Len(programs) : ~programs[p].live
  /\ \A m \in 1 .. Len(machines) : machines[m].status = "freed"
Owned == ProgramsWhole /\ (AllFreed => \A b \in blocks : b[1] = "open file")

(* Every compilation ends, and with it the call of the host.                  *)
CompilationEnds == phase # "idle" ~> phase = "idle"
=============================================================================
