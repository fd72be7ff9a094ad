------------------------------ MODULE ModuleInit ------------------------------
(***************************************************************************)
(* The init function julia_module generates for a library, the types it    *)
(* creates or reinitializes (data/types/foreign_type.rs) and the image in  *)
(* which Julia keeps a precompiled module from one process to the next.    *)
(* Composed with Startup: the process is julia's or embeds it.             *)
(***************************************************************************)
EXTENDS Startup, FiniteSets, Sequences

CONSTANTS
    Lib,            \* the copy of jlrs in the library
    Libraries,      \* the builds of the library: what each exports, and for which Julia
    Types,          \* the Rust types the registry has keys for
    Parachute,      \* a type that is created the first time it is used
    Users,          \* threads that use it
    MaxProcesses    \* the processes that follow each other (bound)

ASSUME ModuleInitAssumption ==
    /\ Lib \in Copies \ {App}
    /\ Parachute \in Types
    /\ MaxProcesses \in Nat \ {0}

VARIABLES
    process,     \* the number of the process
    lib,         \* the build of the library on disk
    image,       \* the image on disk, if any: {} or {[the build that made it, what is bound]}
    mode,        \* how Julia got the module: "none", "included", "loaded"
    stage,       \* the init function: "uncalled", "running", "done", "aborted"
    step,        \* the number of exports it has handled
    bound,       \* [Names -> what the module binds: a datatype or a value, or None]
    registry,    \* [Types -> datatype or None]: FOREIGN_TYPE_REGISTRY
    hooked,      \* the datatypes whose mark and sweep functions are this process'
    user         \* [Users -> "idle", or "missed" the type in the registry]

moduleVars == <<process, lib, image, mode, stage, step, bound, registry, hooked, user>>
vars == <<startupVars, moduleVars>>

\* A datatype is the set of what it was made of, each with its name, its process and its
\* kind: a variant is made of its base and its parameters.
None == {}
Made(e) == {<<e.name, process, e.kind>>}

\* jl_is_foreign_type: jl_new_foreign_type made it.
IsForeignType(datatype) == \A x \in datatype : x[3] = "foreign"

\* A build has the lists of its exports, and since_1_9: it is a build for Julia 1.9 or
\* newer.  An export is [name, type, kind, needs]: the types in whose place the registry is
\* asked, a variant's base included.  Generic types come after plain ones, those of
\* inner environments first; constants, aliases and functions come last.
Order(l) == l.plain \o l.inner \o l.outer \o l.rest
Exports(l) == {Order(l)[i] : i \in 1..Len(Order(l))}
IsType(e) == e.kind \in {"foreign", "opaque", "base", "variant"}
Names == {e.name : e \in UNION {Exports(l) : l \in Libraries}}

\* What a module binds: variants have the name of their base, which a generic type binds,
\* and functions are returned to Julia.
Binds(e) == e.kind \notin {"variant", "fn"}

\* What kind of type a Rust type is and which types it is made of follow from the traits
\* it implements, whatever names it is exported by.
ASSUME LibraryAssumption ==
    \A l \in Libraries :
        /\ Order(l) \in Seq(Exports(l))
        /\ \A e \in Exports(l) : e.needs \subseteq Types
        /\ \A e, f \in {x \in Exports(l) : IsType(x)} :
              /\ e.type \in Types
              /\ e.type = f.type => e.kind = f.kind /\ e.needs = f.needs
              /\ e.type = Parachute => e.kind = "foreign"

\* ExportedType::init_with_env: a generic type is created and bound right before its
\* variants, which are made of it.
ASSUME VariantAssumption ==
    \A l \in Libraries : \A i \in 1..Len(Order(l)) :
        Order(l)[i].kind = "variant" =>
            \E j \in 1..i - 1 :
                /\ Order(l)[j].kind = "base"
                /\ Order(l)[j].name = Order(l)[i].name
                /\ Order(l)[j].type \in Order(l)[i].needs

\* The name of a type stands for nothing else, although the type may become foreign, or be
\* so no more: Julia refuses to bind a constant twice, and that a rebuilt library keeps its
\* names is up to its author: nothing compares it with the image.
ASSUME NameAssumption ==
    \A l, k \in Libraries : \A e \in Exports(l), f \in Exports(k) :
        IsType(e) /\ Binds(e) /\ Binds(f) /\ e.name = f.name
            => /\ e.type = f.type
               /\ e.kind = f.kind \/ {e.kind, f.kind} = {"foreign", "opaque"}

Unbound == [n \in Names |-> None]
Unregistered == [t \in Types |-> None]
Idle == [u \in Users |-> "idle"]

Init ==
    /\ StartupInit
    /\ process = 1 /\ lib \in Libraries /\ image = {}
    /\ mode = "none" /\ stage = "uncalled" /\ step = 0
    /\ bound = Unbound /\ registry = Unregistered /\ hooked = {} /\ user = Idle

\* Julia code runs: in Julia's own process, or in an application's runtime.
Hosted == julia = "on" /\ (INIT => \E s \in Starters : starter[s] = "ready")

-----------------------------------------------------------------------------
(* The init function, called while Julia includes the module's source       *)
(* (precompiling = 1) or when it has loaded its image.  IS_INIT lets one    *)
(* call in; a panic aborts the process, since the function is extern "C".   *)

\* Julia only loads what a Julia of its own version has saved.
UsableBy(i, l) == i.lib.since_1_9 = l.since_1_9

Call(m) ==
    /\ Hosted
    /\ stage = "uncalled"
    /\ mode' = m
    /\ \/ m = "included" /\ UNCHANGED bound
       \/ m = "loaded" /\ \E i \in image : UsableBy(i, lib) /\ bound' = i.bound
    /\ \E result \in {"ready", "broken"} :
        /\ InitJlrs(Lib, result)
        /\ stage' = IF result = "ready" THEN "running" ELSE "aborted"
    /\ UNCHANGED <<julia, inits, INIT, starter, process, lib, image, step, registry,
                   hooked, user>>

\* Faulty variant: loading a module handles outer environments first.
NowReordered(e) ==
    /\ Hosted
    /\ stage = "running"
    /\ step < Len(Order(lib))
    /\ e = (IF mode = "loaded" THEN lib.plain \o lib.outer \o lib.inner \o lib.rest
            ELSE Order(lib))[step + 1]

\* The export whose turn it is.
Now(e) ==
    /\ Hosted
    /\ stage = "running"
    /\ step < Len(Order(lib))
    /\ e = Order(lib)[step + 1]

HasNeeds(e) == \A t \in e.needs : registry[t] # None
Params(e) == UNION {registry[t] : t \in e.needs}

Register(e, datatype) ==
    /\ registry' = [registry EXCEPT ![e.type] = datatype]
    /\ hooked' = IF e.kind = "foreign" THEN hooked \cup {datatype} ELSE hooked

Handled ==
    /\ step' = step + 1
    /\ UNCHANGED <<startupVars, process, lib, image, mode, stage, user>>

\* create_foreign_type, create_opaque_type, create_parametric_opaque_type: a type that is
\* in the registry is not created again, but bound by this name as well.  These, and the
\* functions that reinitialize a type, ask the registry and add to it under two locks of
\* it, not under one; that is still one step, since only the thread that called the init
\* function runs them, before the module can be used.
CreateType(e) ==
    LET known == registry[e.type] # None
        datatype == IF known THEN registry[e.type] ELSE Made(e)
    IN  /\ Now(e) /\ mode = "included"
        /\ IsType(e) /\ e.kind # "variant"
        /\ known \/ HasNeeds(e)
        /\ IF known THEN UNCHANGED <<registry, hooked>> ELSE Register(e, datatype)
        /\ bound' = [bound EXCEPT ![e.name] = datatype]
        /\ Handled

\* create_parametric_opaque_variant: applies the base to the parameters; binds nothing.
CreateVariant(e) ==
    /\ Now(e) /\ mode = "included"
    /\ e.kind = "variant"
    /\ \/ registry[e.type] # None /\ UNCHANGED <<registry, hooked>>
       \/ registry[e.type] = None /\ HasNeeds(e) /\ Register(e, Params(e))
    /\ UNCHANGED bound
    /\ Handled

\* Since Julia 1.9 reinit_foreign_type tells Julia the functions of a foreign type that is
\* not registered yet, which Julia refuses if the datatype is not foreign.  Before 1.9 it
\* is reinit_opaque_type.
Rehooks(e) == e.kind = "foreign" /\ lib.since_1_9 /\ registry[e.type] = None

\* Faulty variant: Julia is not told the functions of a type whose datatype exists.
ReinitTypeUnhooked(e) ==
    /\ Now(e) /\ mode = "loaded"
    /\ IsType(e) /\ e.kind # "variant"
    /\ bound[e.name] # None
    /\ registry' = IF registry[e.type] # None THEN registry
                   ELSE [registry EXCEPT ![e.type] = bound[e.name]]
    /\ UNCHANGED <<hooked, bound>>
    /\ Handled

\* reinit_type: what the module binds is registered.
ReinitType(e) ==
    /\ Now(e) /\ mode = "loaded"
    /\ IsType(e) /\ e.kind # "variant"
    /\ bound[e.name] # None
    /\ Rehooks(e) => IsForeignType(bound[e.name])
    /\ registry' = IF registry[e.type] # None THEN registry
                   ELSE [registry EXCEPT ![e.type] = bound[e.name]]
    /\ hooked' = IF Rehooks(e) THEN hooked \cup {bound[e.name]} ELSE hooked
    /\ UNCHANGED bound
    /\ Handled

\* reinit_variant: what the module binds is applied to the parameters.
ReinitVariant(e) ==
    /\ Now(e) /\ mode = "loaded"
    /\ e.kind = "variant"
    /\ bound[e.name] # None /\ HasNeeds(e)
    /\ IF registry[e.type] # None THEN UNCHANGED <<registry, hooked>>
       ELSE Register(e, bound[e.name] \cup Params(e))
    /\ UNCHANGED bound
    /\ Handled

\* Constants and aliases are bound while the module is included, and functions are
\* returned to Julia whenever the init function is called.
BindRest(e) ==
    /\ Now(e) /\ ~IsType(e)
    /\ (mode = "loaded" /\ e.kind # "fn") \/ HasNeeds(e)
    /\ bound' = IF mode = "loaded" \/ e.kind = "fn" THEN bound
                ELSE [bound EXCEPT ![e.name] =
                          IF e.kind = "alias" THEN Params(e) ELSE Made(e)]
    /\ UNCHANGED <<registry, hooked>>
    /\ Handled

\* A name the module does not bind, a type that is not registered (yet), or a foreign type
\* that was not foreign in the build that made the image.
Abort(e) ==
    /\ Now(e)
    /\ \/ mode = "included" /\ IsType(e) /\ registry[e.type] = None /\ ~HasNeeds(e)
       \/ mode = "loaded" /\ IsType(e) /\ bound[e.name] = None
       \/ mode = "loaded" /\ Rehooks(e) /\ ~IsForeignType(bound[e.name])
       \/ mode = "loaded" /\ e.kind = "variant" /\ ~HasNeeds(e)
       \/ mode = "included" /\ ~IsType(e) /\ ~HasNeeds(e)
       \/ mode = "loaded" /\ e.kind = "fn" /\ ~HasNeeds(e)
    /\ stage' = "aborted"
    /\ UNCHANGED <<startupVars, process, lib, image, mode, step, bound, registry, hooked,
                   user>>

Return ==
    /\ Hosted
    /\ stage = "running"
    /\ step = Len(Order(lib))
    /\ stage' = "done"
    /\ UNCHANGED <<startupVars, process, lib, image, mode, step, bound, registry, hooked,
                   user>>

-----------------------------------------------------------------------------
(* A type with a TYPE_FN is created when a value of it is first made.       *)

Using(u) ==
    /\ Hosted
    /\ stage = "done"
    /\ UNCHANGED <<startupVars, process, lib, image, mode, stage, step, bound>>

Miss(u) ==
    /\ Using(u)
    /\ user[u] = "idle"
    /\ registry[Parachute] = None
    /\ user' = [user EXCEPT ![u] = "missed"]
    /\ UNCHANGED <<registry, hooked>>

\* The type, made by the thread that uses it.
Parachuted(u) == [name |-> u, type |-> Parachute, kind |-> "foreign"]

\* Faulty variant: the registry is not asked again under the lock.
MakeUnchecked(u) ==
    /\ Using(u)
    /\ user[u] = "missed"
    /\ Register(Parachuted(u), Made(Parachuted(u)))
    /\ user' = [user EXCEPT ![u] = "idle"]

\* The registry is asked again with the lock held for writing, and the type created and
\* registered before it is released.
Make(u) ==
    /\ Using(u)
    /\ user[u] = "missed"
    /\ IF registry[Parachute] # None THEN UNCHANGED <<registry, hooked>>
       ELSE Register(Parachuted(u), Made(Parachuted(u)))
    /\ user' = [user EXCEPT ![u] = "idle"]

-----------------------------------------------------------------------------
(* Processes follow each other; one may be killed at any time, and the      *)
(* library may be rebuilt in between.                                       *)

NextProcess(saved) ==
    /\ process < MaxProcesses
    /\ NewProcess
    /\ process' = process + 1 /\ lib' \in Libraries /\ image' = saved
    /\ mode' = "none" /\ stage' = "uncalled" /\ step' = 0
    /\ bound' = Unbound /\ registry' = Unregistered /\ hooked' = {} /\ user' = Idle

\* Julia has included the module to precompile it.
Precompile ==
    /\ Hosted /\ ~INIT
    /\ mode = "included" /\ stage = "done"
    /\ NextProcess({[lib |-> lib, bound |-> bound]})

Restart == NextProcess(image)

Next ==
    \/ \E s \in Starters : StarterStep(s) /\ UNCHANGED moduleVars
    \/ \E m \in {"included", "loaded"} : Call(m)
    \/ \E e \in Exports(lib) :
          \/ CreateType(e) \/ CreateVariant(e) \/ ReinitType(e) \/ ReinitVariant(e)
          \/ BindRest(e) \/ Abort(e)
    \/ Return
    \/ \E u \in Users : Miss(u) \/ Make(u)
    \/ Precompile
    \/ Restart

Spec == Init /\ [][Next]_vars

-----------------------------------------------------------------------------
InitTypeOK ==
    /\ julia \in {"off", "on", "exited"} /\ INIT \in BOOLEAN
    /\ starter \in [Starters -> Stages]
    /\ copy \in [Copies -> {"fresh", "ready", "broken"}]
    /\ process \in 1..MaxProcesses /\ lib \in Libraries
    /\ mode \in {"none", "included", "loaded"}
    /\ stage \in {"uncalled", "running", "done", "aborted"}
    /\ step \in 0..Len(Order(lib))
    /\ stage = "done" => step = Len(Order(lib))
    /\ user \in [Users -> {"idle", "missed"}]

TypeExports == {e \in Exports(lib) : IsType(e)}

\* When the init function has returned, the datatype the library makes values of is the
\* one its module binds, whether the module was included or loaded from an image that
\* this build, or another, made, and also when a type has two names.
RegistryAgrees ==
    stage = "done" =>
        \A e \in TypeExports :
            registry[e.type] = IF e.kind = "variant" THEN bound[e.name] \cup Params(e)
                               ELSE bound[e.name]

\* The module was loaded from an image and binds the datatype: it is in the image.
Loaded(datatype) == mode = "loaded" /\ \E n \in Names : datatype = bound[n]

\* The GC marks and sweeps values of the foreign types of the library with functions of
\* this process, never with the addresses they had in the process that made the image:
\* except those of the types a library for Julia 1.8 or older has from its image, which
\* nobody tells Julia.
HooksAreCurrent ==
    \A t \in {e.type : e \in {x \in TypeExports : x.kind = "foreign"}} \cup {Parachute} :
        registry[t] # None => registry[t] \in hooked \/ (~lib.since_1_9 /\ Loaded(registry[t]))

\* What can be precompiled can be loaded: the init function only aborts a process that
\* loads the module when JlrsCore is missing or the library was rebuilt.
PrecompiledLoads ==
    stage = "aborted" /\ mode = "loaded" /\ (\E i \in image : i.lib = lib)
        => copy[Lib] = "broken"

\* Values know their type by its datatype: in one process the registry never replaces
\* the datatype of a Rust type.
OneIdentity ==
    [][\/ process' # process
       \/ \A t \in Types : registry[t] # None => registry'[t] = registry[t]]_vars

\* Whoever starts Julia, and however often: one Julia, which works.
StartsOK == StartedOnce /\ ReadyIsUsable

\* The registry through processes, images and rebuilt libraries: what a
\* module binds is what is registered, since Julia 1.9 with the functions of this process.
RegistryOK == InitTypeOK /\ RegistryAgrees /\ HooksAreCurrent
=============================================================================
