---------------------------- MODULE ModuleInitProofs ----------------------------
(***************************************************************************)
(* Proofs about the start of Julia and the registry of types: for any      *)
(* threads, copies of jlrs, libraries and processes.                       *)
(***************************************************************************)
EXTENDS ModuleInit, TLAPS

\* A start that has claimed INIT and has not ended.
Active(s) == starter[s] \in {"claimed", "pending", "ready"}

StartTypeOK ==
    /\ julia \in {"off", "on", "exited"}
    /\ inits \in Nat
    /\ INIT \in BOOLEAN
    /\ starter \in [Starters -> Stages]
    /\ copy \in [Copies -> {"fresh", "ready", "broken"}]

\* Julia is initialized by a start that has claimed INIT, and only one start ever does:
\* a start that passed the check before that finds INIT set.
StartInv ==
    /\ StartTypeOK
    /\ inits = IF julia = "off" THEN 0 ELSE 1
    /\ \A s, u \in Starters : Active(s) /\ Active(u) => s = u
    /\ \A s \in Starters :
          /\ Active(s) => INIT
          /\ starter[s] = "claimed" => julia = "off"
          /\ starter[s] \in {"pending", "ready"} => julia = "on"
          /\ starter[s] = "checked" /\ ~INIT => julia = "off"
          /\ starter[s] = "ready" => copy[App] = "ready"

LEMMA HostsOK ==
  ASSUME NEW host \in Hosts
  PROVE  /\ host.julia \in {"off", "on"} /\ host.inits \in Nat
         /\ host.inits = IF host.julia = "off" THEN 0 ELSE 1
  BY DEF Hosts

LEMMA FreshStart == StartupInit => StartInv
  <1> SUFFICES ASSUME StartupInit PROVE StartInv
    OBVIOUS
  <1>1. PICK host \in Hosts : julia = host.julia /\ inits = host.inits
    BY DEF StartupInit
  <1>2. /\ julia \in {"off", "on"} /\ inits \in Nat
        /\ inits = IF julia = "off" THEN 0 ELSE 1
    BY <1>1, HostsOK
  <1>3. StartTypeOK
    BY <1>2 DEF StartupInit, StartTypeOK, NoStarts, FreshCopies, Stages
  <1> QED
    BY <1>2, <1>3 DEF StartupInit, StartInv, Active, NoStarts

LEMMA NextStart == NewProcess => StartInv'
  <1> SUFFICES ASSUME NewProcess PROVE StartInv'
    OBVIOUS
  <1>1. PICK host \in Hosts : julia' = host.julia /\ inits' = host.inits
    BY DEF NewProcess
  <1>2. /\ julia' \in {"off", "on"} /\ inits' \in Nat
        /\ inits' = IF julia' = "off" THEN 0 ELSE 1
    BY <1>1, HostsOK
  <1>3. StartTypeOK'
    BY <1>2 DEF NewProcess, StartTypeOK, NoStarts, FreshCopies, Stages
  <1> QED
    BY <1>2, <1>3 DEF NewProcess, StartInv, Active, NoStarts

LEMMA StartStep == ASSUME StartInv, NEW s \in Starters, StarterStep(s) PROVE StartInv'
  <1> USE DEF StartInv, StartTypeOK, Active, Become, Stages
  <1>1. CASE Check(s)
    BY <1>1 DEF Check
  <1>2. CASE Claim(s)
    BY <1>2 DEF Claim
  <1>3. CASE NotFound(s)
    BY <1>3 DEF NotFound
  <1>4. CASE Boot(s)
    BY <1>4 DEF Boot
  <1>5. CASE Activate(s)
    BY <1>5, StartupAssumption DEF Activate, InitJlrs
  <1>6. CASE Deactivate(s)
    BY <1>6 DEF Deactivate
  <1>7. CASE Exit(s)
    BY <1>7 DEF Exit
  <1> QED
    BY <1>1, <1>2, <1>3, <1>4, <1>5, <1>6, <1>7 DEF StarterStep

\* A library has a copy of jlrs of its own, which says nothing about the application's.
LEMMA LibraryStart ==
  ASSUME StartInv, NEW result, InitJlrs(Lib, result), UNCHANGED <<julia, inits, INIT, starter>>
  PROVE  StartInv'
  BY ModuleInitAssumption, StartupAssumption
     DEF StartInv, StartTypeOK, Active, InitJlrs

-----------------------------------------------------------------------------
\* The registry is a function of the types, and the functions of the foreign types it
\* knows are those of this process, but for types that an older Julia loaded.
RegistryInv ==
    /\ process \in Nat /\ step \in Nat
    /\ lib \in Libraries
    /\ stage = "uncalled" => mode = "none"
    /\ registry = [t \in Types |-> registry[t]]
    /\ HooksAreCurrent

\* A registered type keeps its datatype.
Kept == \A t \in Types : registry[t] # None => registry'[t] = registry[t]

LEMMA Registered ==
  ASSUME RegistryInv, NEW e \in TypeExports, registry[e.type] = None,
         NEW d, registry' = [registry EXCEPT ![e.type] = d], hooked \subseteq hooked',
         e.kind = "foreign" => d \in hooked' \/ (~lib.since_1_9 /\ Loaded(d)),
         UNCHANGED <<process, lib, mode, stage>>, mode = "loaded" => UNCHANGED bound,
         step' \in Nat
  PROVE  RegistryInv' /\ Kept
  <1>1. /\ e \in Exports(lib) /\ IsType(e) /\ e.type \in Types
        /\ e.type = Parachute => e.kind = "foreign"
        /\ \A f \in TypeExports : f.type = e.type => f.kind = e.kind
    BY LibraryAssumption DEF RegistryInv, TypeExports
  <1>2. TypeExports' = TypeExports
    BY DEF TypeExports
  <1>3. HooksAreCurrent'
    <2> SUFFICES ASSUME NEW t \in {f.type : f \in {x \in TypeExports : x.kind = "foreign"}}
                                    \cup {Parachute},
                        registry'[t] # None
                 PROVE  registry'[t] \in hooked' \/ (~lib'.since_1_9 /\ Loaded(registry[t])')
      BY <1>2 DEF HooksAreCurrent
    <2>1. CASE t = e.type
      <3>1. registry'[t] = d /\ e.kind = "foreign"
        BY <1>1, <2>1 DEF RegistryInv
      <3> QED
        BY <3>1 DEF Loaded
    <2>2. CASE t # e.type
      <3>1. registry'[t] = registry[t]
        BY <2>2 DEF RegistryInv
      <3>2. registry[t] \in hooked \/ (~lib.since_1_9 /\ Loaded(registry[t]))
        BY <2>2, <3>1 DEF RegistryInv, HooksAreCurrent
      <3> QED
        BY <3>1, <3>2 DEF Loaded
    <2> QED
      BY <2>1, <2>2
  <1> QED
    BY <1>1, <1>3 DEF RegistryInv, Kept

LEMMA Unchanged ==
  ASSUME RegistryInv, UNCHANGED <<process, lib, registry, hooked>>, step' \in Nat,
         stage' = "uncalled" => mode' = "none",
         mode = "loaded" => UNCHANGED <<mode, bound>>
  PROVE  RegistryInv' /\ Kept
  <1>1. HooksAreCurrent'
    BY DEF RegistryInv, HooksAreCurrent, Loaded, TypeExports
  <1> QED
    BY <1>1 DEF RegistryInv, Kept

\* The export whose turn it is.
LEMMA Exported == ASSUME RegistryInv, NEW e, Now(e), IsType(e) PROVE e \in TypeExports
  <1>1. Len(Order(lib)) \in Nat
    BY LibraryAssumption DEF RegistryInv
  <1>2. step + 1 \in 1..Len(Order(lib))
    BY <1>1 DEF Now, RegistryInv
  <1> QED
    BY <1>2 DEF Now, TypeExports, Exports

LEMMA Fresh ==
  ASSUME lib' \in Libraries, process' \in Nat, step' = 0, registry' = Unregistered,
         mode' = "none"
  PROVE  RegistryInv'
  <1>1. \A e \in TypeExports' : e.type \in Types
    BY LibraryAssumption DEF TypeExports
  <1>2. \A t \in Types : registry'[t] = None
    BY DEF Unregistered
  <1>3. HooksAreCurrent'
    BY <1>1, <1>2, ModuleInitAssumption DEF HooksAreCurrent
  <1>4. (registry = [t \in Types |-> registry[t]])'
    BY DEF Unregistered
  <1> QED
    BY <1>3, <1>4 DEF RegistryInv

\* What a step of Next does: it starts a process, or goes on with one, in which the start
\* of Julia is one step further or is not touched.
StepOK ==
    /\ StartInv' /\ RegistryInv'
    /\ process' # process \/ Kept

LEMMA NextProcessOK ==
  ASSUME RegistryInv, NEW saved, NextProcess(saved)
  PROVE  StepOK
  <1>1. process' # process /\ process' \in Nat /\ lib' \in Libraries /\ step' = 0
       /\ registry' = Unregistered /\ mode' = "none"
    BY DEF NextProcess, RegistryInv
  <1>2. StartInv'
    BY NextStart DEF NextProcess
  <1> QED
    BY <1>1, <1>2, Fresh DEF StepOK

LEMMA SameStart == StartInv /\ UNCHANGED startupVars => StartInv'
  BY DEF StartInv, StartTypeOK, Active, startupVars

LEMMA ExportStep ==
  ASSUME StartInv, RegistryInv, NEW e,
         \/ CreateType(e) \/ CreateVariant(e) \/ ReinitType(e) \/ ReinitVariant(e)
         \/ BindRest(e) \/ Abort(e)
  PROVE  StepOK
  <1>1. /\ UNCHANGED startupVars /\ UNCHANGED <<process, lib, mode>> /\ step' \in Nat
        /\ UNCHANGED stage \/ stage' = "aborted"
        /\ mode = "loaded" => UNCHANGED bound
    BY DEF CreateType, CreateVariant, ReinitType, ReinitVariant, BindRest, Abort, Handled,
       RegistryInv
  <1> DEFINE Registers(d) ==
               /\ e \in TypeExports /\ registry[e.type] = None /\ UNCHANGED stage
               /\ registry' = [registry EXCEPT ![e.type] = d] /\ hooked \subseteq hooked'
               /\ e.kind = "foreign" => d \in hooked' \/ (~lib.since_1_9 /\ Loaded(d))
  <1>2. UNCHANGED <<registry, hooked>> \/ \E d : Registers(d)
    <2>1. CASE CreateType(e)
      BY <2>1, Exported DEF CreateType, Register, Handled
    <2>2. CASE CreateVariant(e)
      BY <2>2, Exported DEF CreateVariant, IsType, Register, Handled
    <2>3. CASE ReinitType(e)
      <3>1. e \in TypeExports /\ e.name \in Names /\ mode = "loaded" /\ UNCHANGED stage
        BY <2>3, Exported DEF ReinitType, Handled, TypeExports, Names, RegistryInv
      <3>2. Loaded(bound[e.name])
        BY <3>1 DEF Loaded
      <3>3. CASE registry[e.type] # None
        BY <2>3, <3>3 DEF ReinitType, Rehooks
      <3>4. CASE registry[e.type] = None
        BY <2>3, <3>1, <3>2, <3>4 DEF ReinitType, Rehooks
      <3> QED
        BY <3>3, <3>4
    <2>4. CASE ReinitVariant(e)
      BY <2>4, Exported DEF ReinitVariant, IsType, Register, Handled
    <2>5. CASE BindRest(e) \/ Abort(e)
      BY <2>5 DEF BindRest, Abort
    <2> QED
      BY <2>1, <2>2, <2>3, <2>4, <2>5
  <1>3. CASE UNCHANGED <<registry, hooked>>
    <2>1. stage' = "uncalled" => mode' = "none"
      BY <1>1 DEF RegistryInv
    <2> QED
      BY <1>1, <1>3, <2>1, Unchanged, SameStart DEF StepOK
  <1>4. CASE \E d : Registers(d)
    <2>1. PICK d : Registers(d)
      BY <1>4
    <2>2. RegistryInv' /\ Kept
      BY <1>1, <2>1, Registered
    <2> QED
      BY <1>1, <2>2, SameStart DEF StepOK
  <1> QED
    BY <1>2, <1>3, <1>4

LEMMA MakeStep ==
  ASSUME StartInv, RegistryInv, NEW u \in Users, Make(u)
  PROVE  StepOK
  <1>1. UNCHANGED startupVars /\ UNCHANGED <<process, lib, mode, stage, bound>> /\ step' \in Nat
    BY DEF Make, Using, RegistryInv
  <1>2. CASE registry[Parachute] # None
    BY <1>1, <1>2, Unchanged, SameStart DEF StepOK, Make, RegistryInv
  <1>3. CASE registry[Parachute] = None
    <2>1. PICK d : /\ registry' = [registry EXCEPT ![Parachute] = d]
                   /\ hooked' = hooked \cup {d}
      BY <1>3 DEF Make, Parachuted, Register
    <2>2. HooksAreCurrent'
      BY <1>1, <1>3, <2>1, ModuleInitAssumption
         DEF RegistryInv, HooksAreCurrent, Loaded, TypeExports
    <2>3. RegistryInv' /\ Kept
      BY <1>1, <1>3, <2>1, <2>2, ModuleInitAssumption DEF RegistryInv, Kept
    <2> QED
      BY <1>1, <2>3, SameStart DEF StepOK
  <1> QED
    BY <1>2, <1>3

Inv == StartInv /\ RegistryInv

LEMMA InvInit == Init => Inv
  <1> SUFFICES ASSUME Init PROVE RegistryInv
    BY FreshStart DEF Init, Inv
  <1>1. \A e \in TypeExports : e.type \in Types
    BY LibraryAssumption DEF TypeExports, Init
  <1>2. \A t \in Types : registry[t] = None
    BY DEF Init, Unregistered
  <1>3. HooksAreCurrent
    BY <1>1, <1>2, ModuleInitAssumption DEF HooksAreCurrent
  <1>4. registry = [t \in Types |-> registry[t]]
    BY DEF Init, Unregistered
  <1> QED
    BY <1>3, <1>4 DEF Init, RegistryInv

LEMMA InvStep == ASSUME Inv, Next PROVE StepOK
  <1> USE DEF Inv
  <1>1. ASSUME NEW s \in Starters, StarterStep(s), UNCHANGED moduleVars PROVE StepOK
    BY <1>1, StartStep, Unchanged DEF moduleVars, StepOK, RegistryInv
  <1>2. ASSUME NEW m \in {"included", "loaded"}, Call(m) PROVE StepOK
    <2>1. /\ UNCHANGED <<process, lib, registry, hooked>> /\ step' \in Nat
          /\ stage' # "uncalled" /\ mode = "none"
      BY <1>2 DEF Call, RegistryInv
    <2>2. StartInv'
      BY <1>2, LibraryStart DEF Call
    <2> QED
      BY <2>1, <2>2, Unchanged DEF StepOK
  <1>3. ASSUME NEW e \in Exports(lib),
               \/ CreateType(e) \/ CreateVariant(e) \/ ReinitType(e) \/ ReinitVariant(e)
               \/ BindRest(e) \/ Abort(e)
        PROVE  StepOK
    BY <1>3, ExportStep
  <1>4. CASE Return
    BY <1>4, SameStart, Unchanged DEF Return, StepOK, RegistryInv
  <1>5. ASSUME NEW u \in Users, Miss(u) PROVE StepOK
    BY <1>5, SameStart, Unchanged DEF Miss, Using, StepOK, RegistryInv
  <1>6. ASSUME NEW u \in Users, Make(u) PROVE StepOK
    BY <1>6, MakeStep
  <1>7. CASE Precompile \/ Restart
    BY <1>7, NextProcessOK DEF Precompile, Restart
  <1> QED
    BY <1>1, <1>2, <1>3, <1>4, <1>5, <1>6, <1>7 DEF Next

LEMMA InvStutter == Inv /\ UNCHANGED vars => Inv'
  BY SameStart, Unchanged DEF Inv, vars, moduleVars, RegistryInv

LEMMA InvAlways == Spec => []Inv
<1>1. Inv /\ [Next]_vars => Inv'
    BY InvStep, InvStutter DEF StepOK, Inv
<1> QED
    BY <1>1, InvInit, PTL DEF Spec

\* However many threads start a runtime, fail to and try again, Julia is initialized once
\* in a process, and a runtime that was handed out has everything init_jlrs sets up.
THEOREM StartsAreOK == Spec => []StartsOK
<1>1. Inv => StartsOK
    BY DEF Inv, StartInv, StartTypeOK, StartsOK, StartedOnce, ReadyIsUsable
<1> QED
    BY <1>1, InvAlways, PTL

\* The functions that mark and sweep values of a foreign type are those of the process,
\* unless the library is for Julia 1.8 or older and has the type from its image.
THEOREM HooksStayCurrent == Spec => []HooksAreCurrent
<1>1. Inv => HooksAreCurrent
    BY DEF Inv, RegistryInv
<1> QED
    BY <1>1, InvAlways, PTL

\* No Rust type gets a second datatype, whichever thread made the first value of it.
THEOREM IdentityIsKept == Spec => OneIdentity
<1>1. Inv /\ [Next]_vars =>
        [\/ process' # process
         \/ \A t \in Types : registry[t] # None => registry'[t] = registry[t]]_vars
    BY InvStep DEF StepOK, Kept
<1> QED
    BY <1>1, InvAlways, PTL DEF Spec, OneIdentity

-----------------------------------------------------------------------------
\* The first n exports of a build.
First(l, n) == {Order(l)[i] : i \in 1..n}

\* A type is registered: as what the module binds it to, a variant as its base with its
\* parameters.
Settled(e) ==
    /\ registry[e.type] # None
    /\ IF e.kind = "variant" THEN HasNeeds(e) /\ registry[e.type] = Params(e)
       ELSE registry[e.type] = bound[e.name]

\* So is every type whose turn has been.
HandledOK == \A e \in First(lib, step) : IsType(e) => Settled(e)

\* Until the init function returns it has registered no other type.
ByHandled ==
    stage # "done" => \A t \in Types : registry[t] # None =>
        \E e \in First(lib, step) : IsType(e) /\ e.type = t

\* Of the first n exports those that ask for types come after the exports of these types.
NeedsFirst(l, n) ==
    \A i \in 1..n : Order(l)[i].kind \in {"variant", "fn"} =>
        \A t \in Order(l)[i].needs : \E e \in First(l, i - 1) : IsType(e) /\ e.type = t

\* What is bound was bound for one of the first n exports.
BoundBy(l, n, b) ==
    \A x \in Names : b[x] # None => \E e \in First(l, n) : Binds(e) /\ e.name = x

\* An image binds what the build that made it exports, a type with two names once; that
\* build can be loaded in the order in which it was included, and its foreign types have
\* foreign datatypes.
SoundImage(i) ==
    /\ i.lib \in Libraries
    /\ i.bound = [x \in Names |-> i.bound[x]]
    /\ BoundBy(i.lib, Len(Order(i.lib)), i.bound)
    /\ NeedsFirst(i.lib, Len(Order(i.lib)))
    /\ \A e \in Exports(i.lib) : IsType(e) => i.bound[e.name] # None
    /\ \A e, f \in Exports(i.lib) :
          IsType(e) /\ Binds(e) /\ IsType(f) /\ Binds(f) /\ e.type = f.type
              => i.bound[e.name] = i.bound[f.name]
    /\ \A e \in Exports(i.lib) : e.kind = "foreign" => IsForeignType(i.bound[e.name])

\* While the module is included, the datatypes of foreign types are made by
\* jl_new_foreign_type.
ForeignOK ==
    mode = "included" =>
        \A e \in Exports(lib) : e.kind = "foreign" => IsForeignType(registry[e.type])

SoundImages(images) == \A i \in images : SoundImage(i) /\ \A k \in images : k = i

StageOK ==
    /\ process \in 1..MaxProcesses /\ lib \in Libraries
    /\ mode \in {"none", "included", "loaded"}
    /\ stage \in {"uncalled", "running", "done", "aborted"}
    /\ step \in 0..Len(Order(lib))
    /\ stage = "done" => step = Len(Order(lib))
    /\ user \in [Users -> {"idle", "missed"}]
    /\ stage = "uncalled" => step = 0 /\ bound = Unbound /\ registry = Unregistered
    /\ stage = "uncalled" <=> mode = "none"

\* What the module binds comes from the image or from the exports whose turn has been.
BoundOK ==
    /\ bound = [x \in Names |-> bound[x]]
    /\ mode = "loaded" => \E i \in image : bound = i.bound
    /\ mode # "loaded" => BoundBy(lib, step, bound) /\ NeedsFirst(lib, step)

ModuleInv ==
    /\ Inv
    /\ StageOK /\ BoundOK /\ SoundImages(image)
    /\ HandledOK /\ ByHandled /\ ForeignOK
    /\ PrecompiledLoads

\* The exports in their order.
LEMMA Places ==
  ASSUME NEW l \in Libraries
  PROVE  /\ Len(Order(l)) \in Nat
         /\ First(l, Len(Order(l))) = Exports(l)
         /\ First(l, 0) = {}
         /\ \A n \in 0..Len(Order(l)) : First(l, n) \subseteq Exports(l)
         /\ \A m, n \in Nat : m <= n => First(l, m) \subseteq First(l, n)
         /\ \A n \in Nat : First(l, n + 1) = First(l, n) \cup {Order(l)[n + 1]}
  <1>1. Len(Order(l)) \in Nat
    BY LibraryAssumption
  <1>2. First(l, Len(Order(l))) = Exports(l)
    BY DEF First, Exports
  <1>3. First(l, 0) = {}
    BY DEF First
  <1>4. \A n \in 0..Len(Order(l)) : First(l, n) \subseteq Exports(l)
    BY <1>1 DEF First, Exports
  <1>5. \A m, n \in Nat : m <= n => First(l, m) \subseteq First(l, n)
    BY DEF First
  <1>6. ASSUME NEW n \in Nat PROVE First(l, n + 1) = First(l, n) \cup {Order(l)[n + 1]}
    <2>1. 1..(n + 1) = (1..n) \cup {n + 1}
      OBVIOUS
    <2> QED
      BY <2>1 DEF First
  <1> QED
    BY <1>1, <1>2, <1>3, <1>4, <1>5, <1>6

LEMMA ExportFacts ==
  ASSUME NEW l \in Libraries, NEW e \in Exports(l)
  PROVE  /\ e.needs \subseteq Types
         /\ e.name \in Names
         /\ IsType(e) => e.type \in Types
         /\ IsType(e) => (Binds(e) <=> e.kind # "variant")
  BY LibraryAssumption DEF Names, IsType, Binds

LEMMA SameType ==
  ASSUME NEW l \in Libraries, NEW e \in Exports(l), NEW f \in Exports(l),
         IsType(e), IsType(f), e.type = f.type
  PROVE  e.kind = f.kind /\ e.needs = f.needs
  BY LibraryAssumption

\* While its datatypes are kept, what a variant is made of does not change.
LEMMA ParamsKept ==
  ASSUME NEW e, e.needs \subseteq Types, HasNeeds(e), Kept
  PROVE  HasNeeds(e)' /\ Params(e)' = Params(e)
  <1>1. \A t \in e.needs : registry[t] # None /\ registry'[t] = registry[t]
    BY DEF HasNeeds, Kept
  <1>2. {registry'[t] : t \in e.needs} = {registry[t] : t \in e.needs}
    BY <1>1
  <1> QED
    BY <1>1, <1>2 DEF HasNeeds, Params

LEMMA SettledKept ==
  ASSUME Kept, NEW e, e.needs \subseteq Types, e.type \in Types, Settled(e),
         e.kind # "variant" => bound'[e.name] = bound[e.name]
  PROVE  Settled(e)'
  <1>1. registry'[e.type] = registry[e.type] /\ registry[e.type] # None
    BY DEF Kept, Settled
  <1>2. CASE e.kind = "variant"
    BY <1>1, <1>2, ParamsKept DEF Settled
  <1>3. CASE e.kind # "variant"
    BY <1>1, <1>3 DEF Settled
  <1> QED
    BY <1>2, <1>3

\* The export whose turn it is, and those before it.
LEMMA NowFacts ==
  ASSUME ModuleInv, NEW e, Now(e)
  PROVE  /\ lib \in Libraries /\ step \in Nat /\ step + 1 \in 1..Len(Order(lib))
         /\ Len(Order(lib)) \in Nat
         /\ e \in Exports(lib) /\ stage = "running" /\ mode \in {"included", "loaded"}
         /\ e = Order(lib)[step + 1]
         /\ First(lib, step) \subseteq Exports(lib)
         /\ First(lib, step + 1) = First(lib, step) \cup {e}
  <1>1. lib \in Libraries /\ step \in Nat /\ Len(Order(lib)) \in Nat
    BY Places DEF ModuleInv, StageOK
  <1>2. /\ stage = "running" /\ step < Len(Order(lib)) /\ e = Order(lib)[step + 1]
        /\ mode \in {"included", "loaded"}
    BY DEF Now, ModuleInv, StageOK
  <1>3. step + 1 \in 1..Len(Order(lib)) /\ step \in 0..Len(Order(lib))
    BY <1>1, <1>2
  <1>4. e \in Exports(lib)
    BY <1>2, <1>3 DEF Exports
  <1> QED
    BY <1>1, <1>2, <1>3, <1>4, Places

\* The turn of an export passes: the types before it stay settled, and so is its own.
LEMMA HandledStep ==
  ASSUME ModuleInv, NEW e, Now(e), Handled, Kept,
         \A t \in Types : registry'[t] # None => registry[t] # None \/ (IsType(e) /\ e.type = t),
         \A f \in First(lib, step) :
            IsType(f) /\ f.kind # "variant" => bound'[f.name] = bound[f.name],
         IsType(e) => Settled(e)'
  PROVE  HandledOK' /\ ByHandled'
  <1>1. First(lib, step)' = First(lib, step) \cup {e}
    BY NowFacts DEF Handled, First
  <1>2. ASSUME NEW f \in First(lib, step), IsType(f)
        PROVE  Settled(f)'
    <2>1. Settled(f)
      BY <1>2 DEF ModuleInv, HandledOK
    <2>2. f.needs \subseteq Types /\ f.type \in Types
      BY <1>2, NowFacts, ExportFacts
    <2> QED
      BY <1>2, <2>1, <2>2, SettledKept
  <1>3. HandledOK'
    BY <1>1, <1>2 DEF HandledOK
  <1>4. ByHandled'
    BY <1>1, NowFacts DEF ByHandled, ModuleInv, Handled
  <1> QED
    BY <1>3, <1>4

\* What goes with it: the stage, and for a module that is included the names it binds.
LEMMA StageStep ==
  ASSUME ModuleInv, NEW e, Now(e), Handled
  PROVE  StageOK' /\ SoundImages(image)' /\ PrecompiledLoads'
  <1>1. /\ step' = step + 1
        /\ UNCHANGED <<process, lib, image, mode, stage, user>>
    BY DEF Handled
  <1>2. step' \in 0..Len(Order(lib'))
    BY <1>1, NowFacts
  <1>3. StageOK'
    BY <1>1, <1>2, NowFacts DEF ModuleInv, StageOK
  <1>4. SoundImages(image)'
    BY <1>1 DEF ModuleInv, SoundImages
  <1>5. PrecompiledLoads'
    BY <1>1, NowFacts DEF PrecompiledLoads
  <1> QED
    BY <1>3, <1>4, <1>5

LEMMA LoadedStep ==
  ASSUME ModuleInv, NEW e, Now(e), Handled, mode = "loaded", UNCHANGED bound
  PROVE  BoundOK'
  BY DEF ModuleInv, BoundOK, Handled

LEMMA IncludedStep ==
  ASSUME ModuleInv, NEW e, Now(e), Handled, mode = "included",
         e.kind \in {"variant", "fn"} =>
            \A t \in e.needs : \E f \in First(lib, step) : IsType(f) /\ f.type = t,
         \/ UNCHANGED bound
         \/ Binds(e) /\ \E d : bound' = [bound EXCEPT ![e.name] = d]
  PROVE  BoundOK'
  <1>1. UNCHANGED <<lib, image, mode>> /\ step' = step + 1
    BY DEF Handled
  <1>2. BoundBy(lib, step, bound) /\ NeedsFirst(lib, step) /\ bound = [x \in Names |-> bound[x]]
    BY DEF ModuleInv, BoundOK
  <1>3. bound' = [x \in Names |-> bound'[x]]
    BY <1>2
  <1>4. \A x \in Names : bound'[x] # None => bound[x] # None \/ (Binds(e) /\ e.name = x)
    BY <1>2
  <1>5. BoundBy(lib, step + 1, bound')
    BY <1>2, <1>4, NowFacts DEF BoundBy
  <1>6. NeedsFirst(lib, step + 1)
    <2> SUFFICES ASSUME NEW i \in 1..step + 1, Order(lib)[i].kind \in {"variant", "fn"},
                        NEW t \in Order(lib)[i].needs
                 PROVE  \E f \in First(lib, i - 1) : IsType(f) /\ f.type = t
      BY DEF NeedsFirst
    <2>1. CASE i = step + 1
      <3>1. i - 1 = step /\ Order(lib)[i] = e
        BY <2>1, NowFacts
      <3> QED
        BY <3>1
    <2>2. CASE i # step + 1
      <3>1. i \in 1..step
        BY <2>2, NowFacts
      <3> QED
        BY <1>2, <3>1 DEF NeedsFirst
    <2> QED
      BY <2>1, <2>2
  <1> QED
    BY <1>1, <1>3, <1>5, <1>6 DEF BoundOK

\* The base of a variant has had its turn.
LEMMA BaseIsSettled ==
  ASSUME ModuleInv, NEW e, Now(e), e.kind = "variant"
  PROVE  \E b \in First(lib, step) :
            /\ b.name = e.name /\ b.type \in e.needs
            /\ registry[b.type] # None /\ registry[b.type] = bound[e.name]
  <1>1. PICK j \in 1..(step + 1) - 1 :
            /\ Order(lib)[j].kind = "base" /\ Order(lib)[j].name = e.name
            /\ Order(lib)[j].type \in e.needs
    BY NowFacts, VariantAssumption
  <1>2. Order(lib)[j] \in First(lib, step)
    BY <1>1, NowFacts DEF First
  <1>3. IsType(Order(lib)[j])
    BY <1>1 DEF IsType
  <1>4. Settled(Order(lib)[j])
    BY <1>2, <1>3 DEF ModuleInv, HandledOK
  <1> QED
    BY <1>1, <1>2, <1>4 DEF Settled

\* A type that is registered already has been settled by another name.
LEMMA KnownType ==
  ASSUME ModuleInv, NEW e, Now(e), IsType(e), registry[e.type] # None
  PROVE  \E f \in First(lib, step) :
            /\ f \in Exports(lib) /\ IsType(f) /\ f.type = e.type /\ f.kind = e.kind
            /\ f.needs = e.needs /\ Settled(f)
  <1>1. e \in Exports(lib) /\ lib \in Libraries /\ e.type \in Types
    BY NowFacts, ExportFacts
  <1>2. PICK f \in First(lib, step) : IsType(f) /\ f.type = e.type
    BY <1>1, NowFacts DEF ModuleInv, ByHandled
  <1>3. f \in Exports(lib)
    BY <1>2, NowFacts
  <1>4. f.kind = e.kind /\ f.needs = e.needs
    BY <1>1, <1>2, <1>3, SameType
  <1> QED
    BY <1>2, <1>3, <1>4 DEF ModuleInv, HandledOK

\* The types an export needs are exported before it, when they are registered.
LEMMA NeedsAreExported ==
  ASSUME ModuleInv, NEW e, Now(e), HasNeeds(e)
  PROVE  \A t \in e.needs : \E f \in First(lib, step) : IsType(f) /\ f.type = t
  BY NowFacts, ExportFacts DEF HasNeeds, ModuleInv, ByHandled

\* No two types have the same name.
LEMMA OneTypePerName ==
  ASSUME ModuleInv, NEW e, Now(e), Binds(e), NEW f \in First(lib, step), IsType(f),
         f.kind # "variant", f.name = e.name
  PROVE  f.kind = e.kind /\ f.type = e.type
  <1>1. /\ lib \in Libraries /\ e \in Exports(lib) /\ f \in Exports(lib)
        /\ Binds(f)
    BY NowFacts, ExportFacts
  <1>2. f.type = e.type /\ (f.kind = e.kind \/ {f.kind, e.kind} = {"foreign", "opaque"})
    BY <1>1, NameAssumption
  <1>3. IsType(e)
    BY <1>2 DEF IsType
  <1> QED
    BY <1>1, <1>2, <1>3, SameType

LEMMA CreateTypeKeeps ==
  ASSUME ModuleInv, NEW e, CreateType(e), Kept
  PROVE  BoundOK' /\ HandledOK' /\ ByHandled'
  <1> DEFINE datatype == IF registry[e.type] # None THEN registry[e.type] ELSE Made(e)
  <1>1. /\ Now(e) /\ Handled /\ IsType(e) /\ e.kind # "variant" /\ mode = "included"
        /\ bound' = [bound EXCEPT ![e.name] = datatype]
    BY DEF CreateType
  <1>2. e.type \in Types /\ e.name \in Names /\ Binds(e)
    BY <1>1, NowFacts, ExportFacts
  <1>3. /\ registry'[e.type] = datatype
        /\ \A t \in Types : t # e.type => registry'[t] = registry[t]
    BY <1>1, <1>2 DEF CreateType, Register, ModuleInv, Inv, RegistryInv
  <1>4. datatype # None
    BY DEF Made, None
  <1>5. bound'[e.name] = datatype /\ \A x \in Names : x # e.name => bound'[x] = bound[x]
    BY <1>1, <1>2 DEF ModuleInv, BoundOK
  <1>6. ASSUME NEW f \in First(lib, step), IsType(f), f.kind # "variant"
        PROVE  bound'[f.name] = bound[f.name]
    <2>1. f \in Exports(lib) /\ f.name \in Names /\ f.type \in Types
      BY <1>1, <1>6, NowFacts, ExportFacts
    <2>2. registry[f.type] # None /\ registry[f.type] = bound[f.name]
      BY <1>6 DEF ModuleInv, HandledOK, Settled
    <2>3. CASE f.name = e.name
      BY <1>1, <1>2, <1>3, <1>5, <1>6, <2>1, <2>2, <2>3, OneTypePerName DEF Kept
    <2>4. CASE f.name # e.name
      BY <1>5, <2>1, <2>4
    <2> QED
      BY <2>3, <2>4
  <1>7. Settled(e)'
    BY <1>1, <1>3, <1>4, <1>5 DEF Settled
  <1>8. HandledOK' /\ ByHandled'
    BY <1>1, <1>3, <1>6, <1>7, HandledStep
  <1>9. BoundOK'
    BY <1>1, <1>2, IncludedStep, Zenon DEF IsType
  <1> QED
    BY <1>8, <1>9

\* What a variant's registration is, whichever way it is handled.
LEMMA VariantSettles ==
  ASSUME ModuleInv, NEW e, Now(e), IsType(e), e.kind = "variant", Handled, Kept, UNCHANGED bound,
         \/ registry[e.type] # None /\ UNCHANGED registry
         \/ /\ registry[e.type] = None /\ HasNeeds(e)
            /\ registry' = [registry EXCEPT ![e.type] = Params(e)]
  PROVE  HasNeeds(e) /\ HandledOK' /\ ByHandled'
  <1>1. e.needs \subseteq Types /\ e.type \in Types
    BY NowFacts, ExportFacts
  <1>2. PICK b \in First(lib, step) :
            b.type \in e.needs /\ registry[b.type] # None
    BY BaseIsSettled
  <1>3. /\ HasNeeds(e) /\ registry'[e.type] = Params(e)
        /\ \A t \in Types : t # e.type => registry'[t] = registry[t]
    <2>1. CASE registry[e.type] # None /\ UNCHANGED registry
      <3>1. PICK f \in First(lib, step) :
                f.type = e.type /\ f.kind = e.kind /\ f.needs = e.needs /\ Settled(f)
        BY <2>1, KnownType
      <3> QED
        BY <2>1, <3>1 DEF Settled, HasNeeds, Params
    <2>2. CASE /\ registry[e.type] = None /\ HasNeeds(e)
               /\ registry' = [registry EXCEPT ![e.type] = Params(e)]
      BY <1>1, <2>2 DEF ModuleInv, Inv, RegistryInv
    <2> QED
      BY <2>1, <2>2
  <1>4. Params(e) # None
    BY <1>2 DEF Params, None
  <1>5. HasNeeds(e)' /\ Params(e)' = Params(e)
    BY <1>1, <1>3, ParamsKept
  <1>6. Settled(e)'
    BY <1>3, <1>4, <1>5 DEF Settled
  <1> QED
    BY <1>3, <1>6, HandledStep

LEMMA CreateVariantKeeps ==
  ASSUME ModuleInv, NEW e, CreateVariant(e), Kept
  PROVE  BoundOK' /\ HandledOK' /\ ByHandled'
  <1>1. /\ Now(e) /\ Handled /\ IsType(e) /\ e.kind = "variant" /\ mode = "included"
        /\ UNCHANGED bound
    BY DEF CreateVariant, IsType
  <1>2. HasNeeds(e) /\ HandledOK' /\ ByHandled'
    BY <1>1, VariantSettles DEF CreateVariant, Register
  <1>3. BoundOK'
    BY <1>1, <1>2, NeedsAreExported, IncludedStep
  <1> QED
    BY <1>2, <1>3

\* Two names of a type are bound to the same datatype by an image.
LEMMA OneDatatype ==
  ASSUME ModuleInv, mode = "loaded",
         NEW e \in Exports(lib), IsType(e), e.kind # "variant", bound[e.name] # None,
         NEW f \in Exports(lib), IsType(f), f.kind # "variant", bound[f.name] # None,
         e.type = f.type
  PROVE  bound[e.name] = bound[f.name]
  <1>1. PICK i \in image : bound = i.bound
    BY DEF ModuleInv, BoundOK
  <1>2. SoundImage(i) /\ i.lib \in Libraries
    BY DEF ModuleInv, SoundImages, SoundImage
  <1>3. lib \in Libraries
    BY DEF ModuleInv, StageOK
  <1>4. e.name \in Names /\ f.name \in Names /\ Binds(e) /\ Binds(f)
    BY <1>3, ExportFacts
  <1>5. First(i.lib, Len(Order(i.lib))) = Exports(i.lib)
    BY <1>2, Places
  <1>6. PICK x \in Exports(i.lib) : Binds(x) /\ x.name = e.name
    BY <1>1, <1>2, <1>4, <1>5 DEF SoundImage, BoundBy
  <1>7. PICK y \in Exports(i.lib) : Binds(y) /\ y.name = f.name
    BY <1>1, <1>2, <1>4, <1>5 DEF SoundImage, BoundBy
  <1>8. /\ x.type = e.type /\ (e.kind = x.kind \/ {e.kind, x.kind} = {"foreign", "opaque"})
        /\ y.type = f.type /\ (f.kind = y.kind \/ {f.kind, y.kind} = {"foreign", "opaque"})
    BY <1>2, <1>3, <1>4, <1>6, <1>7, NameAssumption
  <1>9. IsType(x) /\ IsType(y)
    BY <1>8 DEF IsType
  <1> QED
    BY <1>1, <1>2, <1>6, <1>7, <1>8, <1>9 DEF SoundImage

LEMMA ReinitTypeKeeps ==
  ASSUME ModuleInv, NEW e, ReinitType(e), Kept
  PROVE  BoundOK' /\ HandledOK' /\ ByHandled'
  <1>1. /\ Now(e) /\ Handled /\ IsType(e) /\ e.kind # "variant" /\ mode = "loaded"
        /\ bound[e.name] # None /\ UNCHANGED bound
    BY DEF ReinitType
  <1>2. e.type \in Types /\ e \in Exports(lib)
    BY <1>1, NowFacts, ExportFacts
  <1>3. CASE registry[e.type] # None
    <2>1. UNCHANGED registry
      BY <1>3 DEF ReinitType
    <2>2. PICK f \in First(lib, step) :
              /\ f \in Exports(lib) /\ IsType(f) /\ f.type = e.type /\ f.kind = e.kind
              /\ Settled(f)
      BY <1>1, <1>3, KnownType
    <2>3. bound[e.name] = bound[f.name]
      BY <1>1, <1>2, <2>2, OneDatatype DEF Settled
    <2>4. Settled(e)'
      BY <1>1, <1>3, <2>1, <2>2, <2>3 DEF Settled
    <2> QED
      BY <1>1, <2>1, <2>4, HandledStep, LoadedStep
  <1>4. CASE registry[e.type] = None
    <2>1. registry' = [registry EXCEPT ![e.type] = bound[e.name]]
      BY <1>4 DEF ReinitType, Register
    <2>2. /\ registry'[e.type] = bound[e.name]
          /\ \A t \in Types : t # e.type => registry'[t] = registry[t]
      BY <1>2, <2>1 DEF ModuleInv, Inv, RegistryInv
    <2>3. Settled(e)'
      BY <1>1, <2>2 DEF Settled
    <2> QED
      BY <1>1, <2>2, <2>3, HandledStep, LoadedStep
  <1> QED
    BY <1>3, <1>4

LEMMA ReinitVariantKeeps ==
  ASSUME ModuleInv, NEW e, ReinitVariant(e), Kept
  PROVE  BoundOK' /\ HandledOK' /\ ByHandled'
  <1>1. /\ Now(e) /\ Handled /\ IsType(e) /\ e.kind = "variant" /\ mode = "loaded"
        /\ HasNeeds(e) /\ UNCHANGED bound
    BY DEF ReinitVariant, IsType
  <1>2. PICK b \in First(lib, step) : b.type \in e.needs /\ registry[b.type] = bound[e.name]
    BY <1>1, BaseIsSettled
  <1>3. bound[e.name] \cup Params(e) = Params(e)
    BY <1>2 DEF Params
  <1>4. HandledOK' /\ ByHandled'
    BY <1>1, <1>3, VariantSettles DEF ReinitVariant, Register
  <1> QED
    BY <1>1, <1>4, LoadedStep

LEMMA BindRestKeeps ==
  ASSUME ModuleInv, NEW e, BindRest(e), Kept
  PROVE  BoundOK' /\ HandledOK' /\ ByHandled'
  <1>1. Now(e) /\ Handled /\ ~IsType(e) /\ UNCHANGED registry
    BY DEF BindRest
  <1>2. e.name \in Names /\ mode \in {"included", "loaded"}
    BY <1>1, NowFacts, ExportFacts
  <1>3. \/ UNCHANGED bound
        \/ mode = "included" /\ Binds(e) /\ \E d : bound' = [bound EXCEPT ![e.name] = d]
    <2>1. CASE mode = "loaded" \/ e.kind = "fn"
      BY <2>1 DEF BindRest
    <2>2. CASE ~(mode = "loaded" \/ e.kind = "fn")
      <3>1. Binds(e) /\ mode = "included"
        BY <1>1, <1>2, <2>2 DEF Binds, IsType
      <3> QED
        BY <2>2, <3>1, Zenon DEF BindRest
    <2> QED
      BY <2>1, <2>2
  <1>4. ASSUME NEW f \in First(lib, step), IsType(f), f.kind # "variant"
        PROVE  bound'[f.name] = bound[f.name]
    <2>1. f.name \in Names
      BY <1>1, NowFacts, ExportFacts
    <2>2. Binds(e) => f.name # e.name
      BY <1>1, <1>4, OneTypePerName DEF IsType
    <2> QED
      BY <1>2, <1>3, <2>1, <2>2 DEF ModuleInv, BoundOK
  <1>5. HandledOK' /\ ByHandled'
    BY <1>1, <1>4, HandledStep
  <1>6. CASE mode = "loaded"
    <2>1. UNCHANGED bound
      BY <1>6 DEF BindRest
    <2> QED
      BY <1>1, <1>5, <1>6, <2>1, LoadedStep
  <1>7. CASE mode = "included"
    <2>1. HasNeeds(e)
      BY <1>7 DEF BindRest
    <2>2. \A t \in e.needs : \E f \in First(lib, step) : IsType(f) /\ f.type = t
      BY <1>1, <2>1, NeedsAreExported
    <2>3. \/ UNCHANGED bound
          \/ Binds(e) /\ \E d : bound' = [bound EXCEPT ![e.name] = d]
      BY <1>3
    <2> QED
      BY <1>1, <1>5, <1>7, <2>2, <2>3, IncludedStep
  <1> QED
    BY <1>2, <1>6, <1>7

\* The registry of foreign types only gets datatypes that are foreign.
LEMMA ForeignKept ==
  ASSUME ForeignOK, UNCHANGED <<lib, mode>>,
         mode = "included" => \A f \in Exports(lib) : f.kind = "foreign" =>
            registry'[f.type] = registry[f.type] \/ IsForeignType(registry'[f.type])
  PROVE  ForeignOK'
  BY DEF ForeignOK, IsForeignType

LEMMA ExportForeign ==
  ASSUME ModuleInv, NEW e,
         \/ CreateType(e) \/ CreateVariant(e) \/ ReinitType(e) \/ ReinitVariant(e)
         \/ BindRest(e)
  PROVE  ForeignOK'
  <1>1. /\ Now(e) /\ UNCHANGED <<lib, mode>> /\ ForeignOK
        /\ lib \in Libraries /\ e \in Exports(lib)
    <2>1. Now(e) /\ Handled
      BY DEF CreateType, CreateVariant, ReinitType, ReinitVariant, BindRest
    <2> QED
      BY <2>1, NowFacts DEF Handled, ModuleInv
  <1>2. CASE CreateType(e)
    <2>1. IsType(e) /\ e.type \in Types
      BY <1>1, <1>2, ExportFacts DEF CreateType
    <2>2. ASSUME NEW f \in Exports(lib), f.kind = "foreign"
          PROVE  registry'[f.type] = registry[f.type] \/ IsForeignType(registry'[f.type])
      <3>1. CASE registry'[f.type] # registry[f.type]
        <4>1. f.type = e.type /\ registry'[e.type] = Made(e)
          <5>1. f.type \in Types
            BY <1>1, <2>2, ExportFacts DEF IsType
          <5>2. registry' = [registry EXCEPT ![e.type] = Made(e)]
            BY <1>2, <3>1 DEF CreateType, Register
          <5> QED
            BY <2>1, <3>1, <5>1, <5>2 DEF ModuleInv, Inv, RegistryInv
        <4>2. e.kind = "foreign"
          BY <1>1, <2>1, <2>2, <4>1, SameType DEF IsType
        <4> QED
          BY <4>1, <4>2 DEF Made, IsForeignType
      <3> QED
        BY <3>1
    <2> QED
      BY <1>1, <2>2, ForeignKept
  <1>3. CASE CreateVariant(e)
    <2>1. IsType(e) /\ e.type \in Types /\ e.kind = "variant"
      BY <1>1, <1>3, ExportFacts DEF CreateVariant, IsType
    <2>2. ASSUME NEW f \in Exports(lib), f.kind = "foreign"
          PROVE  registry'[f.type] = registry[f.type]
      <3>1. f.type # e.type /\ f.type \in Types
        BY <1>1, <2>1, <2>2, SameType, ExportFacts DEF IsType
      <3> QED
        BY <1>3, <2>1, <3>1 DEF CreateVariant, Register, ModuleInv, Inv, RegistryInv
    <2> QED
      BY <1>1, <2>2, ForeignKept
  <1>4. CASE ReinitType(e) \/ ReinitVariant(e)
    BY <1>1, <1>4, ForeignKept DEF ReinitType, ReinitVariant
  <1>5. CASE BindRest(e)
    BY <1>1, <1>5, ForeignKept DEF BindRest
  <1> QED
    BY <1>2, <1>3, <1>4, <1>5

LEMMA ExportKeeps ==
  ASSUME ModuleInv, NEW e,
         \/ CreateType(e) \/ CreateVariant(e) \/ ReinitType(e) \/ ReinitVariant(e)
         \/ BindRest(e)
  PROVE  ModuleInv'
  <1>1. StepOK
    BY ExportStep DEF ModuleInv, Inv
  <1>2. Now(e) /\ Handled
    BY DEF CreateType, CreateVariant, ReinitType, ReinitVariant, BindRest
  <1>3. UNCHANGED process /\ process \in Nat
    BY <1>2 DEF Handled, ModuleInv, Inv, RegistryInv
  <1>4. Inv' /\ Kept
    BY <1>1, <1>3 DEF StepOK, Inv
  <1>5. BoundOK' /\ HandledOK' /\ ByHandled'
    BY <1>4, CreateTypeKeeps, CreateVariantKeeps, ReinitTypeKeeps, ReinitVariantKeeps,
       BindRestKeeps
  <1>6. StageOK' /\ SoundImages(image)' /\ PrecompiledLoads'
    BY <1>2, StageStep
  <1>7. ForeignOK'
    BY ExportForeign
  <1> QED
    BY <1>4, <1>5, <1>6, <1>7 DEF ModuleInv

\* Nothing the registry or the module holds changes.
LEMMA SameModule ==
  ASSUME ModuleInv, Inv', UNCHANGED moduleVars, copy'[Lib] = copy[Lib]
  PROVE  ModuleInv'
  <1> USE DEF moduleVars
  <1>1. StageOK' /\ BoundOK' /\ SoundImages(image)'
    BY DEF ModuleInv, StageOK, BoundOK, SoundImages, BoundBy
  <1>2. HandledOK'
    BY DEF ModuleInv, HandledOK, Settled, HasNeeds, Params
  <1>3. ByHandled' /\ ForeignOK' /\ PrecompiledLoads'
    BY DEF ModuleInv, ByHandled, ForeignOK, PrecompiledLoads
  <1> QED
    BY <1>1, <1>2, <1>3 DEF ModuleInv

\* The copies of jlrs do not touch each other.
LEMMA StarterKeeps ==
  ASSUME ModuleInv, NEW s \in Starters, StarterStep(s), UNCHANGED moduleVars, Inv'
  PROVE  ModuleInv'
  <1>1. copy'[Lib] = copy[Lib]
    <2>1. Lib # App /\ copy \in [Copies -> {"fresh", "ready", "broken"}] /\ Lib \in Copies
      BY ModuleInitAssumption DEF ModuleInv, Inv, StartInv, StartTypeOK
    <2>2. UNCHANGED copy \/ \E result : copy' = [copy EXCEPT ![App] = result]
      BY DEF StarterStep, Check, Claim, NotFound, Boot, Activate, Deactivate, Exit, InitJlrs
    <2> QED
      BY <2>1, <2>2
  <1> QED
    BY <1>1, SameModule

\* The init function is called: nothing has been handled yet.
LEMMA CallKeeps ==
  ASSUME ModuleInv, NEW m \in {"included", "loaded"}, Call(m), Inv'
  PROVE  ModuleInv'
  <1>1. PICK result \in {"ready", "broken"} :
            /\ InitJlrs(Lib, result)
            /\ stage' = IF result = "ready" THEN "running" ELSE "aborted"
    BY DEF Call
  <1>2. /\ stage = "uncalled" /\ mode' = m
        /\ UNCHANGED <<process, lib, image, step, registry, user>>
    BY DEF Call
  <1>3. /\ step = 0 /\ bound = Unbound /\ registry = Unregistered /\ lib \in Libraries
        /\ First(lib, 0) = {} /\ mode = "none"
    BY <1>2, Places DEF ModuleInv, StageOK
  <1>4. StageOK'
    BY <1>1, <1>2, <1>3 DEF ModuleInv, StageOK
  <1>5. BoundOK'
    <2>1. CASE m = "included"
      BY <1>2, <1>3, <2>1 DEF Call, ModuleInv, BoundOK, BoundBy, NeedsFirst
    <2>2. CASE m = "loaded"
      <3>1. PICK i \in image : bound' = i.bound
        BY <2>2 DEF Call
      <3>2. bound' = [x \in Names |-> bound'[x]]
        BY <3>1 DEF ModuleInv, SoundImages, SoundImage
      <3> QED
        BY <1>2, <2>2, <3>1, <3>2 DEF BoundOK
    <2> QED
      BY <2>1, <2>2
  <1>6. SoundImages(image)'
    BY <1>2 DEF ModuleInv, SoundImages
  <1>7. HandledOK' /\ ByHandled' /\ ForeignOK'
    <2>1. \A e \in Exports(lib) : e.kind = "foreign" => registry[e.type] = None
      BY <1>3, ExportFacts DEF Unregistered, IsType
    <2> QED
      BY <1>2, <1>3, <2>1 DEF HandledOK, ByHandled, ForeignOK, IsForeignType, None, Unregistered
  <1>8. PrecompiledLoads'
    <2>1. Lib \in Copies /\ copy \in [Copies -> {"fresh", "ready", "broken"}]
      BY ModuleInitAssumption DEF ModuleInv, Inv, StartInv, StartTypeOK
    <2> QED
      BY <1>1, <2>1 DEF InitJlrs, PrecompiledLoads
  <1> QED
    BY <1>4, <1>5, <1>6, <1>7, <1>8 DEF ModuleInv

\* An export that is handled when its module has been loaded finds what it needs, if this
\* build made the image.
LEMMA OwnImageLoads ==
  ASSUME ModuleInv, NEW e, Now(e), mode = "loaded", NEW i \in image, i.lib = lib
  PROVE  /\ IsType(e) => bound[e.name] # None
         /\ e.kind \in {"variant", "fn"} => HasNeeds(e)
         /\ e.kind = "foreign" => IsForeignType(bound[e.name])
  <1>1. SoundImage(i) /\ bound = i.bound
    BY DEF ModuleInv, SoundImages, BoundOK
  <1>2. IsType(e) => bound[e.name] # None
    BY <1>1, NowFacts DEF SoundImage
  <1>3. ASSUME e.kind \in {"variant", "fn"}, NEW t \in e.needs
        PROVE  registry[t] # None
    <2>1. \E f \in First(lib, (step + 1) - 1) : IsType(f) /\ f.type = t
      BY <1>1, <1>3, NowFacts DEF SoundImage, NeedsFirst
    <2>2. (step + 1) - 1 = step
      BY NowFacts
    <2> QED
      BY <2>1, <2>2 DEF ModuleInv, HandledOK, Settled
  <1>4. e.kind = "foreign" => IsForeignType(bound[e.name])
    BY <1>1, NowFacts DEF SoundImage
  <1> QED
    BY <1>2, <1>3, <1>4 DEF HasNeeds

\* A step that ends the init function.
LEMMA EndKeeps ==
  ASSUME ModuleInv, Inv',
         UNCHANGED <<copy, process, lib, image, mode, step, bound, registry, hooked, user>>,
         stage = "running", stage' \in {"done", "aborted"},
         stage' = "done" => step = Len(Order(lib)),
         stage' = "aborted" /\ mode = "loaded" => \A i \in image : i.lib # lib
  PROVE  ModuleInv'
  <1>1. StageOK'
    BY DEF ModuleInv, StageOK
  <1>2. BoundOK' /\ SoundImages(image)'
    BY DEF ModuleInv, BoundOK, SoundImages, BoundBy
  <1>3. HandledOK'
    BY DEF ModuleInv, HandledOK, Settled, HasNeeds, Params
  <1>4. ByHandled' /\ ForeignOK' /\ PrecompiledLoads'
    BY DEF ModuleInv, ByHandled, ForeignOK, PrecompiledLoads
  <1> QED
    BY <1>1, <1>2, <1>3, <1>4 DEF ModuleInv

LEMMA AbortKeeps ==
  ASSUME ModuleInv, NEW e, Abort(e), Inv'
  PROVE  ModuleInv'
  <1>1. Now(e) /\ stage = "running" /\ stage' = "aborted"
    BY NowFacts DEF Abort
  <1>2. ASSUME mode = "loaded", NEW i \in image, i.lib = lib
        PROVE  FALSE
    BY <1>1, <1>2, OwnImageLoads DEF Abort, Rehooks
  <1> QED
    BY <1>1, <1>2, EndKeeps DEF Abort, startupVars

LEMMA ReturnKeeps ==
  ASSUME ModuleInv, Return, Inv'
  PROVE  ModuleInv'
  BY EndKeeps DEF Return, startupVars

\* The first value of a type with a TYPE_FN.
LEMMA UserKeeps ==
  ASSUME ModuleInv, NEW u \in Users, Miss(u) \/ Make(u), Inv', Kept
  PROVE  ModuleInv'
  <1>1. /\ stage = "done" /\ user' \in [Users -> {"idle", "missed"}]
        /\ UNCHANGED <<copy, process, lib, image, mode, stage, step, bound>>
    BY DEF Miss, Make, Using, startupVars, ModuleInv, StageOK
  <1>2. StageOK'
    BY <1>1 DEF ModuleInv, StageOK
  <1>3. BoundOK' /\ SoundImages(image)'
    BY <1>1 DEF ModuleInv, BoundOK, SoundImages, BoundBy
  <1>4. HandledOK'
    <2>1. lib \in Libraries /\ First(lib, step) \subseteq Exports(lib)
      BY Places DEF ModuleInv, StageOK
    <2>2. ASSUME NEW f \in First(lib, step), IsType(f) PROVE Settled(f)'
      <3>1. Settled(f) /\ f.needs \subseteq Types /\ f.type \in Types
        BY <2>1, <2>2, ExportFacts DEF ModuleInv, HandledOK
      <3> QED
        BY <1>1, <3>1, SettledKept
    <2> QED
      BY <1>1, <2>2 DEF HandledOK
  <1>5. ByHandled' /\ PrecompiledLoads'
    BY <1>1 DEF ModuleInv, ByHandled, PrecompiledLoads
  <1>6. ASSUME NEW f \in Exports(lib), f.kind = "foreign"
        PROVE  registry'[f.type] = registry[f.type] \/ IsForeignType(registry'[f.type])
    <2>1. f.type \in Types
      BY <1>6, ExportFacts DEF ModuleInv, StageOK, IsType
    <2>2. \/ UNCHANGED registry
          \/ registry' = [registry EXCEPT ![Parachute] = Made(Parachuted(u))]
      BY DEF Miss, Make, Register, Parachuted
    <2>3. IsForeignType(Made(Parachuted(u)))
      BY DEF IsForeignType, Made, Parachuted
    <2> QED
      BY <2>1, <2>2, <2>3 DEF ModuleInv, Inv, RegistryInv
  <1>7. ForeignOK'
    BY <1>1, <1>6, ForeignKept DEF ModuleInv
  <1> QED
    BY <1>2, <1>3, <1>4, <1>5, <1>7 DEF ModuleInv

\* The image Julia saves when the module was included.
LEMMA Saved ==
  ASSUME ModuleInv, mode = "included", stage = "done"
  PROVE  SoundImages({[lib |-> lib, bound |-> bound]})
  <1> DEFINE i == [lib |-> lib, bound |-> bound]
  <1>1. /\ lib \in Libraries /\ step = Len(Order(lib))
        /\ Len(Order(lib)) \in Nat
        /\ First(lib, step) = Exports(lib)
    BY Places DEF ModuleInv, StageOK
  <1>2. /\ bound = [x \in Names |-> bound[x]]
        /\ BoundBy(lib, step, bound) /\ NeedsFirst(lib, step)
    BY DEF ModuleInv, BoundOK
  <1>3. ASSUME NEW e \in Exports(lib), IsType(e), e.kind # "variant"
        PROVE  registry[e.type] = bound[e.name] /\ bound[e.name] # None
    BY <1>1, <1>3 DEF ModuleInv, HandledOK, Settled
  <1>4. ASSUME NEW e \in Exports(lib), e.kind = "variant"
        PROVE  bound[e.name] # None
    <2>1. PICK n \in 1..Len(Order(lib)) : e = Order(lib)[n]
      BY DEF Exports
    <2>2. PICK j \in 1..n - 1 : Order(lib)[j].kind = "base" /\ Order(lib)[j].name = e.name
      BY <1>1, <1>4, <2>1, VariantAssumption
    <2>3. j \in 1..Len(Order(lib))
      BY <1>1
    <2>4. Order(lib)[j] \in Exports(lib) /\ IsType(Order(lib)[j])
      BY <2>2, <2>3 DEF Exports, IsType
    <2> QED
      BY <1>3, <2>2, <2>4
  <1>5. ASSUME NEW e \in Exports(lib), NEW f \in Exports(lib),
               IsType(e), Binds(e), IsType(f), Binds(f), e.type = f.type
        PROVE  bound[e.name] = bound[f.name]
    BY <1>3, <1>5 DEF Binds
  <1>6. ASSUME NEW e \in Exports(lib), e.kind = "foreign"
        PROVE  IsForeignType(bound[e.name])
    BY <1>3, <1>6 DEF ModuleInv, ForeignOK, IsType
  <1>7. SoundImage(i)
    BY <1>1, <1>2, <1>3, <1>4, <1>5, <1>6 DEF SoundImage
  <1> QED
    BY <1>7 DEF SoundImages

LEMMA NextProcessKeeps ==
  ASSUME ModuleInv, NEW saved, SoundImages(saved), NextProcess(saved), Inv'
  PROVE  ModuleInv'
  <1>1. /\ process' \in 1..MaxProcesses /\ lib' \in Libraries /\ image' = saved
        /\ mode' = "none" /\ stage' = "uncalled" /\ step' = 0
        /\ bound' = Unbound /\ registry' = Unregistered /\ user' = Idle
    BY ModuleInitAssumption DEF NextProcess, ModuleInv, StageOK
  <1>2. Len(Order(lib')) \in Nat /\ First(lib', 0) = {}
    BY <1>1, Places
  <1>3. StageOK'
    BY <1>1, <1>2 DEF StageOK, Idle
  <1>4. BoundOK'
    <2>1. (bound = [x \in Names |-> bound[x]])'
      BY <1>1 DEF Unbound
    <2>2. BoundBy(lib', 0, Unbound) /\ NeedsFirst(lib', 0)
      BY DEF BoundBy, NeedsFirst, Unbound
    <2> QED
      BY <1>1, <2>1, <2>2 DEF BoundOK
  <1>5. SoundImages(image)'
    BY <1>1 DEF SoundImages
  <1>6. HandledOK' /\ ByHandled' /\ ForeignOK' /\ PrecompiledLoads'
    BY <1>1, <1>2 DEF HandledOK, ByHandled, ForeignOK, PrecompiledLoads, Unregistered
  <1> QED
    BY <1>3, <1>4, <1>5, <1>6 DEF ModuleInv

LEMMA ModuleInvInit == Init => ModuleInv
  <1> SUFFICES ASSUME Init PROVE ModuleInv
    OBVIOUS
  <1>1. /\ process = 1 /\ lib \in Libraries /\ image = {}
        /\ mode = "none" /\ stage = "uncalled" /\ step = 0
        /\ bound = Unbound /\ registry = Unregistered /\ user = Idle
    BY DEF Init
  <1>2. Len(Order(lib)) \in Nat /\ First(lib, 0) = {}
    BY <1>1, Places
  <1>3. StageOK
    BY <1>1, <1>2, ModuleInitAssumption DEF StageOK, Idle
  <1>4. BoundOK
    BY <1>1 DEF BoundOK, BoundBy, NeedsFirst, Unbound
  <1>5. SoundImages(image) /\ HandledOK /\ ByHandled /\ ForeignOK /\ PrecompiledLoads
    BY <1>1, <1>2 DEF SoundImages, HandledOK, ByHandled, ForeignOK, PrecompiledLoads, Unregistered
  <1> QED
    BY <1>3, <1>4, <1>5, InvInit DEF ModuleInv

LEMMA ModuleInvStep == ModuleInv /\ [Next]_vars => ModuleInv'
  <1> SUFFICES ASSUME ModuleInv, [Next]_vars PROVE ModuleInv'
    OBVIOUS
  <1>1. Inv'
    BY InvStep, InvStutter DEF ModuleInv, StepOK, Inv
  <1>2. ASSUME NEW s \in Starters, StarterStep(s), UNCHANGED moduleVars PROVE ModuleInv'
    BY <1>1, <1>2, StarterKeeps
  <1>3. ASSUME NEW m \in {"included", "loaded"}, Call(m) PROVE ModuleInv'
    BY <1>1, <1>3, CallKeeps
  <1>4. ASSUME NEW e \in Exports(lib),
               \/ CreateType(e) \/ CreateVariant(e) \/ ReinitType(e) \/ ReinitVariant(e)
               \/ BindRest(e) \/ Abort(e)
        PROVE  ModuleInv'
    BY <1>1, <1>4, ExportKeeps, AbortKeeps
  <1>5. CASE Return
    BY <1>1, <1>5, ReturnKeeps
  <1>6. ASSUME NEW u \in Users, Miss(u) \/ Make(u) PROVE ModuleInv'
    <2>1. StepOK
      BY <1>6, InvStep DEF ModuleInv, Next
    <2>2. UNCHANGED process
      BY <1>6 DEF Miss, Make, Using
    <2> QED
      BY <1>1, <1>6, <2>1, <2>2, UserKeeps DEF StepOK
  <1>7. CASE Precompile
    BY <1>1, <1>7, Saved, NextProcessKeeps DEF Precompile
  <1>8. CASE Restart
    BY <1>1, <1>8, NextProcessKeeps DEF Restart, ModuleInv
  <1>9. CASE UNCHANGED vars
    BY <1>1, <1>9, SameModule DEF vars, startupVars
  <1> QED
    BY <1>2, <1>3, <1>4, <1>5, <1>6, <1>7, <1>8, <1>9 DEF Next

LEMMA ModuleInvAlways == Spec => []ModuleInv
  BY ModuleInvInit, ModuleInvStep, PTL DEF Spec

\* Whether a module was included, loaded from an image of this build or from one of
\* another in which names stand for the same types (NameAssumption), or uses a type by two
\* names: when the init function has returned, the datatype the library makes values of is
\* the one the module binds, and the GC marks and sweeps values of foreign types with
\* functions of this process, save of those a library for Julia 1.8 or older has from its
\* image.
THEOREM RegistryIsOK == Spec => []RegistryOK
  <1>1. ASSUME ModuleInv PROVE RegistryOK
    <2>1. InitTypeOK
      BY <1>1 DEF ModuleInv, StageOK, Inv, StartInv, StartTypeOK, InitTypeOK
    <2>2. HooksAreCurrent
      BY <1>1 DEF ModuleInv, Inv, RegistryInv
    <2>3. ASSUME stage = "done", NEW e \in TypeExports
          PROVE  registry[e.type] = IF e.kind = "variant" THEN bound[e.name] \cup Params(e)
                                    ELSE bound[e.name]
      <3>1. /\ lib \in Libraries /\ e \in Exports(lib) /\ IsType(e)
            /\ step = Len(Order(lib)) /\ Len(Order(lib)) \in Nat
            /\ First(lib, step) = Exports(lib)
        BY <1>1, <2>3, Places DEF ModuleInv, StageOK, TypeExports
      <3>2. \A f \in Exports(lib) : IsType(f) => Settled(f)
        BY <1>1, <3>1 DEF ModuleInv, HandledOK
      <3>3. CASE e.kind = "variant"
        <4>1. PICK n \in 1..Len(Order(lib)) : e = Order(lib)[n]
          BY <3>1 DEF Exports
        <4>2. PICK j \in 1..n - 1 :
                  /\ Order(lib)[j].kind = "base" /\ Order(lib)[j].name = e.name
                  /\ Order(lib)[j].type \in e.needs
          BY <3>1, <3>3, <4>1, VariantAssumption
        <4>3. j \in 1..Len(Order(lib))
          BY <3>1
        <4>4. Order(lib)[j] \in Exports(lib) /\ IsType(Order(lib)[j])
          BY <4>2, <4>3 DEF Exports, IsType
        <4>5. registry[Order(lib)[j].type] = bound[e.name]
          BY <3>2, <4>2, <4>4 DEF Settled
        <4>6. bound[e.name] \subseteq Params(e)
          BY <4>2, <4>5 DEF Params
        <4> QED
          BY <3>1, <3>2, <3>3, <4>6 DEF Settled
      <3>4. CASE e.kind # "variant"
        BY <3>1, <3>2, <3>4 DEF Settled
      <3> QED
        BY <3>3, <3>4
    <2> QED
      BY <2>1, <2>2, <2>3 DEF RegistryOK, RegistryAgrees
  <1> QED
    BY <1>1, ModuleInvAlways, PTL

\* A module that was precompiled by the build that is on disk can be loaded: the init
\* function then finds every name bound and every type registered when it needs it, and
\* aborts only if JlrsCore is broken.
THEOREM PrecompiledLoad == Spec => []PrecompiledLoads
  <1>1. ModuleInv => PrecompiledLoads
    BY DEF ModuleInv
  <1> QED
    BY <1>1, ModuleInvAlways, PTL
=============================================================================
