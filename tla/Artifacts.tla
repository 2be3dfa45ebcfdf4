----------------------------- MODULE Artifacts ------------------------------
(***************************************************************************)
(* Code on its way into the virtual machine.  An artifact is validated and *)
(* encoded, by the host or by string.dump, its bytes are kept somewhere,   *)
(* possibly cut, changed or extended, and are given to decode_validated or *)
(* to load; a function of what comes out is run the way module Validator   *)
(* runs the prototypes a compiler may have handed over in memory.          *)
(***************************************************************************)
EXTENDS ArtifactValidation, Validator

CONSTANTS
  Compiled,    \* the artifacts the compiler or the host starts from
  Policies(_), \* the limits an artifact is tried with
  Unlimited,   \* the limits that refuse none of them
  Fragile,     \* the artifacts whose bytes are damaged
  Damages,     \* what is added to a byte that is changed
  MaxDumps     \* how often one function is dumped

VARIABLES
  stage,       \* "code" for the prototypes of Validator; else how far an artifact is
  artifact,    \* the artifact that was stored, and the one that came out
  loaded,
  limits,      \* the host's limits
  wire,        \* the stored bytes, and whether they are the ones that were written
  intact,
  dumps,       \* dumps so far, and the artifact and the function that was dumped last
  dumped,
  upvalues     \* what fills the upvalues of the loaded function

artifactVars == <<stage, artifact, loaded, limits, wire, intact, dumps, dumped, upvalues>>
allVars == <<vars, artifactVars>>

Nowhere == [registers |-> 0, params |-> 0, features |-> {}, profile |-> "Blu", length |-> 0]

(***************************************************************************)
(* dump_blu_function: the prototypes below main, breadth first, with their *)
(* children renumbered.  A stripped dump forgets names and lines, and is   *)
(* of the older format.                                                    *)
(***************************************************************************)
RECURSIVE Selected(_, _, _)
Selected(a, chosen, cursor) ==
  IF cursor > Len(chosen) THEN chosen
  ELSE LET Add(list, child) == IF child \in ToSet(list) THEN list ELSE Append(list, child)
       IN Selected(a, FoldLeft(Add, chosen, a.prototypes[chosen[cursor] + 1].children), cursor + 1)

Position(list, x) == IndexFirstSubSeq(<<x>>, list) - 1

(* Mutant: children keep the numbers they had in the whole artifact. *)
ProjectedOldChildren(a, main, k, strip) ==
  LET p == a.prototypes[k + 1]
      named(d) == IF strip THEN [d EXCEPT !.name = << >>] ELSE d
      with(condition, name) == IF condition THEN {FeatureBit(name)} ELSE {}
  IN [p EXCEPT
        !.last_line_defined = IF strip THEN p.line_defined ELSE @,
        !.features = @ \cup with(k = main, "DumpedFunction") \cup with(strip, "StrippedDebugLines"),
        !.line_info = IF strip THEN [i \in DOMAIN p.code |-> 0] ELSE @,
        !.locals = [i \in DOMAIN @ |-> named(@[i])],
        !.upvalue_debug = [i \in DOMAIN @ |-> named(@[i])]]

Projected(a, main, k, strip) ==
  LET p == a.prototypes[k + 1]
      chosen == Selected(a, <<main>>, 1)
      named(d) == IF strip THEN [d EXCEPT !.name = << >>] ELSE d
      with(condition, name) == IF condition THEN {FeatureBit(name)} ELSE {}
  IN [p EXCEPT
        !.last_line_defined = IF strip THEN p.line_defined ELSE @,
        !.features = @ \cup with(k = main, "DumpedFunction") \cup with(strip, "StrippedDebugLines"),
        !.children = [i \in DOMAIN @ |-> Position(chosen, @[i])],
        !.line_info = IF strip THEN [i \in DOMAIN p.code |-> 0] ELSE @,
        !.locals = [i \in DOMAIN @ |-> named(@[i])],
        !.upvalue_debug = [i \in DOMAIN @ |-> named(@[i])]]

(* "b", "v" and "=?". *)
Projection(a, main, strip) ==
  LET chosen == Selected(a, <<main>>, 1)
  IN [format |-> IF strip THEN 1 ELSE a.format,
      compiler |-> IF strip THEN [a.compiler EXCEPT !.name = <<7>>, !.version = <<8>>,
                                                    !.revision = << >>] ELSE a.compiler,
      sources |-> IF strip THEN [i \in DOMAIN a.sources |-> [a.sources[i] EXCEPT !.name = <<9, 10>>]]
                           ELSE a.sources,
      prototypes |-> [i \in DOMAIN chosen |-> Projected(a, main, chosen[i], strip)],
      main |-> 0]

(* lua_dump_header, lua_dump_payload: a fixed signature of the version. *)
Header(profile) ==
  CASE profile = "Lua54" -> <<27, 54, 25>>
    [] profile = "Lua55" -> <<27, 55, 25>>
    [] OTHER             -> << >>

Profile(a) == a.prototypes[a.main + 1].profile

(* What load makes of bytes under a profile: the payload of a binary chunk, *)
(* or nothing when they are text or the chunk of another version.           *)
Payload(bytes, profile) ==
  LET header == Header(profile)
  IN CASE IsPrefix(Magic, bytes)                        -> <<bytes>>
       [] header # << >> /\ IsStrictPrefix(header, bytes) -> <<SubSeq(bytes, Len(header) + 1, Len(bytes))>>
       [] OTHER                                         -> << >>

(* create_blu_v1_closure_in_optional_environment: which upvalues of the    *)
(* loaded function hold the environment.                                   *)
Env == <<5>>
FreshUpvalues(p) ==
  [n \in DOMAIN p.upvalues |->
     IF p.profile # "Lua51"
        /\ IF Has(p, "DumpedFunction") THEN n = 1
           ELSE n \in DOMAIN p.upvalue_debug /\ p.upvalue_debug[n].name = Env
     THEN "environment" ELSE "nil"]

-----------------------------------------------------------------------------
ArtifactInit ==
  \/ /\ Init
     /\ stage = "code"
     /\ artifact = << >> /\ limits = << >>
     /\ loaded = << >> /\ wire = << >> /\ intact = TRUE /\ dumps = 0 /\ dumped = << >>
     /\ upvalues = << >>
  \/ /\ proto = [code |-> << >>, family |-> Nowhere]
     /\ verdict = "elsewhere" /\ pc = 1 /\ written = {} /\ dynamic = FALSE
     /\ stage = "memory"
     /\ artifact \in Compiled
     /\ limits \in Policies(artifact)
     /\ loaded = << >> /\ wire = << >> /\ intact = TRUE /\ dumps = 0 /\ dumped = << >>
     /\ upvalues = << >>

(* encode, and the host keeps what it returns. *)
Store ==
  /\ stage = "memory"
  /\ IF ValidateArtifact(artifact, limits)
     THEN stage' = "stored" /\ wire' = Encode(artifact)
     ELSE stage' = "refused" /\ wire' = << >>
  /\ intact' = TRUE
  /\ UNCHANGED <<vars, artifact, loaded, limits, dumps, dumped, upvalues>>

(* string.dump of a function of the loaded artifact, in the profiles that  *)
(* have it.  It encodes under the default limits, so that the model leaves *)
(* out the hosts that load under others.                                   *)
Dump(main, strip) ==
  /\ stage = "loaded"
  /\ dumps < MaxDumps /\ limits = Unlimited /\ intact
  /\ Profile(loaded) \notin {"Blu", "Luau"}
  /\ LET projected == Projection(loaded, main, strip)
         valid == ValidateArtifact(projected, Unlimited)
     IN /\ artifact' = projected
        /\ stage' = IF valid THEN "stored" ELSE "refused"
        /\ wire' = IF valid THEN Header(Profile(loaded)) \o Encode(projected) ELSE << >>
  /\ intact' = TRUE
  /\ dumps' = dumps + 1 /\ dumped' = <<loaded, main>>
  /\ loaded' = << >> /\ upvalues' = << >>
  /\ UNCHANGED <<vars, limits>>

(* What may become of stored bytes. *)
Cut(bytes) == {SubSeq(bytes, 1, n) : n \in 0 .. Len(bytes) - 1}
Changed(bytes) == {[bytes EXCEPT ![n] = (@ + d) % Base] : n \in DOMAIN bytes, d \in Damages}
Extended(bytes) == {Append(bytes, 0)}

Damage ==
  /\ stage = "stored" /\ intact /\ limits = Unlimited /\ dumps = 0 /\ artifact \in Fragile
  /\ wire' \in Cut(wire) \cup Changed(wire) \cup Extended(wire)
  /\ intact' = FALSE
  /\ UNCHANGED <<vars, stage, artifact, loaded, limits, dumps, dumped, upvalues>>

Refuse(how) ==
  /\ stage' = how
  /\ UNCHANGED <<vars, artifact, loaded, limits, wire, intact, dumps, dumped, upvalues>>

(* What is decoded is validated, and a closure made of the main function. *)
LoadDecoded(decoded) ==
  LET valid == decoded.ok /\ ValidateArtifact(decoded.artifact, limits)
  IN \/ ~decoded.ok /\ Refuse("unreadable")
     \/ decoded.ok /\ ~valid /\ Refuse("invalid")
     \/ /\ valid
        /\ stage' = "loaded"
        /\ loaded' = decoded.artifact
        /\ upvalues' = FreshUpvalues(decoded.artifact.prototypes[decoded.artifact.main + 1])
        /\ UNCHANGED <<vars, artifact, limits, wire, intact, dumps, dumped>>

(* decode_validated, where the bytes are not taken for text. *)
Load ==
  /\ stage = "stored"
  /\ LET payload == Payload(wire, Profile(artifact))
     IN \/ payload = << >> /\ Refuse("text")
        \/ payload # << >> /\ \E decoded \in {Decode(payload[1], limits)} : LoadDecoded(decoded)

(* A function of the artifact is called.  From here on only its code and   *)
(* its registers matter, and the rest is forgotten.                        *)
Enter ==
  /\ stage = "loaded"
  /\ \E p \in ToSet(loaded.prototypes) :
       /\ proto' = Meaning(p, loaded.prototypes)
       /\ written' = Parameters(proto')
  /\ verdict' = "accepted"
  /\ stage' = "code"
  /\ artifact' = << >> /\ limits' = << >> /\ loaded' = << >> /\ wire' = << >>
  /\ intact' = TRUE /\ dumps' = 0 /\ dumped' = << >> /\ upvalues' = << >>
  /\ UNCHANGED <<pc, dynamic>>

ArtifactNext ==
  \/ Next /\ UNCHANGED artifactVars
  \/ Store
  \/ stage = "loaded" /\ (\E k \in Indices(loaded), s \in BOOLEAN : Dump(k, s))
  \/ Damage
  \/ Load
  \/ Enter

ArtifactSpec == ArtifactInit /\ [][ArtifactNext]_allVars

-----------------------------------------------------------------------------
(* What the older format does not carry: lines, unless they were stripped, *)
(* and the lines of single instructions.                                   *)
Carried(a) ==
  IF a.format = 2 THEN a
  ELSE [a EXCEPT !.prototypes = [i \in DOMAIN @ |->
          LET stripped == Has(@[i], "StrippedDebugLines")
          IN [@[i] EXCEPT !.line_info = << >>,
                          !.line_defined = IF stripped THEN @ ELSE 0,
                          !.last_line_defined = IF stripped THEN @ ELSE 0]]]

(* The charge the decoder makes for a table of lines and the validator     *)
(* does not.                                                               *)
LineCharge(a) ==
  LET lines(p) == 4 * Len(p.line_info) IN IF a.format = 2 THEN Total(lines, a.prototypes) ELSE 0

(* The bytes are as many as announced.  An artifact that is refused for a  *)
(* limit is refused by decode too, before it is validated.                 *)
StoresExactly ==
  stage = "memory" =>
    /\ stage' = "stored" => Len(wire') = EncodedSize(artifact)
    /\ stage' = "refused" /\ ValidateArtifact(artifact, Unlimited) => ~Decode(Encode(artifact), limits).ok

(* Bytes that were not touched give back the artifact, under the same      *)
(* limits, and only a table of lines, which alone exceeds the limit on     *)
(* decoded bytes, makes an artifact that was encoded be refused.  What     *)
(* happened to the bytes before, an artifact that is loaded is encoded as  *)
(* they are.                                                               *)
LoadsExactly ==
  stage = "stored" =>
    /\ stage' = "loaded" /\ intact => loaded' = Carried(artifact)
    /\ stage' \in {"unreadable", "invalid", "text"} /\ intact =>
         Aggregate(artifact, "decoded_bytes") + LineCharge(artifact) > limits["decoded_bytes"]
    /\ stage' = "loaded" =>
         wire = (IF dumps = 0 THEN << >> ELSE Header(Profile(loaded'))) \o Encode(loaded')

(***************************************************************************)
(* encode and decode are each other's inverse, on artifacts as on bytes:   *)
(* what is stored is what is loaded, and an artifact has one encoding.     *)
(***************************************************************************)
CodecIsExact == [][StoresExactly /\ LoadsExactly]_allVars

(* Function k of artifact a and function j of artifact b run alike. *)
RECURSIVE SameFunction(_, _, _, _)
SameFunction(a, k, b, j) ==
  LET p == a.prototypes[k + 1]
      q == b.prototypes[j + 1]
  IN /\ \A f \in {"profile", "code", "constants", "upvalues", "register_count",
                   "parameter_count", "is_vararg"} : p[f] = q[f]
     /\ Len(p.children) = Len(q.children)
     /\ \A c \in DOMAIN p.children : SameFunction(a, p.children[c], b, q.children[c])

(***************************************************************************)
(* A function that was dumped comes back: the dump is valid, the function  *)
(* and all functions below it have the code, constants and captures they   *)
(* had, child by child, and its first upvalue is the environment (in Lua   *)
(* 5.1 there is none to give), also when it is dumped again.               *)
(***************************************************************************)
DumpedFunctionsReload ==
  /\ stage = "refused" => dumps = 0
  /\ stage = "loaded" /\ dumps > 0 =>
       /\ SameFunction(dumped[1], dumped[2], loaded, loaded.main)
       /\ \A k \in DOMAIN upvalues :
            upvalues[k] = IF k = 1 /\ Profile(loaded) # "Lua51" THEN "environment" ELSE "nil"
=============================================================================
