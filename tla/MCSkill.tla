-------------------------------- MODULE MCSkill --------------------------------
(***************************************************************************)
(* The programs of the archify skill that run beside other processes, each *)
(* on its own: a behaviour is a behaviour of one of them ("part"), the     *)
(* others stand still in a state that asks for nothing that fairness       *)
(* promises; the preview stands still as one that has been stopped.        *)
(***************************************************************************)
EXTENDS UpdateCheck, VisualCheck, ArchitectureCompare, LivePreview

(* The content of the input of a preview that stands still.                *)
ASSUME SkillAssumption == "a" \in Sources

VARIABLE part

(* The cfg gives the visual check two views (one under way beside one that *)
(* has been passed or is to come), and the comparison two snapshots that   *)
(* can be rendered and one that cannot.  The preview has two inputs that   *)
(* are rendered alike, one that differs, one that fails.                   *)
RenderedTo == [a |-> "x", b |-> "y", c |-> "y"]

allVars == <<part, updVars, visualVars, previewVars, compareVars>>

AllInit ==
  /\ part \in {"update", "visual", "preview", "compare"}
  /\ UpdInit /\ VisualInit /\ CompareInit
  /\ IF part = "preview" THEN PreviewInit
     ELSE /\ NothingBuilt /\ source = "a"
          /\ timer = FALSE /\ stopping = TRUE /\ closing = "closed" /\ stopped = TRUE
  /\ part # "visual" => artifact = "a"
  /\ part # "compare" => base = "a" /\ head = "a"

Rest(own) ==
  /\ UNCHANGED part /\ part = own
  /\ own # "update" => UNCHANGED updVars
  /\ own # "visual" => UNCHANGED visualVars
  /\ own # "preview" => UNCHANGED previewVars
  /\ own # "compare" => UNCHANGED compareVars

AllNext ==
  \/ Rest("update") /\ UpdNext
  \/ Rest("visual") /\ VisualNext
  \/ Rest("preview") /\ PreviewNext
  \/ Rest("compare") /\ CompareNext

AllSpec ==
  /\ AllInit /\ [][AllNext]_allVars
  /\ VisualFairness /\ PreviewFairness

(* Each part is typed.                                                     *)
SkillTyped == UpdTypeOK /\ VisualTypeOK /\ PreviewTypeOK /\ CompareTypeOK

(* A check ends and a stop ends, with a browser or a build that hangs.     *)
NothingHangs == CheckEnds /\ StopEnds
=============================================================================
