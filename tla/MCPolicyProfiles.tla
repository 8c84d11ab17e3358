--------------------------- MODULE MCPolicyProfiles ---------------------------
(* A small instance of PolicyProfiles with the controls of the product, a     *)
(* document of three units asked about in two overlapping chunks, and the     *)
(* replies of a model: good ones, one that asks for more evidence, one that   *)
(* asks for evidence of another control, and ones that are not accounted for. *)
EXTENDS PolicyProfiles, GovernanceControls

MCUnits == <<"u1", "u2", "u3">>

Manual == [class |-> "MANUAL", control |-> "ORGANIZATIONAL_CONTROL_MANUAL_REVIEW",
           locators |-> {"u1"}, text |-> "train", evaluation |-> "MANUAL",
           types |-> {}, required |-> {}, optional |-> {}]
Hide == [class |-> "AUTOMATABLE", control |-> "EC2_NO_PUBLIC_IP", locators |-> {"u2"},
         text |-> "hide", evaluation |-> "AWS", types |-> {Instance},
         required |-> {"EC2.PUBLIC_ADDRESS"}, optional |-> {}]
HideInterfaces ==
    [Hide EXCEPT !.required = {"EC2.PUBLIC_ADDRESS", "EC2.NETWORK_INTERFACE_ASSOCIATION"}]
NoEvidence == [Hide EXCEPT !.text = "encrypt", !.required = {"EC2.VOLUME_ENCRYPTION"}]

Reply(requirements, context) ==
    [requirements |-> requirements, context |-> context, judges |-> FALSE]

MCReplies ==
    {Reply({Manual, Hide}, {}), Reply({HideInterfaces}, {"u1"}),
     Reply({HideInterfaces, NoEvidence}, {"u3"}),
     Reply({Manual}, {"u1", "u2"}), Reply({}, {"u2"}),
     [Reply({}, {"u2", "u3"}) EXCEPT !.judges = TRUE]}

MCSymmetry == Permutations(Clients)
===============================================================================
