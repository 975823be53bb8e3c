------------------------------ MODULE Settings ------------------------------
(***************************************************************************)
(* What setters and getters promise: a setter that reports success has set *)
(* its own setting, and no other, to what it was given, and a getter       *)
(* returns that.  One that reports a failure has changed nothing.          *)
(***************************************************************************)
VARIABLES
    settings,  \* what the getters return
    last       \* the last call of a setter: its setting, its value, its success

Next ==
    settings' = IF last'.ok THEN [settings EXCEPT ![last'.field] = last'.value] ELSE settings

Spec == [][Next]_<<settings, last>>
=============================================================================
