------------------------------- MODULE MCStartup -------------------------------
(* The tasks of Miners (miners/startup.d), as an instance of StartupRunner. *)
EXTENDS StartupRunner

CONSTANT HasCookie   \* a session cookie was given, and the list is wanted

MinersTask == {"CreateLogo", "OptionsLoader", "ClassicGetList", "LoadDefaultSkin",
  "LoadModernTexture", "LoadClassicTexture", "LoadClassicIcons",
  "LoadClassicFont", "CreateTiledBackground"}

MinersFollow ==
  [t \in MinersTask |->
     CASE t = "CreateLogo"         -> {"OptionsLoader"}
       [] t = "OptionsLoader"      -> {"LoadDefaultSkin"} \cup
                                      IF HasCookie THEN {"ClassicGetList"} ELSE {}
       [] t = "LoadDefaultSkin"    -> {"LoadModernTexture"}
       [] t = "LoadModernTexture"  -> {"LoadClassicTexture"}
       [] t = "LoadClassicTexture" -> {"LoadClassicIcons"}
       [] t = "LoadClassicIcons"   -> {"LoadClassicFont"}
       [] OTHER                    -> {}]

MinersMayFail == {"OptionsLoader", "LoadModernTexture"}
===============================================================================
