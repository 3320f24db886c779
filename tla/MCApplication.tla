--------------------------- MODULE MCApplication ---------------------------
(* The program registers one hotkey; the interface also allows a second one, *)
(* the same one again, or to take one back, which may not have been          *)
(* registered, before another one is.                                        *)
EXTENDS Application

f == <<"vk_f", "alt">>
g == <<"vk_g", "alt">>
MCKeys == {f, g}
MCScripts ==
  { << <<"register", f>>, <<"register", g>> >>,
    << <<"register", f>>, <<"register", f>> >>,
    << <<"register", f>>, <<"unregister", f>> >>,
    << <<"unregister", f>>, <<"register", g>> >> }
MCJobs == {"exit", "find", "search"} \X (1 .. MaxInputs)
=============================================================================
