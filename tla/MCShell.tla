------------------------------- MODULE MCShell -------------------------------
(***************************************************************************)
(* Shell on a screen of 4 rows of 3 columns with a buffer of 5: a line of  *)
(* full length wraps over two rows and scrolls the screen.                 *)
(***************************************************************************)
EXTENDS Shell

MCPrompt == <<"gt">>
MCPrintable == {"h", "s", "k"}

(* help, kerninfo and shutdown, cut to what tells them apart.               *)
MCCommands == <<<<"h", "s">>, <<"k", "h">>, <<"s", "h", "k">>>>

(* display_help and display_kernel_info print lines, help with tabs.        *)
MCOutput == <<<<"h", NL, TAB, "k", NL>>, <<"k", NL>>, <<>>>>
=============================================================================
