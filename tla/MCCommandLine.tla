---------------------------- MODULE MCCommandLine ----------------------------
EXTENDS CommandLine

\* A path may be any word: "light" and "bytes" are paths too.
MCWords == {"--help", "-h", "--background", "--show", "--no-tray", "--render-popover", "--appearance", "--width", "--state",
            "light", "stale", "300", "219", "", "-5", "bytes"}
=============================================================================
