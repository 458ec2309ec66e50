----------------------------- MODULE MCInstaller -----------------------------
\* One, two and three drives, with and without a gap in their numbers.
EXTENDS Installer
MCFitted == {{0}, {0, 1}, {0, 2}, {0, 1, 3}}
=============================================================================
