---------------------------- MODULE MCFatChains ----------------------------
\* A file "a", copied beside itself, moved or made in a directory "d", and a
\* file or directory "d", with the calls that make and remove them. The directory
\* "/d/a" is made from the root, where its ".." misleads, and from "d".
EXTENDS FatChains

P(root, parts) == [rooted |-> root, parts |-> parts]
A   == P(FALSE, <<"a">>)
D   == P(FALSE, <<"d">>)
RDA == P(TRUE, <<"d", "a">>)

Call(op, p, q, w, n) == [op |-> op, path |-> p, dest |-> q, what |-> w, size |-> n]

MCCalls == {Call("echo", D, D, "echo", 1),
            Call("touch", RDA, RDA, "echo", 1),
            Call("install", A, A, "install", 2),
            Call("mkdir", D, D, "echo", 1), Call("mkdir", RDA, RDA, "echo", 1),
            Call("cp", A, A, "echo", 1), Call("mv", A, RDA, "echo", 1),
            Call("rm", A, A, "echo", 1), Call("rm", D, D, "echo", 1)}
=============================================================================
