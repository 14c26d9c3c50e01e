----------------------------- MODULE MCStartup ------------------------------
(* A small LAN with devices chosen for the cases in Chosen: ties in quality *)
(* in either order, formats that cannot be read, rates at the edge of a     *)
(* range, and a device that supports nothing that is asked for.             *)
EXTENDS Startup

CONSTANTS p1, p2

Is(f, c, r)  == [format |-> f, channels |-> c, rate |-> r]
R(f, c, max) == [format |-> f, channels |-> c, min |-> 8000, max |-> max]
D(ranges)    == [ranges |-> ranges, default |-> Is("I16", 1, 48000)]

MCDeviceOf ==
    [p \in {p1, p2} |-> [banned |-> FALSE, plug |-> p = p2, loopback |-> TRUE]]

MCDevices == {
    D(<<R("U8", 2, 48000), R("F32", 2, 44100), R("I16", 2, 48000), R("I64", 2, 48000)>>),
    D(<<R("I32", 2, 48000), R("U32", 2, 48000)>>),
    D(<<R("U32", 2, 48000), R("I32", 2, 48000)>>),
    D(<<R("F32", 2, 48000), R("F64", 2, 48000)>>),
    D(<<R("I16", 2, 48000), R("U16", 2, 48000)>>),
    D(<<R("F32", 1, 96000)>>) }

MCRequests  == {Is("S32LE", 2, 44100), Is("S16LE", 2, 48000), Is("S32LE", 2, 0)}
MCIdleCaps  == {None, Is("S16LE", 2, 44100), Is("S32LE", 2, 48000)}
MCBridgeCap == Is("S32LE", 2, 44100)
=============================================================================
