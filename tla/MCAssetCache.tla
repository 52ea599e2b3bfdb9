---------------------------- MODULE MCAssetCache ----------------------------
(* AssetCache on a Wikipedia page, whose original and thumbnail have        *)
(* different extensions and so different files, and one Pexels hit.         *)
EXTENDS AssetCache, TLC

CONSTANTS r1, r2, r3, c1, c2, original, thumbnail, clip, png, jpg, mp4, page, hit

PageThenHit == <<original, thumbnail, clip>>
FileOf == original :> png @@ thumbnail :> jpg @@ clip :> mp4
SourceOf == original :> page @@ thumbnail :> page @@ clip :> hit

Interchangeable == Permutations(Renders) \cup Permutations(Cuts)
=============================================================================
