----------------------- MODULE MCDefinitionsSupervisor -----------------------
EXTENDS DefinitionsSupervisor, TLC
CONSTANTS mercury, testnet, folder1, folder2

OneFolderEach == mercury :> folder1 @@ testnet :> folder2

Symmetry == Permutations(ThreadId) \cup Permutations(Handler)
=============================================================================
