---------------------------- MODULE MCProvision ----------------------------
(***************************************************************************)
(* Recipes of rb_upload_os.sh for Provision.                               *)
(***************************************************************************)
EXTENDS Provision, SequencesExt

\* RecipeSetupBoardForRegigrafWithHWtest
MCSetupBoard ==
  <<"uboot", "setup_nor", "kernel_eth", "validate_hw", "mtd_utils", "rootfs",
    "unpack_rootfs", "install_regigraf", "install_firmware", "install_uboot",
    "install_kernel", "setup_booting", "register">>

\* RecipeUpdateRootFS
MCUpdate ==
  <<"uboot", "kernel_eth", "mtd_utils", "rootfs", "unpack_rootfs", "install_regigraf",
    "install_firmware", "register">>

MCAll == {"kernel", "rootfs", "utils", "tftp"}

MCJobs == {
  [acts |-> MCSetupBoard, given |-> MCAll],
  [acts |-> MCUpdate, given |-> MCAll],
  [acts |-> <<"uboot", "enter_uboot", "kernel_uart", "rootfs", "test_hw">>, given |-> MCAll],
  [acts |-> <<"uboot", "kernel_old_sys">>, given |-> MCAll],
  [acts |-> <<"uboot", "kernel_dbg", "kernel_uart">>, given |-> {"tftp"}]}

\* RecipeSetupNor
MCNorJobs == {[acts |-> <<"uboot", "setup_nor">>, given |-> MCAll]}

MCDefaultEnv == <<[key |-> "panel", size |-> "fits"], [key |-> "board_id", size |-> "fits"]>>

MCRefusable == {"kernel", "tools", "license"}

\* What the theorems of ProvisionProofs assume of recipes and stand.
ASSUME MCAddressFirst == AddressFirst
ASSUME MCRecipes      == SettingsGiven /\ RegisterLast /\ UBootUsed
\* The stages of MCJobs, a witness of RecipesInOrder; RecipeSetupNor has none.
MCStages(j) ==
  LET go(stages, a) ==
        Append(stages, IF Last(stages) = "lost" THEN "lost"
                         ELSE CHOOSE s \in Stages : <<Last(stages), s>> \in Leads(a))
  IN  FoldLeft(go, <<"rom">>, Plan[j])
ASSUME MCInOrder == \A j \in Jobs \cap MCJobs : Itinerary(j, MCStages(j))
ASSUME MCStand        == Password /\ "packet" \notin Refusable /\ Keeps(Default)
=============================================================================
