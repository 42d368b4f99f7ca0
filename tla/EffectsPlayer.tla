---------------------------- MODULE EffectsPlayer ----------------------------
(***************************************************************************)
(* Effects that play music and show the state of the player.  The players  *)
(* themselves are assembly code outside the model; what they keep in       *)
(* memory that the effect allocates is read and written by Cpu.            *)
(***************************************************************************)
EXTENDS Script

ConsolePutStr == Cpu({}, {Buf("screen")})

-----------------------------------------------------------------------------
(* effects/playp61 *)
P61DrawOsc == Cpu({}, {Buf("osc")}) \o BlitterFill(Buf("osc"))
P61Init ==
  NewBitmap({Buf("screen")}) \o NewBitmap({Buf("osc")})
    \o NewCopList({Buf("cp")})
    \o CopSetupBitplanes(Buf("cp"), {Buf("screen")})
    \o EnableDMA({"blitter"}) \o BlitterLineSetup(Buf("screen"))
    \o BlitterLine(Buf("screen")) \o CopListActivate(Buf("cp"))
    \o EnableDMA({"raster"}) \o ConsolePutStr
P61Kill ==
  DisableDMA({"copper", "raster", "blitter"}) \o DeleteCopList({Buf("cp")})
    \o DeleteBitmap({Buf("osc")}) \o DeleteBitmap({Buf("screen")})
P61Scopes ==
  { BitmapClear(Buf("osc")) \o draw \o BlitterLineSetup(Buf("osc"))
      \o BlitterLine(Buf("osc")) \o BitmapCopy(Buf("screen"), Buf("osc"))
      : draw \in {<<>>, P61DrawOsc} }
P61Render ==
  { ConsolePutStr \o scopes \o TaskWaitVBlank
      : scopes \in {<<>>} \union P61Scopes }
PlayP61 == [Effect("playp61", 0) EXCEPT !.init = P61Init, !.kill = P61Kill,
              !.render = P61Render]

-----------------------------------------------------------------------------
(* effects/playctr: module is data that the linker placed, and UnLoad      *)
(* frees it all the same.  CinterMusic does nothing while stopped is set,  *)
(* as it is until the end of Init.                                         *)
PlayCinterLoad ==
  MemAlloc(Bufs({"instruments", "player"})) \o Cpu({}, Bufs({"instruments"}))
PlayCinterUnLoad ==
  MemFree(Bufs({"player"})) \o MemFree(Bufs({"instruments"}))
    \o MemFree(Bufs({"module"}))
PlayCinterCinterMusic ==
  Cpu(Bufs({"instruments", "player"}), Bufs({"player"}))
PlayCinterInit ==
  NewBitmap({Buf("screen")}) \o NewCopList({Buf("cp")})
    \o CopSetupBitplanes(Buf("cp"), {Buf("screen")})
    \o CopListActivate(Buf("cp")) \o EnableDMA({"raster"}) \o ConsolePutStr
    \o Cpu({}, Bufs({"instruments", "player"})) \o ConsolePutStr
PlayCinterKill ==
  DisableDMA({"copper", "raster"}) \o DeleteCopList({Buf("cp")})
    \o DeleteBitmap({Buf("screen")})
PlayCinterRender ==
  Cpu(Bufs({"player"}), {Buf("screen")}) \o TaskWaitVBlank
PlayCinter ==
  [Effect("playctr", 0) EXCEPT !.load = PlayCinterLoad,
     !.unload = PlayCinterUnLoad, !.init = PlayCinterInit,
     !.kill = PlayCinterKill, !.render = {PlayCinterRender},
     !.vblank = {PlayCinterCinterMusic}, !.late = TRUE]

-----------------------------------------------------------------------------
(* effects/playpt *)
PlayProtrackerLoad ==
  MemAlloc(Bufs({"TmpBuf"})) \o Cpu({}, Bufs({"TmpBuf"}))
    \o MemFree(Bufs({"TmpBuf"}))
PlayProtrackerInit ==
  NewBitmap({Buf("screen")}) \o NewCopList({Buf("cp")})
    \o CopSetupBitplanes(Buf("cp"), {Buf("screen")})
    \o CopListActivate(Buf("cp")) \o EnableDMA({"raster"}) \o ConsolePutStr
PlayProtrackerKill ==
  DisableDMA({"copper", "raster"}) \o DeleteCopList({Buf("cp")})
    \o DeleteBitmap({Buf("screen")})
PlayProtrackerRender == ConsolePutStr \o TaskWaitVBlank
PlayProtracker ==
  [Effect("playpt", 0) EXCEPT !.load = PlayProtrackerLoad,
     !.init = PlayProtrackerInit, !.kill = PlayProtrackerKill,
     !.render = {PlayProtrackerRender}]

-----------------------------------------------------------------------------
(* effects/playahx *)
PlayAHXInitWaveScope ==
  NewBitmap(Bufs({"channel"})) \o NewBitmap(Bufs({"spans"}))
    \o BlitterLineSetup(Buf("spans")) \o BlitterLine(Buf("spans"))
    \o BlitterFill(Buf("spans")) \o WaitBlitter \o Cpu({}, Bufs({"spans"}))
PlayAHXKillWaveScope ==
  DeleteBitmap(Bufs({"channel"})) \o DeleteBitmap(Bufs({"spans"}))
PlayAHXWaveScopeDrawChannel ==
  BitmapClear(Buf("channel")) \o Cpu(Bufs({"spans"}), Bufs({"channel"}))
PlayAHXDrawFrames ==
  BlitterLineSetup(Buf("screen")) \o BlitterLine(Buf("screen"))
PlayAHXInit ==
  NewBitmap({Buf("screen")}) \o NewCopList({Buf("cp")})
    \o CopSetupBitplanes(Buf("cp"), {Buf("screen")})
    \o CopListActivate(Buf("cp")) \o EnableDMA({"blitter", "raster"})
    \o ConsolePutStr \o PlayAHXDrawFrames \o PlayAHXInitWaveScope
PlayAHXKill ==
  DisableDMA({"copper", "raster", "blitter"}) \o PlayAHXKillWaveScope
    \o DeleteCopList({Buf("cp")}) \o DeleteBitmap({Buf("screen")})
PlayAHXRenderScreen ==
  {ConsolePutStr,
   ConsolePutStr \o PlayAHXWaveScopeDrawChannel
     \o BitmapCopy(Buf("screen"), Buf("channel"))}
PlayAHXRender == {screen \o TaskWaitVBlank : screen \in PlayAHXRenderScreen}
PlayAHX == [Effect("playahx", 0) EXCEPT !.init = PlayAHXInit,
              !.kill = PlayAHXKill, !.render = PlayAHXRender]
=============================================================================
